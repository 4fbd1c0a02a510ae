\* One enrollment, its events, interruptions and recoveries over three boots.
SPECIFICATION FairSpec
CONSTANTS
    MaxOps = 1
    MaxBoot = 3
    MaxEvents = 2
    Capacity = 1
INVARIANTS NoReplay DisagreementBlocks ConfirmedIsDurable
PROPERTIES RecoveryFollowsJournal CommandEnds SuccessIsVerified
CHECK_DEADLOCK FALSE
