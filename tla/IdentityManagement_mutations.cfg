\* Any mutation, or a rename or a sync after another, with adaptive matches,
\* reboots and recoveries.
SPECIFICATION FairSpec
CONSTANTS
    Kinds = {"rename", "delete", "sync"}
    Identities = {1, 2}
    MaxOps = 2
    MaxBoot = 3
    MaxMatch = 1
    MaxExports = 4
INVARIANTS DeletedOnce CleanMeansSaved DisagreementBlocks UpdateKept
PROPERTIES ClosedTruthfully RecoveryFollowsJournal CommandEnds
CHECK_DEADLOCK FALSE
