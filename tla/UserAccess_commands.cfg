\* Two processes, two users who contend for one machine, one outside change.
SPECIFICATION FairSpec
CONSTANTS
    Procs = {p1, p2}
    Users = {u1, u2}
    AppleUsers = {a1, a2}
    CapabilitySets = {{"verify", "enroll", "identity-management"}}
    Operations = {"enroll", "inventory", "delete-one"}
    AliasStates = {"ready", "absent", "mismatch"}
    NoProc = NoProc
    NoMapping = NoMapping
    ModificationAllowed = TRUE
    Lifetime = 0
    MaxCommands = 2
    MaxChanges = 1
    MaxClock = 1
INVARIANTS AuthorityStable AcknowledgedIsDurable MaterialIsReconciled
PROPERTIES EnabledOnEvidence CommandEnds
CHECK_DEADLOCK FALSE
