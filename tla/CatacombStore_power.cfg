\* Power losses on a file system that may reorder unsynced calls.
SPECIFICATION Spec
CONSTANTS
    Names = {1, 2, 3}
    MaxGen = 2
    MaxCrash = 0
    MaxPowerLoss = 2
    Reorder = TRUE
INVARIANTS BatchAtomic CommitRecoverable OnlyTornIsRefused ReadIsDurable BoundaryIsDurable
CHECK_DEADLOCK FALSE
