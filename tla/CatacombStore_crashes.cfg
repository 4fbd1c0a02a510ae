\* Process crashes between any two calls, on a file system that keeps order.
SPECIFICATION FairSpec
CONSTANTS
    Names = {1, 2, 3}
    MaxGen = 2
    MaxCrash = 3
    MaxPowerLoss = 1
    Reorder = FALSE
INVARIANTS TypeOK
PROPERTIES ImplementsAtomicStore RecoveryTerminates
CHECK_DEADLOCK FALSE
