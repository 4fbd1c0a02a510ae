\* Two enrollments, the second with what the first left behind.
SPECIFICATION Spec
CONSTANTS
    MaxOps = 2
    MaxBoot = 2
    MaxEvents = 0
    Capacity = 3
INVARIANTS OneUnfinished PendingSnapshotHolds
CHECK_DEADLOCK FALSE
