\* A deletion that stops again while its recovery saves forward.
SPECIFICATION Spec
CONSTANTS
    Kinds = {"delete"}
    Identities = {1, 2}
    MaxOps = 2
    MaxBoot = 1
    MaxMatch = 0
    MaxExports = 3
INVARIANTS InterruptedIsRecoverable
CHECK_DEADLOCK FALSE
