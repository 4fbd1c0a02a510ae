\* Three processes, five appends, two power losses, short writes that end in a line or before its newline.
SPECIFICATION FairSpec
CONSTANTS
    Procs = {p1, p2, p3}
    NoProc = NoProc
    Tears = {"part", "unterminated"}
    MaxRecords = 5
    MaxLosses = 2
INVARIANTS AcknowledgedIntact DecidedOnHistory
PROPERTIES AppendEnds
CHECK_DEADLOCK FALSE
