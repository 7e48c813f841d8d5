SPECIFICATION Spec
CONSTANTS
    p1 = p1
    p2 = p2
    CellCap = 4
    JobCap = 2
    Pids <- TwoPids
    NoPid = NoPid
    Commands <- QueueCommands
    MaxId = 4
    Signals = FALSE
    Interactive = FALSE
    Faults = FALSE
INVARIANTS
    OneSessionWriter
PROPERTIES
    QueueMoves
CHECK_DEADLOCK FALSE
