SPECIFICATION Spec
CONSTANTS
    p1 = p1
    p2 = p2
    CellCap = 3
    JobCap = 2
    Pids <- TwoPids
    NoPid = NoPid
    Commands <- ListCommands
    MaxId = 2
    Signals = FALSE
    Interactive = FALSE
    Faults = FALSE
PROPERTIES
    EveryCommandStarts
CHECK_DEADLOCK FALSE
