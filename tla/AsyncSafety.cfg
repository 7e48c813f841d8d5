SPECIFICATION Spec
CONSTANTS
    p1 = p1
    p2 = p2
    CellCap = 3
    JobCap = 2
    Pids <- TwoPids
    NoPid = NoPid
    Commands <- KeyCommands
    MaxId = 4
    Signals = TRUE
    Interactive = TRUE
    Faults = TRUE
SYMMETRY Symmetry
INVARIANTS
    NoLostChild
    ControlAccepted
PROPERTIES
    KeepsPromise
CHECK_DEADLOCK FALSE
