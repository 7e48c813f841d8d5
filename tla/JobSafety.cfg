SPECIFICATION Spec
CONSTANTS
    p1 = p1
    p2 = p2
    p3 = p3
    Pid <- Pids3
    Cap = 1
    MaxId = 2
    ExitStatus = {0, 1}
    Lists <- NoLists
    Waits <- NoWaits
    MaxMembers = 3
    MaxLaunches = 4
    Faults = TRUE
    PidReuse = FALSE
SYMMETRY Symmetry
VIEW View
INVARIANTS
    TypeOK
    PipelineByPosition
    TerminalOwnership
    StoppedJobRegistered
