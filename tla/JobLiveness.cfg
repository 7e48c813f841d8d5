SPECIFICATION FairSpec
CONSTANTS
    p1 = p1
    p2 = p2
    p3 = p3
    Pid <- Pids2
    Cap = 2
    MaxId = 3
    ExitStatus = {0}
    Lists <- OneList
    Waits <- SomeWaits
    MaxMembers = 2
    MaxLaunches = 2
    Faults = FALSE
    PidReuse = FALSE
VIEW LiveView
INVARIANTS
    DistinctJobs
    CurrentMirrorsTable
    NoForgottenChild
    ServiceAnswered
PROPERTIES
    ForegroundReturns
    WaitReturns
