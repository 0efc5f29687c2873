CONSTANTS
    Threads = {t1, t2}
    p1 = p1
    p2 = p2
    Pipelines = {p1, p2}
    NumFuncs <- MCNumFuncs
    MayFail = {"malloc", "body", "task", "remote"}
    RemotePolling = TRUE
    MaxTasks = 1
    MaxFailures = 1
SPECIFICATION FairSpec
INVARIANTS
    StateValid
    ActiveThreadsCounted
PROPERTIES
    BillsTheRunning
    ShutdownEnds
    StartReturns
    RunningIsBilled
