CONSTANTS
    Clients = {c1, c2}
    NULL = NULL
    MAX_THREADS = 3
    DefaultThreads = 2
    Requests = {1, 4}
    Sizes = {1, 2}
    MaxSize = 2
    Results = {0, 1}
    MaxJobs = 2
SPECIFICATION Spec
SYMMETRY ClientSymmetry
INVARIANTS
    TypeOK
    NoDanglingJob
    QueueExact
    NobodyOversleeps
    ShutdownIsComplete
PROPERTIES
    TeamsAccounted
    ParForContract
