CONSTANTS
    Clients = {c1}
    NULL = NULL
    MAX_THREADS = 3
    DefaultThreads = 2
    Requests = {1, 4}
    Sizes = {1, 2}
    MaxSize = 2
    Results = {0}
    MaxJobs = 2
SPECIFICATION FairSpec
PROPERTIES
    CallsReturn
    ShutdownEnds
