CONSTANTS
    Devices = {d1, d2}
    MayFail = {"malloc", "context", "to_host", "to_device"}
    Threads = {t1, t2, t3}
    MaxVersion = 4
SPECIFICATION Spec
SYMMETRY Symmetry
INVARIANTS
    ReadsLatest
    LatestKept
CHECK_DEADLOCK FALSE
