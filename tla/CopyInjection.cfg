CONSTANTS
    Devices = {d1, d2}
    MayFail = {"host_malloc", "malloc", "context", "free", "to_host", "to_device"}
    Kinds = {"internal", "input", "output"}
    MaxSteps = 3
    MaxBranches = 1
    Branching = {"internal"}
SPECIFICATION Spec
SYMMETRY DeviceSymmetry
INVARIANTS
    StagesSeeLatest
    CallerCanRead
    NoDeviceLeak
CHECK_DEADLOCK FALSE
