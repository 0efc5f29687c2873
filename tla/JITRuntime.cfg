CONSTANTS
    p1 = p1
    p2 = p2
    Pipelines = {p1, p2}
    ExternOf <- MCExternOf
    DeviceKinds <- MCDeviceKinds
    Targets <- MCTargets
    Buffers = {b1}
    CacheSizes = {1}
    MaxModules = 5
    MaxFailures = 1
    None = None
    Custom = Custom
SPECIFICATION FairSpec
INVARIANTS
    RefCountExact
    CodeOutlivesUsers
    BuildIsConsistent
    SettingsInForce
PROPERTIES
    EventuallyReclaimed
CHECK_DEADLOCK FALSE
