CONSTANTS
    Clients = {c1}
    Keys = {1, 2, 3}
    Hash <- MCHash
    Tuple <- MCTuple
    Bytes <- MCBytes
    CacheSizes = {0, 1, 2}
    kDefaultCacheSize = 3
    kHashTableSize = 2
    MaxEntries = 3
    MaxBlocks = 6
SPECIFICATION Spec
INVARIANTS
    CacheValid
PROPERTIES
    PrunesEnough
    EvictsOldest
CHECK_DEADLOCK FALSE
