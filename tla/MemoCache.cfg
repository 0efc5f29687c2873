CONSTANTS
    Clients = {c1, c2}
    Keys = {1, 2}
    Hash <- MCHash
    Tuple <- MCTuple
    Bytes <- MCBytes
    CacheSizes = {}
    kDefaultCacheSize = 2
    kHashTableSize = 2
    MaxEntries = 2
    MaxBlocks = 6
SPECIFICATION Spec
INVARIANTS
    HeldIsRight
    NoLeak
    CacheValid
PROPERTIES
    UsedStay
CHECK_DEADLOCK FALSE
