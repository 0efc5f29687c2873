CONSTANTS
    Clients = {c1, c2}
    Keys = {1, 2}
    Hash <- MCHash
    Tuple <- MCTuple
    Bytes <- MCBytes
    CacheSizes = {1}
    kDefaultCacheSize = 3
    kHashTableSize = 2
    MaxEntries = 2
    MaxBlocks = 6
SPECIFICATION Spec
INVARIANT LruExact
CHECK_DEADLOCK FALSE
