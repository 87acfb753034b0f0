SPECIFICATION Spec
CONSTANTS
    NULL = NULL
    MemSize = 11
    PointerSize = 2
    MaxPools = 2
    Buffers <- TheBuffers
    BlockSizes = {0, 1, 3}
    Values = {NULL, 0, 9}
    Careless = FALSE
INVARIANTS
    PoolTypeOK
    FreeListExact
    BlocksApart
