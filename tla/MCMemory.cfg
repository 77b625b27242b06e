SPECIFICATION Spec
CONSTANTS
    NPROC = 4
    RAMSIZE = 19
    minaddr = 8
    MINSTK = 8
    NULLSTK = 11
    NMEM = 2
    StkSizes = {0, 8, 13}
    HeapSizes = {3, 17}
INVARIANTS
    TypeOK
    FreeListWellFormed
    FreeBlocksAligned
    MemoryAccounted
CHECK_DEADLOCK FALSE
