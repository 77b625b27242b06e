SPECIFICATION Spec
CONSTANTS
    NPROC = 6
    RAMSIZE = 250
    minaddr = 8
    MINSTK = 8
    NULLSTK = 11
    NMEM = 0
    StkSizes = {96}
    HeapSizes = {}
INVARIANTS
    StacksApart
CHECK_DEADLOCK FALSE
