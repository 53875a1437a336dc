CONSTANTS
    AddrBits = 6
    NULL = NULL
    Start = 8
    End = 42
    Kinds <- MCKinds
    MallocSize = {}
    PtrSize = 4
    Written <- MCWritten
    Asked <- MCAsked
    Invalid <- MCInvalid
SPECIFICATION MemBagSpec
INVARIANTS
    BlocksStayInTheirBag
    FreeCountExact
