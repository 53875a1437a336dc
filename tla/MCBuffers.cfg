CONSTANTS
    AddrBits = 6
    NULL = NULL
    Start = 9
    End = 43
    Kinds <- MCKinds
    MallocSize <- MCMallocSize
    PtrSize = 2
    Written <- MCWritten
    SmallSize = 4
    LargeSize = 8
    Size <- MCSize
SPECIFICATION Spec
INVARIANTS
    RegionsApart
    FailsOnlyWhenFull
    NothingLost
PROPERTY ImplementsObjectPool
