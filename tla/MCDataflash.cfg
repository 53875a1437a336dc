CONSTANTS
    r1 = r1
    r2 = r2
    NULL = NULL
    Req <- MCReq
    Client <- MCClient
    OtherTask <- MCOtherTask
    Buffer <- MCBuffer
    Value <- MCValue
    Pages = 2
    PageBlocks = 2
    MaxLen = 3
    Ranges <- MCRanges
SPECIFICATION Spec
INVARIANTS
    NextOwnerFindsChipIdle
PROPERTIES
    OnlyOwnBlocksChange
    CompleteMeansTransferred
    RequestCompletes
CHECK_DEADLOCK FALSE
