CONSTANTS
    Oversampling = 1
    Size <- MCSize
    Offset = 50
    Threshold = 2
    Places <- MCPlaces
    Floating = {2}
    None = None
    IntLimit = 32768
    ShortLimit = 2048
    MaxPen = 4

SPECIFICATION TouchSpec

INVARIANTS
    HandlersAgree
    TouchesMapToCircles
PROPERTIES
    ReleaseIsReported
    StillPenIsMeasured
