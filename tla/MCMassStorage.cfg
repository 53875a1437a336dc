CONSTANTS
    Command <- MCCommand
    NrLargeObjs = 4
    PageBlocks = 2
    HostGivesUp = FALSE
SPECIFICATION MscSpec
INVARIANTS
    StatusInItsPhase
    BuffersAccounted
    NothingLeftBehind
    BusyMeansQuiet
PROPERTIES
    DataIsWhatWasAsked
    CommandAnswered
CHECK_DEADLOCK FALSE
