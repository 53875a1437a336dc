CONSTANTS
    Request <- MCRequest
    MaxAddress = 2
    DeviceKeepsUp = FALSE
SPECIFICATION Spec
INVARIANT
    AllCompletedBySetup
CHECK_DEADLOCK FALSE
