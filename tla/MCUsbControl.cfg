CONSTANTS
    Request <- MCRequest
    MaxAddress = 2
    DeviceKeepsUp = TRUE
SPECIFICATION Spec
INVARIANTS
    ConfigurationAgreed
    AllCompletedBySetup
PROPERTIES
    AddressAgreed
    TransferEnds
CHECK_DEADLOCK FALSE
