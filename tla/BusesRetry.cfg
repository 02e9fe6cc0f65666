SPECIFICATION Spec
CONSTANTS
    Joints = 2
    FailureLimit = 2
    ReadTimeout = 1
    SettlePairs = 1
    SettleMax = 1
    HardwareFaults = FALSE
    MaxLaunches = 2
PROPERTIES
    ReadFailuresAreTolerated
