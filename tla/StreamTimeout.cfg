SPECIFICATION Spec
CONSTANTS
    ControlTick = 3
    SpliceLead = 3
    Capacity = 3
    WireMax = 1
    Caps <- MCCaps
    MinPos = 0
    MaxPos = 3
    IsrDelay = 0
    Policies <- MCPolicies
    Horizons = {0}
    Epochs = {1}
    Positions = {0}
    Leads = {2, 3, 4, 6, 7}
    HostUntil = 7
    MaxTick = 20

PROPERTIES TimeoutOnlyAfterSilence
CHECK_DEADLOCK FALSE
