SPECIFICATION FairSpec
CONSTANTS
    ControlTick = 3
    SpliceLead = 6
    Capacity = 3
    WireMax = 2
    Caps <- MCCaps
    MinPos = 0
    MaxPos = 3
    IsrDelay = 1
    Policies <- MCPolicies
    Horizons = {0, 8, 11}
    Epochs = {1, 2}
    Positions = {0, 3, 4}
    Leads = {2, 3, 6, 9}
    HostUntil = 6
    MaxTick = 20
INVARIANTS QueueIsTrajectory OutputWithinLimits NeverEarly SuccessIsComplete NoStaleMotion
PROPERTIES TimelineBrokenOnlyOffGrid ImplementsPlan CommittedPathKept TakeoverOnTrajectory SilentStreamEnds
CHECK_DEADLOCK FALSE
