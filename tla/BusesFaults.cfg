SPECIFICATION FairSpec
CONSTANTS
    Joints = 1
    FailureLimit = 2
    ReadTimeout = 1
    SettlePairs = 2
    SettleMax = 0
    HardwareFaults = TRUE
    MaxLaunches = 2
INVARIANTS
    StoppedIsSilent
    PairIsFresh
PROPERTIES
    OneCommandAtATime
    CommandEnds
    PairEnds
    SettledAfterDelivery
