SPECIFICATION FairSpec
CONSTANTS
    Timeout = 1
    SettleMax = 1
    SettlePairs = 2
    MaxFrames = 1
    Orderly = TRUE
INVARIANTS TorqueIsWatched
PROPERTIES LaunchOnlyWhenEnabled 
    StopRemovesTorque  SettleEnds
