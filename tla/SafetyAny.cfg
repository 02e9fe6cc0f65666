SPECIFICATION Spec
CONSTANTS
    Timeout = 3
    Wrap = 9
    MaxSilence = 8
PROPERTIES LatchHolds EnableNeedsFreshHeartbeat
