SPECIFICATION FairSpec
CONSTANTS
    RingSize = 4
    Burst = 3
    TxDepth = 3
    MaxRequests = 3
    MaxOpen = 2
INVARIANTS
    RequestsAccounted
    AnswersAccounted
    BehindAGapStops
    NeverWedged
PROPERTIES
    PortComesToRest
