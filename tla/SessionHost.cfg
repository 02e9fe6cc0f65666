SPECIFICATION FairSession
CONSTANTS
    Timeout = 1
    SettleMax = 0
    SettlePairs = 1
    MaxFrames = 1
    Orderly = FALSE
    FeedbackLimit = 2
    Backlog = 2
    PromptRestart = FALSE
INVARIANTS RouteKnown ReadyToStart 
PROPERTIES RefusedIsStopped AdapterIsOrderly 
