SPECIFICATION SSpec
CONSTANTS
    Timeout = 1
    SettleMax = 0
    SettlePairs = 1
    MaxFrames = 1
    Orderly = FALSE
    FeedbackLimit = 2
    Backlog = 2
    PromptRestart = TRUE
PROPERTY LaunchOnlyWhenEnabled
