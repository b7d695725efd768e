SPECIFICATION FairSpec
CONSTANTS
    Positions <- MCOverdue
    Prices <- MCPrices
    CandleLength = 2
    MaxAge = 1
    OpenedAt = 1
    Horizon = 4
    LiveFallback = TRUE
PROPERTIES
    DeadlineCloses
CHECK_DEADLOCK FALSE
