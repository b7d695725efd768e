SPECIFICATION Spec
CONSTANTS
    Positions <- MCPositions
    Prices <- MCPrices
    CandleLength = 3
    MaxAge = 1
    OpenedAt = 1
    Horizon = 6
    LiveFallback = TRUE
INVARIANTS
    TypeOK
    ReplayComplete
    LegLostOnlyToLock
PROPERTIES
    StopNotRetroactive
    StopNeverLoosened
CHECK_DEADLOCK FALSE
