SPECIFICATION Spec
CONSTANTS
    btc = btc
    eth = eth
    p1 = p1
    p2 = p2
    p3 = p3
    None = None
    Coins = {btc}
    Plans = {p1, p2}
    PlanCoin <- MCPlanCoinOne
    Executors = {e1}
    Monitors = {fast}
    Reconcilers = {}
    MaxTrades = 2
    Units = 2
    Target1Units = 1
    Ceiling = 4
    EntryMargins = {1}
    UnifiedMargins = {1}
    UnifiedMaxOpen = 1
    NetMarks <- MCOneMark
    FundingCosts <- MCNoFunding
    AccountLocks = TRUE
    RowLocks = TRUE
PROPERTIES
    StalePlanNotExecuted
CHECK_DEADLOCK FALSE
