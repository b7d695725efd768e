SPECIFICATION Spec
CONSTANTS
    btc = btc
    eth = eth
    p1 = p1
    p2 = p2
    p3 = p3
    None = None
    Coins = {btc, eth}
    Plans = {p1, p3}
    PlanCoin <- MCPlanCoinTwo
    Executors = {e1}
    Monitors = {fast}
    Reconcilers = {}
    MaxTrades = 2
    Units = 2
    Target1Units = 1
    Ceiling = 4
    EntryMargins = {1}
    UnifiedMargins = {2}
    UnifiedMaxOpen = 2
    NetMarks <- MCOneMark
    FundingCosts <- MCNoFunding
    AccountLocks = TRUE
    RowLocks = TRUE
INVARIANTS
    WithinCeiling
CHECK_DEADLOCK FALSE
