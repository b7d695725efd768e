SPECIFICATION FairSpec
CONSTANTS
    btc = btc
    eth = eth
    p1 = p1
    p2 = p2
    p3 = p3
    None = None
    Coins = {btc, eth}
    Plans = {p1, p2, p3}
    PlanCoin <- MCPlanCoin
    Executors = {e1, e2}
    Monitors = {fast}
    Reconcilers = {}
    MaxTrades = 2
    Units = 2
    Target1Units = 1
    Ceiling = 3
    EntryMargins = {1}
    UnifiedMargins = {}
    UnifiedMaxOpen = 0
    NetMarks <- MCOneMark
    FundingCosts <- MCNoFunding
    AccountLocks = TRUE
    RowLocks = TRUE
INVARIANTS
    PlanExecutedOnce
    WithinCeiling
PROPERTIES
    AccountLockFreed
CHECK_DEADLOCK FALSE
