SPECIFICATION Spec
CONSTANTS
    btc = btc
    eth = eth
    p1 = p1
    p2 = p2
    p3 = p3
    None = None
    Coins = {btc}
    Plans = {p1}
    PlanCoin <- MCPlanCoinAcc
    Executors = {e1}
    Monitors = {fast, reconcile}
    Reconcilers = {reconcile}
    MaxTrades = 2
    Units = 2
    Target1Units = 1
    Ceiling = 4
    EntryMargins = {1}
    UnifiedMargins = {1}
    UnifiedMaxOpen = 1
    NetMarks <- MCNetMarks
    FundingCosts <- MCFunding
    AccountLocks = FALSE
    RowLocks = TRUE
INVARIANTS
    TypeOK
    LedgerMatchesBook
    OneOpenPerCoin
PROPERTIES
    ClosedIsFinal
    ImplementsAccounts
CHECK_DEADLOCK FALSE
