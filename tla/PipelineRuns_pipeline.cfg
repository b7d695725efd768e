SPECIFICATION FairSpec
CONSTANTS
    Startup = startup
    Runs = {r1}
    StageOrder <- MCStageOrder
    CycleOrder <- MCCycleOrder
    AlwaysRun <- MCAlwaysRun
    NonBlocking <- MCNonBlocking
    Required <- MCRequired
    Outcomes <- MCOutcomes
    StaleAfter = 1
INVARIANTS
    TypeOK
    ExecuteAfterSafety
    SafetyStagesRun
    LedgerNotOptimistic
PROPERTIES
    RowResolved
CHECK_DEADLOCK FALSE
