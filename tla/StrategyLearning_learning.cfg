SPECIFICATION Spec
CONSTANTS
    Minimum = 1
    Step = 1
    Scores = {"good", "weak"}
    AsGood <- MCAsGood
    NoScore = "weak"
    Autoflush = FALSE
    MaxCandidates = 3
    MaxClosed = 5
    MaxFailures = 1
INVARIANTS
    TypeOK
    OneActive
    OfficialEarned
PROPERTIES
    NoDowngrade
    RetiredStays
CHECK_DEADLOCK FALSE
