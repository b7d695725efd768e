SPECIFICATION Spec
CONSTANTS
    Minimum = 1
    Step = 1
    Scores = {"good", "weak"}
    AsGood <- MCAsGood
    NoScore = "weak"
    Autoflush = FALSE
    MaxCandidates = 3
    MaxClosed = 4
    MaxFailures = 0
PROPERTIES
    FailureReplaced
CHECK_DEADLOCK FALSE
