SPECIFICATION FairSpec
CONSTANTS
    Terms = {"good", "weak"}
    Approvable = {"good"}
    Weak = {"weak"}
    NoTerms = "none"
    Scanners = {s1}
    RiskRuns = {r1}
    Refresh = 1
    Stale = 1
    MaxPlans = 2
    MaxScans = 2
    MaxFailures = 1
INVARIANTS
    TypeOK
    ThesisFollowsPlan
    EvidenceHolds
PROPERTIES
    Reauthorized
