SPECIFICATION FairSpec
CONSTANTS
    c1 = c1
    p1 = p1
    Coins = {c1}
    Positions = {p1}
    CoinOf <- MCCoinOf
    MaxAge = 1
    MaxDuration = 1
    BufferLength = 2
INVARIANTS
    TypeOK
    EntryProtected
    PositionsWatched
PROPERTIES
    FillsFresh
    Resumes
CHECK_DEADLOCK FALSE
