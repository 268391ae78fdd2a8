SPECIFICATION FairSpec
CONSTANTS
    Parties = {pA, pB}
    MaxCalls = 1
    MaxRetry = 1
    MaxAborts = 2
    Straddle = FALSE
INVARIANTS
    StartedOnce
PROPERTIES
    PromiseKept
    MatchSettles
CHECK_DEADLOCK FALSE
