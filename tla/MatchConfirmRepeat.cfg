SPECIFICATION Spec
CONSTANTS
    Parties = {pA, pB}
    MaxCalls = 2
    MaxRetry = 0
    MaxAborts = 0
    Straddle = FALSE
INVARIANT StartedOnce
CHECK_DEADLOCK FALSE
