SPECIFICATION DeclineSpec
CONSTANTS
    Callers = {c1, c2, c3}
    Threshold = 3
    Window = 3
    MaxTime = 6
    MaxDeclines = 7
INVARIANTS
    DeclineTypeOK
    
PROPERTIES
    BanEarned
CHECK_DEADLOCK FALSE
