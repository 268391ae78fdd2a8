SPECIFICATION BackfillSpec
CONSTANTS
    Bots = {b1, b2}
    Humans = {h1, h2}
    Scanners = {n1, n2}
    MaxActive = 2
    SharedPickup = FALSE
    MaxRestarts = 2
INVARIANTS
    NoDoubleActivation
    
CHECK_DEADLOCK FALSE
