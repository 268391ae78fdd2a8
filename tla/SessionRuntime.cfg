SPECIFICATION Spec
CONSTANTS
    Players = {p1, p2}
    Bots = {p2}
    Requests = {r1, r2}
    MaxMoves = 2
    MaxRestarts = 1
INVARIANTS
    MoveLogSerial
    
    
CHECK_DEADLOCK FALSE
