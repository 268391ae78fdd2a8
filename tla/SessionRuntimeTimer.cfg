SPECIFICATION Spec
CONSTANTS
    Players = {p1, p2}
    Bots = {p2}
    Requests = {r1}
    MaxMoves = 2
    MaxRestarts = 0
INVARIANT SessionClocked
CHECK_DEADLOCK FALSE
