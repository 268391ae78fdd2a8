CONSTANTS
    p1 = p1
    p2 = p2
    b = b
    Humans = {p1, p2}
    Bots = {b}
    Ranked = FALSE
    MinPlayers = 2
    MaxPlayers = 2
    Policies = {"winner_first", "fixed"}
    FixedSeat = 1
    MaxSessions = 1
    MaxInFlight = 1
    MaxChanges = 5
    MaxRaces = 0
SPECIFICATION Spec
INVARIANTS
    SeatsFilled
CHECK_DEADLOCK FALSE
