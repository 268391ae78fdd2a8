CONSTANTS
    p1 = p1
    p2 = p2
    b = b
    Humans = {p1, p2}
    Bots = {b}
    Ranked = TRUE
    MinPlayers = 2
    MaxPlayers = 2
    Policies = {"winner_first"}
    FixedSeat = 1
    MaxSessions = 2
    MaxInFlight = 2
    MaxRaces = 1
    MaxChanges = 3
SPECIFICATION Spec
SYMMETRY Symmetry
INVARIANTS
    TypeOK
    SessionSeated
    
    RoomTracksSession
    WinnerOpens
CHECK_DEADLOCK FALSE
