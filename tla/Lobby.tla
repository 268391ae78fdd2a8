------------------------------- MODULE Lobby --------------------------------
(***************************************************************************)
(* The life of a room: create, join, leave, bots, settings, start, the end *)
(* of its sessions, rematch, ranked creation and the reaper                *)
(* (lobby.go, reaper.go, api_lobby.go, api_bots.go, VoteRematch in         *)
(* runtime.go, lobby_handler.go, game_handler.go).                         *)
(*                                                                         *)
(* No operation runs in a transaction: each reads the room and its players *)
(* first (one step), then writes statement by statement (one step each).   *)
(* A client waits for the answer before its next request; "system" is the  *)
(* server's own actor: match-service's gRPC calls and session timeouts.    *)
(***************************************************************************)
EXTENDS Integers, Sequences, FiniteSets, TLC

CONSTANTS
    Humans, Bots,
    Ranked,             \* whether match-service may create the room
    MinPlayers, MaxPlayers,
    Policies,           \* settings that owners ask for
    FixedSeat,          \* setting first_mover_seat
    MaxSessions,        \* bound on the sessions of the room
    MaxInFlight,        \* bound on overlapping requests
    MaxChanges,         \* bound on the requests to enter or leave
    MaxRaces            \* bound on the kinds of overlap in one behaviour

Players == Humans \cup Bots
Actors == Humans \cup {"system"}

ASSUME LobbyAssumption ==
    /\ IsFiniteSet(Players)
    /\ {"system", "nobody", "no", "noResult", "draw"} \cap Players = {}
    /\ Humans \cap Bots = {}
    /\ MinPlayers \in Nat \ {0} /\ MaxPlayers \in Nat
    /\ Ranked \in BOOLEAN /\ FixedSeat \in Nat /\ MaxSessions \in Nat

VARIABLES
    status,      \* rooms.status; "none": not created, "gone": row deleted
    deleted,     \* rooms.deleted_at is set
    owner,
    seat,        \* room_players: member -> seat
    settings,    \* room_settings
    sessions,    \* game_sessions with their result and rematch votes
    elsewhere,   \* players who are in another active room
    req,         \* per actor: the request it waits for
    changes,     \* bound: requests to enter or to leave so far
    left,        \* history: somebody was removed from the room
    raced        \* history: what overlapping requests disagreed about

room == <<status, deleted, owner, seat, settings>>
history == <<changes, left, raced>>
vars == <<room, sessions, elsewhere, req, history>>

Members == DOMAIN seat

(* A request: its next statement, what it asks for and about whom, and     *)
(* what it has read so far.                                                *)
Ask(pc, op, who) == [pc |-> pc, op |-> op, who |-> who, list |-> {},
                     n |-> 0, slots |-> <<>>, sess |-> 0]
Idle == Ask("idle", "none", "nobody")

InFlight == {a \in Actors : req[a] # Idle}
Quiet == InFlight = {}

Open(s) == sessions[s].over = "no"
(* IsPlayerInActiveRoom and hasActiveSession (an open session of a room    *)
(* the player is in).                                                      *)
Busy(p) ==
    \/ p \in elsewhere
    \/ p \in Members /\ ~deleted /\ status \in {"waiting", "in_progress"}
    \/ p \in Members /\ \E s \in DOMAIN sessions : Open(s)

(* The overlaps that the properties exclude: two entries take one seat,    *)
(* two removals miss each other's owner, two writers of the status         *)
(* overwrite each other (a leaving player is one when the room empties).   *)
Seating == {"create", "join", "addBot", "ranked"}
Removing == {"leave", "removeBot"}
Restarting == {"start", "rematch", "ranked", "end"}
Clashes(o, op) ==
    {c \in {"seats", "owner", "status"} :
        CASE c = "seats" -> {o, op} \subseteq Seating
          [] c = "owner" -> {o, op} \subseteq Removing
          [] c = "status" -> \/ {o, op} \subseteq Restarting
                             \/ "leave" \in {o, op} /\ {o, op} \cap Seating # {}}
Overlap(op) ==
    (UNION {Clashes(req[a].op, op) : a \in InFlight})
    \cup (IF op = "ranked" THEN {"unchecked"} ELSE {})
Race(kinds) ==
    /\ raced' = raced \cup kinds
    /\ Cardinality(raced' \ {"unchecked"}) <= MaxRaces

(* Bounds: overlapping requests, none after the last session is over, and  *)
(* none after a clash about the status or a lost client, whose requests    *)
(* in flight still run to their end.                                       *)
MayBegin(a) ==
    /\ req[a] = Idle
    /\ Cardinality(InFlight) < MaxInFlight
    /\ raced \cap {"status", "cancel"} = {}
    /\ Len(sessions) = MaxSessions => \E s \in DOMAIN sessions : Open(s)
Begin(a, new) ==
    /\ MayBegin(a)
    /\ req' = [req EXCEPT ![a] = new]
    /\ Race(Overlap(new.op))
    /\ changes' = changes + (IF new.op \in Seating \cup Removing THEN 1 ELSE 0)
    /\ changes' <= MaxChanges
At(a, pc) == req[a].pc = pc
Goto(a, pc) == req' = [req EXCEPT ![a].pc = pc]
End(a) == req' = [req EXCEPT ![a] = Idle]

(* The settings that start a game: their options, and their defaults.      *)
DefaultLobbySettings ==
    [first   |-> {"random", "fixed", "game_default"},
     rematch |-> {"random", "fixed", "game_default", "winner_first", "loser_first",
                  "winner_chooses", "loser_chooses"}]
buildDefaultSettings == [key \in DOMAIN DefaultLobbySettings |-> "random"]
validateSetting(key, value) == value \in DefaultLobbySettings[key]

Init ==
    /\ status = "none" /\ deleted = FALSE /\ owner = "nobody"
    /\ seat = <<>>
    /\ settings = buildDefaultSettings
    /\ sessions = <<>>
    /\ elsewhere = {}
    /\ req = [a \in Actors |-> Idle]
    /\ changes = 0 /\ left = FALSE /\ raced = {}

-----------------------------------------------------------------------------
(* CreateRoom: INSERT INTO rooms, then the owner's seat.  When this room   *)
(* exists already it is another one.                                       *)
CreateRoom(p) ==
    /\ ~Busy(p)
    /\ Begin(p, Ask("insert", "create", p))
    /\ UNCHANGED <<room, sessions, elsewhere, left>>

InsertRoom(a) ==
    /\ At(a, "insert")
    /\ IF status = "none"
       THEN /\ status' = "waiting"
            /\ owner' = req[a].who
            /\ Goto(a, "addOwner")
            /\ UNCHANGED elsewhere
       ELSE /\ elsewhere' = elsewhere \cup {req[a].who}
            /\ End(a)
            /\ UNCHANGED <<status, owner>>
    /\ UNCHANGED <<deleted, seat, settings, sessions, history>>

(* INSERT INTO room_players; a player who has a row already keeps it, and  *)
(* the request fails.                                                      *)
Seated(p, n) == seat' = [m \in Members \cup {p} |-> IF m \in Members THEN seat[m] ELSE n]

AddOwner(a) ==
    /\ At(a, "addOwner")
    /\ Seated(req[a].who, 0)
    /\ IF req[a].op = "ranked" /\ req[a].who \notin Members THEN Goto(a, "addSecond") ELSE End(a)
    /\ UNCHANGED <<status, deleted, owner, settings, sessions, elsewhere,
                   history>>

(* A player leaves the other room.                                         *)
LeaveOther(p) ==
    /\ p \in elsewhere
    /\ req[p] = Idle
    /\ elsewhere' = elsewhere \ {p}
    /\ UNCHANGED <<room, sessions, req, history>>

JoinRoom_SeatZero(p) ==
    /\ status = "waiting" /\ ~deleted
    /\ ~Busy(p)
    /\ Cardinality(Members) < MaxPlayers
    /\ Begin(p, Ask("addPlayer", "join", p))
    /\ UNCHANGED <<room, sessions, elsewhere, left>>

(* JoinRoom: the new player's seat is the number of players just read.     *)
JoinRoom(p) ==
    /\ status = "waiting" /\ ~deleted
    /\ ~Busy(p)
    /\ Cardinality(Members) < MaxPlayers
    /\ Begin(p, [Ask("addPlayer", "join", p) EXCEPT !.n = Cardinality(Members)])
    /\ UNCHANGED <<room, sessions, elsewhere, left>>

(* handleAddBot: neither the room's status nor its size is looked at.      *)
AddBot(p, b) ==
    /\ status \notin {"none", "gone"} /\ ~deleted
    /\ owner = p
    /\ b \notin Members
    /\ Begin(p, [Ask("addPlayer", "addBot", b) EXCEPT !.n = Cardinality(Members)])
    /\ UNCHANGED <<room, sessions, elsewhere, left>>

(* AddPlayerToRoom: refused if the player is in the room or the room gone. *)
AddPlayerToRoom(a) ==
    /\ At(a, "addPlayer")
    /\ IF status = "gone" THEN UNCHANGED seat ELSE Seated(req[a].who, req[a].n)
    /\ End(a)
    /\ UNCHANGED <<status, deleted, owner, settings, sessions, elsewhere,
                   history>>

-----------------------------------------------------------------------------
(* LeaveRoom, called by a player of the room: the owner is read first, the *)
(* remaining players afterwards.                                           *)
LeaveRoom(p) ==
    /\ p \in Members
    /\ status = "waiting" /\ ~deleted
    /\ Begin(p, Ask("remove", "leave", owner))
    /\ UNCHANGED <<room, sessions, elsewhere, left>>

Without(p) == [m \in Members \ {p} |-> seat[m]]
RemovePlayer(p) ==
    /\ At(p, "remove")
    /\ seat' = Without(p)
    /\ left' = (left \/ p \in Members)
    /\ Goto(p, "remaining")
    /\ UNCHANGED <<status, deleted, owner, settings, sessions, elsewhere,
                   changes, raced>>

First(ms) == {m \in ms : \A o \in ms : seat[m] <= seat[o]}
ListRemaining(p) ==
    /\ At(p, "remaining")
    /\ \/ Members = {} /\ Goto(p, "deletePlayers")
       \/ /\ Members # {} /\ req[p].who = p
          /\ \E m \in First(Members) :
               req' = [req EXCEPT ![p].pc = "transfer", ![p].who = m]
       \/ Members # {} /\ req[p].who # p /\ End(p)
    /\ UNCHANGED <<room, sessions, elsewhere, history>>

UpdateRoomOwner_Skip(p) ==
    /\ At(p, "transfer")
    /\ End(p)
    /\ UNCHANGED <<room, sessions, elsewhere, history>>

UpdateRoomOwner(p) ==
    /\ At(p, "transfer")
    /\ owner' = req[p].who
    /\ End(p)
    /\ UNCHANGED <<status, deleted, seat, settings, sessions, elsewhere,
                   history>>

(* DeleteRoom: the rows of room_players, then the status.                  *)
DeletePlayers(p) ==
    /\ At(p, "deletePlayers")
    /\ seat' = <<>>
    /\ Goto(p, "close")
    /\ UNCHANGED <<status, deleted, owner, settings, sessions, elsewhere,
                   history>>

(* handleRemoveBot: by the owner, in any state of the room.                *)
RemoveBot(p, b) ==
    /\ ~deleted
    /\ owner = p
    /\ b \in Members
    /\ Begin(p, Ask("removeBot", "removeBot", b))
    /\ UNCHANGED <<room, sessions, elsewhere, left>>

RemovePlayerFromRoom(p) ==
    /\ At(p, "removeBot")
    /\ seat' = Without(req[p].who)
    /\ left' = (left \/ req[p].who \in Members)
    /\ End(p)
    /\ UNCHANGED <<status, deleted, owner, settings, sessions, elsewhere,
                   changes, raced>>

(* UpdateRoomSetting (what it read may be stale when it writes; no         *)
(* property depends on that, so it is one step).                           *)
UpdateRoomSetting(p) ==
    /\ status = "waiting" /\ ~deleted
    /\ owner = p
    /\ req[p] = Idle
    /\ \E key \in DOMAIN settings, value \in Policies :
         /\ validateSetting(key, value)
         /\ settings' = [settings EXCEPT ![key] = value]
    /\ UNCHANGED <<status, deleted, owner, seat, sessions, elsewhere, req,
                   history>>

-----------------------------------------------------------------------------
(* The engine's player slice: players[rp.Seat] for every row; a seat       *)
(* beyond the slice panics, of two players in one seat one remains, and a  *)
(* seat nobody has stays an empty player.                                  *)
SeatsInRange == \A m \in Members : seat[m] < Cardinality(Members)
Slices ==
    {sl \in [0 .. Cardinality(Members) - 1 -> Members \cup {"nobody"}] :
        \A i \in DOMAIN sl :
            LET here == {m \in Members : seat[m] = i}
            IN  IF here = {} THEN sl[i] = "nobody" ELSE sl[i] \in here}

(* rotatePlayers.                                                          *)
RotatePlayers(sl, first) ==
    LET n == Cardinality(DOMAIN sl)
    IN  [i \in DOMAIN sl |-> sl[(first + i) % n]]

(* resolveFirstMover and resolveRematchFirstMover: the possible seats.     *)
AnySeat == 0 .. Cardinality(Members) - 1
FirstMover(policy) ==
    CASE policy = "fixed" ->
           {IF FixedSeat < Cardinality(Members) THEN FixedSeat ELSE 0}
      [] policy = "game_default" -> {0}
      [] OTHER -> AnySeat

RematchFirstMover_Swapped(policy, winner) ==
    LET chosen == IF policy = "loser_first" THEN Members \cap {winner}
                                            ELSE Members \ {winner}
    IN  IF policy \notin {"winner_first", "loser_first"} THEN FirstMover(policy)
        ELSE IF winner = "draw" \/ chosen = {} THEN AnySeat
        ELSE {seat[m] : m \in First(chosen)}

RematchFirstMover(policy, winner) ==
    LET chosen == IF policy = "winner_first" THEN Members \cap {winner}
                                             ELSE Members \ {winner}
    IN  IF policy \notin {"winner_first", "loser_first"} THEN FirstMover(policy)
        ELSE IF winner = "draw" \/ chosen = {} THEN AnySeat
        ELSE {seat[m] : m \in First(chosen)}

Finished == {s \in DOMAIN sessions : ~Open(s)}
LastFinished ==
    CHOOSE s \in Finished : \A t \in Finished : sessions[t].at <= sessions[s].at
FirstSeats ==
    IF Finished = {} THEN FirstMover(settings.first)
    ELSE RematchFirstMover(settings.rematch, sessions[LastFinished].over)

(* StartGame up to game.Init: the errors and the panic end the request.    *)
CanStart(p) ==
    /\ status = "waiting" /\ ~deleted
    /\ owner = p
    /\ Cardinality(Members) \in MinPlayers .. MaxPlayers
    /\ Finished # {} => sessions[LastFinished].over # "noResult"
    /\ SeatsInRange

Start(a, p, op) ==
    \E sl \in Slices, first \in FirstSeats :
        req' = [req EXCEPT ![a].pc = "createSession", ![a].op = op,
                           ![a].slots = RotatePlayers(sl, first)]

(* handleStartGame.                                                        *)
StartGame(p) ==
    /\ CanStart(p)
    /\ MayBegin(p)
    /\ Start(p, p, "start")
    /\ Race(Overlap("start"))
    /\ UNCHANGED <<room, sessions, elsewhere, changes, left>>

(* StartGame called by handleRematch for the voter, or by the gRPC         *)
(* StartSession for the owner.                                             *)
StartAfter(a) ==
    /\ At(a, "start")
    /\ LET p == IF a = "system" THEN owner ELSE a
       IN  IF CanStart(p) THEN Start(a, p, req[a].op) ELSE End(a)
    /\ UNCHANGED <<room, sessions, elsewhere, history>>

CreateGameSession(a) ==
    /\ At(a, "createSession")
    /\ Len(sessions) < MaxSessions
    /\ sessions' = Append(sessions,
           [slots |-> req[a].slots, over |-> "no", at |-> 0, votes |-> {},
            mode |-> IF req[a].op = "ranked" THEN "ranked" ELSE "casual",
            first |-> settings.rematch])
    /\ Goto(a, "setInProgress")
    /\ UNCHANGED <<room, elsewhere, history>>

SetInProgress_Late(a) ==
    /\ At(a, "setInProgress")
    /\ End(a)
    /\ UNCHANGED <<room, sessions, elsewhere, history>>

SetInProgress(a) ==
    /\ At(a, "setInProgress")
    /\ status' = "in_progress"
    /\ End(a)
    /\ UNCHANGED <<deleted, owner, seat, settings, sessions, elsewhere,
                   history>>

(* CreateRankedRoom: only the first player is checked; then StartSession.  *)
CreateRankedRoom(p) ==
    /\ Ranked
    /\ status = "none"
    /\ ~Busy(p)
    /\ Begin("system", Ask("insert", "ranked", p))
    /\ UNCHANGED <<room, sessions, elsewhere, left>>

AddSecond(p) ==
    /\ At("system", "addSecond")
    /\ p # req["system"].who
    /\ Seated(p, 1)
    /\ IF p \in Members THEN End("system") ELSE Goto("system", "start")
    /\ UNCHANGED <<status, deleted, owner, settings, sessions, elsewhere,
                   history>>

-----------------------------------------------------------------------------
Ended(s, result) ==
    sessions' = [sessions EXCEPT ![s].over = result,
                                 ![s].at = Cardinality(Finished) + 1]

(* Nobody plays a session before the request that starts it is through.    *)
Playable(s) == Open(s) /\ \A a \in Actors : ~At(a, "setInProgress")

(* ApplyMove's transaction ends the session and the room together.         *)
GameOver(s) ==
    /\ Playable(s)
    /\ \E result \in {sessions[s].slots[i] : i \in DOMAIN sessions[s].slots}
                       \cup {"draw"} : Ended(s, result)
    /\ status' = "finished"
    /\ UNCHANGED <<deleted, owner, seat, settings, elsewhere, req, history>>

(* Surrender and onReadyTimeout do it in three statements.                 *)
EndSession(a, s) ==
    /\ Playable(s)
    /\ a \in Members \cup {"system"}
    /\ Begin(a, [Ask("finish", "end", "nobody") EXCEPT !.sess = s])
    /\ UNCHANGED <<room, sessions, elsewhere, left>>

FinishSession(a) ==
    /\ At(a, "finish")
    /\ IF Open(req[a].sess) THEN Ended(req[a].sess, "noResult")
                            ELSE UNCHANGED sessions
    /\ Goto(a, "close")
    /\ UNCHANGED <<room, elsewhere, history>>

CloseRoom_WrongStatus(a) ==
    /\ At(a, "close")
    /\ status' = "closed"
    /\ IF req[a].op = "end" THEN Goto(a, "result") ELSE End(a)
    /\ UNCHANGED <<deleted, owner, seat, settings, sessions, elsewhere,
                   history>>

CloseRoom(a) ==
    /\ At(a, "close")
    /\ status' = "finished"
    /\ IF req[a].op = "end" THEN Goto(a, "result") ELSE End(a)
    /\ UNCHANGED <<deleted, owner, seat, settings, sessions, elsewhere,
                   history>>

CreateGameResult(a) ==
    /\ At(a, "result")
    /\ \E p \in Members \cup {"draw"} :
         sessions' = IF sessions[req[a].sess].over = "noResult"
                     THEN [sessions EXCEPT ![req[a].sess].over = p]
                     ELSE sessions
    /\ End(a)
    /\ UNCHANGED <<room, elsewhere, history>>

(* ForceCloseSession: no result, and the room is not told.                 *)
ForceClose(s) ==
    /\ Playable(s)
    /\ Ended(s, "noResult")
    /\ UNCHANGED <<room, elsewhere, req, history>>

-----------------------------------------------------------------------------
(* VoteRematch and handleRematch: any finished casual session of the room  *)
(* may be voted on, also one that had its rematch.                         *)
VoteRematch(p, s) ==
    /\ ~Open(s) /\ sessions[s].mode = "casual"
    /\ p \in Members
    /\ MayBegin(p)
    /\ req' = [req EXCEPT ![p] = [Ask("vote", "rematch", "nobody") EXCEPT
                                   !.sess = s, !.list = Members]]
    /\ Race(Overlap("rematch")
            \cup (IF s = Len(sessions) THEN {} ELSE {"status"}))
    /\ UNCHANGED <<room, sessions, elsewhere, changes, left>>

UpsertRematchVote(p) ==
    /\ At(p, "vote")
    /\ sessions' = [sessions EXCEPT ![req[p].sess].votes =
                        @ \cup {p} \cup (req[p].list \cap Bots)]
    /\ Goto(p, "countVotes")
    /\ UNCHANGED <<room, elsewhere, history>>

ListRematchVotes(p) ==
    /\ At(p, "countVotes")
    /\ IF Cardinality(sessions[req[p].sess].votes) < Cardinality(req[p].list)
       THEN End(p)
       ELSE Goto(p, "deleteVotes")
    /\ UNCHANGED <<room, sessions, elsewhere, history>>

DeleteRematchVotes(p) ==
    /\ At(p, "deleteVotes")
    /\ sessions' = [sessions EXCEPT ![req[p].sess].votes = {}]
    /\ Goto(p, "resetRoom")
    /\ UNCHANGED <<room, elsewhere, history>>

ResetRoom(p) ==
    /\ At(p, "resetRoom")
    /\ status' = "waiting"
    /\ Goto(p, "start")
    /\ Race({"unchecked"})
    /\ UNCHANGED <<deleted, owner, seat, settings, sessions, elsewhere, changes, left>>

(* CleanupOrphanRooms: only rooms nobody has touched for minutes.          *)
Reap ==
    /\ Quiet /\ ~deleted
    /\ \/ /\ status = "waiting" /\ Members = {}
          /\ status' = "gone"
          /\ UNCHANGED deleted
       \/ /\ status = "finished"
          /\ deleted' = TRUE
          /\ UNCHANGED status
    /\ UNCHANGED <<owner, seat, settings, sessions, elsewhere, req, history>>

(* The client goes away: r.Context() is cancelled and the next statement   *)
(* fails.  Before the first write that is as if it had not asked.          *)
FirstWrite == {"insert", "addPlayer", "remove", "removeBot", "createSession",
               "finish", "vote"}
Cancel(p) ==
    /\ req[p] # Idle
    /\ req[p].op = "rematch" \/ req[p].pc \notin FirstWrite
    /\ End(p)
    /\ Race({"cancel"})
    /\ UNCHANGED <<room, sessions, elsewhere, changes, left>>

Step(a) ==
    \/ InsertRoom(a) \/ AddOwner(a) \/ AddPlayerToRoom(a)
    \/ StartAfter(a) \/ CreateGameSession(a) \/ SetInProgress(a)
    \/ FinishSession(a) \/ CloseRoom(a) \/ CreateGameResult(a)

Request(p) ==
    \/ CreateRoom(p) \/ LeaveOther(p) \/ JoinRoom(p) \/ LeaveRoom(p)
    \/ \E b \in Bots : AddBot(p, b) \/ RemoveBot(p, b)
    \/ UpdateRoomSetting(p) \/ StartGame(p)
    \/ \E s \in DOMAIN sessions : VoteRematch(p, s)
    \/ RemovePlayer(p) \/ ListRemaining(p) \/ UpdateRoomOwner(p)
    \/ DeletePlayers(p) \/ RemovePlayerFromRoom(p)
    \/ UpsertRematchVote(p) \/ ListRematchVotes(p) \/ DeleteRematchVotes(p)
    \/ ResetRoom(p)
    \/ Cancel(p)

Next ==
    \/ \E p \in Humans : Request(p) \/ CreateRankedRoom(p) \/ AddSecond(p)
    \/ \E a \in Actors : Step(a)
    \/ \E a \in Actors, s \in DOMAIN sessions : EndSession(a, s)
    \/ \E s \in DOMAIN sessions : GameOver(s) \/ ForceClose(s)
    \/ Reap

Spec == Init /\ [][Next]_vars

Symmetry == Permutations(Humans)

-----------------------------------------------------------------------------
Seats == 0 .. Cardinality(Players) - 1
Slots == UNION {[0 .. n - 1 -> Players \cup {"nobody"}] : n \in 0 .. MaxPlayers}

TypeOK ==
    /\ status \in {"none", "waiting", "in_progress", "finished", "gone"}
    /\ deleted \in BOOLEAN
    /\ owner \in Players \cup {"nobody"}
    /\ Members \subseteq Players /\ \A m \in Members : seat[m] \in Seats
    /\ \A key \in DOMAIN settings : settings[key] \in DefaultLobbySettings[key]
    /\ Len(sessions) <= MaxSessions
    /\ \A s \in DOMAIN sessions :
         sessions[s] \in [slots : Slots, at : 0 .. MaxSessions,
                          over : Players \cup {"no", "noResult", "draw", "nobody"},
                          votes : SUBSET Players, mode : {"casual", "ranked"},
                          first : DefaultLobbySettings.rematch]
    /\ elsewhere \subseteq Humans
    /\ raced \subseteq {"seats", "owner", "status", "cancel", "unchecked"}

(* Every session has a player in every slot of the engine: "Build the      *)
(* engine player slice ordered by seat." (lobby.go:258-269).               *)
SeatsFilled ==
    \A s \in DOMAIN sessions, i \in 0 .. MaxPlayers - 1 :
        i \in DOMAIN sessions[s].slots => sessions[s].slots[i] # "nobody"

(* ... until somebody leaves or two joins (or bots) overlap: whatever else *)
(* overlaps, the slots of a session are its room's players, each once      *)
(* (lobby.go:136, api_bots.go:139, lobby.go:258-269).                      *)
SessionSeated ==
    ~left /\ "seats" \notin raced =>
        \A s \in DOMAIN sessions :
            LET slots == sessions[s].slots
            IN  /\ \A i, j \in DOMAIN slots : slots[i] = slots[j] => i = j
                /\ \A i \in DOMAIN slots : slots[i] \in Members

(* A waiting room with players in it has its owner among them, so somebody *)
(* can start it, when no two departures overlap and no client goes away    *)
(* halfway (lobby.go:151-189).                                             *)
OwnerPresent ==
    Quiet /\ status = "waiting" /\ Members # {}
        /\ raced \cap {"owner", "status", "cancel"} = {} => owner \in Members

(* An open session is its room's only one and its room is in progress,     *)
(* safe from a second start and from the reaper, unless votes, starts or   *)
(* late room updates overlap or a finished rematch is voted on again       *)
(* (lobby.go:323-330, runtime.go:670-736, pg.go:919-946).                  *)
RoomTracksSession ==
    Quiet /\ raced \cap {"status", "owner", "cancel"} = {} =>
        \A s \in DOMAIN sessions : Open(s) =>
            /\ status = "in_progress" /\ ~deleted
            /\ \A t \in DOMAIN sessions : Open(t) => t = s

(* With winner_first the winner of a session opens the rematch             *)
(* (lobby.go:271-311, 553-593).                                            *)
WinnerOpens ==
    ~left /\ raced \cap {"seats", "status", "cancel"} = {} =>
        \A s \in DOMAIN sessions :
            s > 1 /\ sessions[s].first = "winner_first"
                  /\ sessions[s - 1].over \in Players
                => sessions[s].slots[0] = sessions[s - 1].over

(* Nobody is in two active rooms, except through a rematch or a ranked     *)
(* pairing, which do not ask (lobby.go:63-71, 113-119; api_lobby.go:89).   *)
OneActiveRoom ==
    /\ raced \cap {"unchecked", "status", "cancel"} = {}
    /\ ~deleted /\ status \in {"waiting", "in_progress"}
    => Members \cap elsewhere = {}

(* Who is in a room and who owns it (lobby.go, JoinRoom and LeaveRoom):    *)
(* the owner is one of its players, and nobody plays in two rooms.         *)
MembersSound == OwnerPresent /\ OneActiveRoom
=============================================================================
