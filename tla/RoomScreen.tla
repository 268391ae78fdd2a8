----------------------------- MODULE RoomScreen ------------------------------
(***************************************************************************)
(* What somebody watching a room sees of it.  A handler of the game server *)
(* commits and publishes its event afterwards, so events of two handlers   *)
(* may be published in the opposite order of their commits.  The room's    *)
(* screen (Room.tsx, roomStore.ts) answers most events by fetching the     *)
(* room, which the server reads in two parts; the board (useGameSocket.ts) *)
(* takes the state from the event itself.  Statements within a handler are *)
(* Lobby's and SessionRuntime's; bots are left out, as adding one tells    *)
(* nobody.                                                                 *)
(***************************************************************************)
EXTENDS Naturals, Sequences, FiniteSets

CONSTANTS Members,      \* players of the room
          MaxCommits,   \* bound: requests that change the room or the session
          MaxFetches    \* bound: fetches

VARIABLES
    hall,        \* the room: players, oldest first, owner, setting and stage
    play,        \* the session: moves, whether it is over or suspended, votes
    commits,     \* how many requests have changed either
    unsent,      \* events committed and not yet published
    tuned,       \* the gateway has subscribed the watcher to the room
    inbox,       \* events on the watcher's socket, oldest first
    fetches,     \* fetches in flight
    asked,       \* how many fetches were begun
    screen,      \* what is displayed
    flaws        \* what may have left something out of date on the screen

screenVars == <<hall, play, commits, unsent, tuned, inbox, fetches, asked, screen, flaws>>

serverVars == <<hall, play, commits, unsent>>

Begun(n) == [n |-> n, at |-> "sent", owner |-> "nobody", stage |-> "waiting", players |-> {},
             private |-> FALSE, moves |-> 0, over |-> FALSE, suspended |-> FALSE]

\* where: "room", one player waiting in it, or "game", its session begun.
ScreenInit(where, first) ==
    /\ hall = [players |-> <<first>>, owner |-> first, private |-> FALSE,
               stage |-> IF where = "game" THEN "in_progress" ELSE "waiting"]
    /\ play = [moves |-> 0, over |-> FALSE, suspended |-> FALSE, votes |-> {}]
    /\ commits = 0 /\ unsent = {} /\ tuned = FALSE /\ inbox = <<>>
    /\ asked = 1 /\ fetches = {Begun(1)}
    /\ screen = [at |-> where, loaded |-> 0, players |-> {}, owner |-> "nobody", private |-> FALSE,
                 moves |-> 0, over |-> FALSE, suspended |-> FALSE]
    /\ flaws = {}

Seated == {hall.players[i] : i \in DOMAIN hall.players}

ScreenTypeOK ==
    /\ commits \in 0 .. MaxCommits
    /\ Len(hall.players) = Cardinality(Seated) /\ Seated \subseteq Members
    /\ hall.stage = "waiting" => hall.owner \in Seated
    /\ play.moves <= commits /\ play.votes \subseteq Members
    /\ Cardinality(unsent) <= commits
    /\ {f.n : f \in fetches} \subseteq 1 .. asked /\ asked <= MaxFetches
    /\ screen.at \in {"room", "started", "home", "game"}
    /\ flaws \subseteq {"missed", "crossed", "overtook"}

-----------------------------------------------------------------------------
(* A commit and the event it owes.                                          *)
Owes(type, value) ==
    /\ commits < MaxCommits
    /\ commits' = commits + 1
    /\ unsent' = unsent \cup {[n |-> commits + 1, type |-> type, value |-> value]}
    /\ UNCHANGED <<tuned, inbox, fetches, asked, screen, flaws>>

handleJoinRoom(p) ==
    /\ hall.stage = "waiting" /\ p \notin Seated
    /\ hall' = [hall EXCEPT !.players = Append(@, p)]
    /\ Owes("player_joined", FALSE) /\ UNCHANGED play

\* Closed when empty; an owner who leaves hands the room to who has been there longest.
handleLeaveRoom(p) ==
    LET rest == SelectSeq(hall.players, LAMBDA q : q # p)
    IN  /\ hall.stage = "waiting" /\ p \in Seated
        /\ hall' = IF rest = <<>> THEN [hall EXCEPT !.players = rest, !.stage = "finished"]
                   ELSE [hall EXCEPT !.players = rest, !.owner = IF @ = p THEN Head(rest) ELSE @]
        /\ IF rest = <<>> THEN Owes("room_closed", FALSE)
           ELSE IF hall.owner = p THEN Owes("owner_changed", Head(rest))
           ELSE Owes("player_left", FALSE)
        /\ UNCHANGED play

handleUpdateRoomSetting(p) ==
    /\ hall.stage = "waiting" /\ hall.owner = p
    /\ \E private \in BOOLEAN : /\ hall' = [hall EXCEPT !.private = private]
                                /\ Owes("setting_updated", private)
    /\ UNCHANGED play

BroadcastSessionStarted ==
    /\ hall.stage = "waiting" /\ Len(hall.players) >= 2
    /\ hall' = [hall EXCEPT !.stage = "in_progress"]
    /\ Owes("game_started", FALSE) /\ UNCHANGED play

(* The session: a move, the end of the game with or without one, and the    *)
(* votes to pause and to resume, of which the last one owes the event.      *)
handleMove ==
    /\ ~play.over /\ ~play.suspended
    /\ \E last \in BOOLEAN :
          /\ play' = [play EXCEPT !.moves = @ + 1, !.over = last]
          /\ Owes(IF last THEN "game_over" ELSE "move_applied", play.moves + 1)
    /\ UNCHANGED hall

handleSurrender ==
    /\ ~play.over
    /\ play' = [play EXCEPT !.over = TRUE]
    /\ Owes("game_over", play.moves) /\ UNCHANGED hall

Votes(p, suspended) ==
    LET all == play.votes \cup {p} = Members
    IN  /\ ~play.over /\ play.suspended # suspended /\ p \notin play.votes
        /\ play' = IF all THEN [play EXCEPT !.votes = {}, !.suspended = suspended]
                          ELSE [play EXCEPT !.votes = @ \cup {p}]
        /\ IF all THEN Owes(IF suspended THEN "session_suspended" ELSE "session_resumed", 0)
           ELSE UNCHANGED <<commits, unsent, tuned, inbox, fetches, asked, screen, flaws>>
        /\ UNCHANGED hall

handleVotePause(p) == Votes(p, TRUE)
handleVoteResume(p) == Votes(p, FALSE)

-----------------------------------------------------------------------------
(* A handler publishes.  An event of the same kind committed earlier that   *)
(* comes later is told in the wrong order.                                  *)
Kind(e) == CASE e.type \in {"session_suspended", "session_resumed"} -> "pause"
             [] e.type = "setting_updated"                          -> "setting"
             [] OTHER                                               -> "other"

Tell(e) ==
    /\ e \in unsent
    /\ unsent' = unsent \ {e}
    /\ inbox' = IF tuned THEN Append(inbox, e) ELSE inbox
    /\ flaws' = flaws \cup (IF tuned THEN {} ELSE {"missed"})
                      \cup {"overtook" : d \in {d \in unsent : d.n < e.n /\ Kind(d) = Kind(e) /\ Kind(e) # "other"}}
    /\ UNCHANGED <<hall, play, commits, tuned, fetches, asked, screen>>

Subscribed ==
    /\ ~tuned /\ tuned' = TRUE
    /\ UNCHANGED <<serverVars, inbox, fetches, asked, screen, flaws>>

refresh == asked < MaxFetches /\ asked' = asked + 1 /\ fetches' = fetches \cup {Begun(asked + 1)}

(* The socket breaks with what it carries; once reconnected it subscribes   *)
(* again, and the board, not the room, fetches.                             *)
Reconnect ==
    /\ tuned /\ tuned' = FALSE /\ inbox' = <<>>
    /\ flaws' = flaws \cup (IF inbox = <<>> THEN {} ELSE {"missed"})
    /\ IF screen.at = "game" THEN refresh ELSE UNCHANGED <<asked, fetches>>
    /\ UNCHANGED <<serverVars, screen>>

(* GET: the row of the room first, its players and settings after it; a     *)
(* session is read at once.                                                 *)
Become(f, g) == fetches' = (fetches \ {f}) \cup {g} /\ UNCHANGED <<serverVars, tuned, inbox, asked, screen, flaws>>

GetRoom(f) ==
    /\ f \in fetches /\ f.at = "sent" /\ screen.at = "room"
    /\ Become(f, [f EXCEPT !.at = "row", !.owner = hall.owner, !.stage = hall.stage])

getRoomView(f) ==
    /\ f \in fetches /\ f.at = "row"
    /\ Become(f, [f EXCEPT !.at = "read", !.players = Seated, !.private = hall.private])

GetSessionAndState(f) ==
    /\ f \in fetches /\ f.at = "sent" /\ screen.at = "game"
    /\ Become(f, [f EXCEPT !.at = "read", !.moves = play.moves, !.over = play.over, !.suspended = play.suspended])

(* The answer is displayed, in whatever order answers come; a running game  *)
(* takes the watcher there.  A fetched session never ends a pause.          *)
Answered(f) ==
    /\ f \in fetches /\ f.at = "read"
    /\ fetches' = fetches \ {f}
    /\ screen' =
         IF screen.at = "game"
         THEN [screen EXCEPT !.loaded = f.n, !.moves = f.moves, !.over = f.over, !.suspended = @ \/ f.suspended]
         ELSE [screen EXCEPT !.loaded = f.n, !.players = f.players, !.owner = f.owner, !.private = f.private,
                             !.at = IF f.stage = "in_progress" THEN "started" ELSE @]
    /\ flaws' = IF f.n < screen.loaded THEN flaws \cup {"crossed"} ELSE flaws
    /\ UNCHANGED <<serverVars, tuned, inbox, asked>>

-----------------------------------------------------------------------------
(* Room.tsx and roomStore.ts: a setting is taken from its event, a change   *)
(* of players or owner is fetched.                                          *)
RoomEvent(e) ==
    CASE e.type \in {"player_joined", "player_left"} -> refresh /\ UNCHANGED <<screen, flaws>>
      [] e.type = "owner_changed" -> refresh /\ screen' = [screen EXCEPT !.owner = e.value] /\ UNCHANGED flaws
      [] e.type = "setting_updated" ->
           /\ screen' = [screen EXCEPT !.private = e.value]
           /\ flaws' = flaws \cup {"crossed" : f \in {f \in fetches : f.at = "read"}}
           /\ UNCHANGED <<asked, fetches>>
      [] e.type = "game_started" -> screen' = [screen EXCEPT !.at = "started"] /\ UNCHANGED <<asked, fetches, flaws>>
      [] e.type = "room_closed" -> screen' = [screen EXCEPT !.at = "home"] /\ UNCHANGED <<asked, fetches, flaws>>

(* useGameSocket.ts: an event of a move that is not ahead of the board is   *)
(* dropped; the end of the game is never dropped.                           *)
handleMovePayload_NoCheck(e) ==
    [screen EXCEPT !.moves = e.value, !.over = (e.type = "game_over")]

handleMovePayload(e) ==
    IF e.type = "move_applied" /\ e.value <= screen.moves THEN screen
    ELSE [screen EXCEPT !.moves = e.value, !.over = (e.type = "game_over")]

BoardEvent(e) ==
    /\ screen' = CASE e.type \in {"move_applied", "game_over"} -> handleMovePayload(e)
                   [] e.type = "session_suspended" -> [screen EXCEPT !.suspended = TRUE]
                   [] e.type = "session_resumed"   -> [screen EXCEPT !.suspended = FALSE]
    /\ flaws' = flaws \cup {"crossed" : f \in {f \in fetches : f.at = "read"}}
    /\ UNCHANGED <<asked, fetches>>

Receive ==
    /\ inbox # <<>> /\ inbox' = Tail(inbox)
    /\ CASE screen.at = "room" -> RoomEvent(Head(inbox))
         [] screen.at = "game" -> BoardEvent(Head(inbox))
         [] OTHER -> UNCHANGED <<screen, flaws, asked, fetches>>
    /\ UNCHANGED <<serverVars, tuned>>

RoomSteps ==
    \/ \E p \in Members : handleJoinRoom(p) \/ handleLeaveRoom(p) \/ handleUpdateRoomSetting(p)
    \/ BroadcastSessionStarted
    \/ \E f \in fetches : GetRoom(f) \/ getRoomView(f)

BoardSteps ==
    \/ handleMove \/ handleSurrender
    \/ \E p \in Members : handleVotePause(p) \/ handleVoteResume(p)
    \/ \E f \in fetches : GetSessionAndState(f)

WatcherSteps ==
    \/ \E e \in unsent : Tell(e)
    \/ Subscribed \/ Reconnect \/ Receive
    \/ \E f \in fetches : Answered(f)

-----------------------------------------------------------------------------
Settled == unsent = {} /\ inbox = <<>> /\ fetches = {}

(* Room.tsx, roomStore.ts, api_lobby.go: once every event is told and every *)
(* fetch answered, the screen shows who is in the room and who owns it, and *)
(* nobody still waits in a room that was closed or started.  Excepted are   *)
(* events published before the gateway subscribed the watcher, and fetches  *)
(* answered in the opposite order.  The setting shown is the one stored,    *)
(* unless besides its event came while a fetch was being answered or two    *)
(* such events were told in the opposite order.                             *)
ScreenSettles ==
    Settled /\ screen.at = "room" =>
        /\ flaws \cap {"missed", "crossed"} = {} =>
              screen.players = Seated /\ screen.owner = hall.owner /\ hall.stage = "waiting"
        /\ flaws = {} => screen.private = hall.private

(* useGameSocket.ts: whatever the order in which moves and the end of the   *)
(* game are told, the board ends up at the last of them, unless an event    *)
(* was missed or came while a fetch was being answered; and it shows the    *)
(* pause there is, unless besides two such events were told in the opposite *)
(* order.                                                                   *)
BoardSettles ==
    Settled /\ screen.at = "game" =>
        /\ flaws \cap {"missed", "crossed"} = {} => screen.moves = play.moves /\ screen.over = play.over
        /\ flaws = {} => screen.suspended = play.suspended

(* Room and board both end up at what the server stored (Room.tsx,         *)
(* useGameSocket.ts).                                                      *)
ScreensSound == ScreenSettles /\ BoardSettles
=============================================================================
