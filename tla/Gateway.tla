------------------------------- MODULE Gateway -------------------------------
(***************************************************************************)
(* ws-gateway: one process with its hub of connections, their read and     *)
(* write pumps, the Redis listeners it starts and stops, and presence.     *)
(*                                                                         *)
(* A connection is a room socket, which belongs to a room from the start,  *)
(* or a player socket, which may enter and leave rooms.                    *)
(***************************************************************************)
EXTENDS AuthSessions

CONSTANTS
    Clients,     \* slots for connections
    Rooms,
    NoRoom,      \* uuid.Nil
    BufferSize   \* capacity of a client's send channel, 64 in the code

VARIABLES
    conn,        \* each slot: Idle, or the Client and the state of its socket and pumps
    rooms,       \* Hub.rooms
    players,     \* Hub.players
    cancels,     \* channels with an entry in roomCancels or playerCancels
    listening,   \* goroutines listening on each channel that nobody cancelled
    online,      \* players with a presence key
    beating,     \* players with a heartbeat's SET in flight
    bcast        \* BroadcastAll: how far it is, and the clients it has been sent to

gwVars == <<conn, rooms, players, cancels, listening, online, beating, bcast>>

Channels == Rooms \cup Players
Frames == {"event", "broadcast", "nil"}
Client == [player : Players, kind : {"room", "player"}, room : Rooms \cup {NoRoom},
           entering : Rooms \cup {NoRoom}, spectator : BOOLEAN, presence : BOOLEAN, beats : BOOLEAN,
           open : BOOLEAN, reader : BOOLEAN, writer : BOOLEAN, buf : Seq(Frames),
           closed : BOOLEAN, panicked : BOOLEAN, got : 0 .. 2, early : BOOLEAN]

\* Room and player channels have names of their own; a free slot holds no client.
ASSUME GatewayAssumption ==
    /\ BufferSize \in Nat \ {0} /\ NoRoom \notin Rooms
    /\ Rooms \cap Players = {} /\ Idle \notin Client

GWTypeOK ==
    /\ conn \in [Clients -> {Idle} \cup Client]
    /\ \A c \in Clients : conn[c] # Idle => Len(conn[c].buf) <= BufferSize
    /\ rooms \in [Rooms -> SUBSET Clients] /\ players \in [Players -> SUBSET Clients]
    /\ cancels \subseteq Channels /\ listening \in [Channels -> 0 .. 2]
    /\ online \subseteq Players /\ beating \subseteq Players
    /\ bcast \in [phase : {"none", "players", "done"}, sent : SUBSET Clients]

GWInit ==
    /\ conn = [c \in Clients |-> Idle]
    /\ rooms = [r \in Rooms |-> {}] /\ players = [p \in Players |-> {}]
    /\ cancels = {} /\ listening = [ch \in Channels |-> 0]
    /\ online = {} /\ beating = {} /\ bcast = [phase |-> "none", sent |-> {}]

QuietAuth == UNCHANGED <<modVars, authVars, notifVars>>

(***************************************************************************)
(* The hub's indexes.  Subscribing starts a listener for a channel that    *)
(* has none; the last client to leave cancels it.                          *)
(***************************************************************************)
StartListener(chans) ==
    /\ cancels' = cancels \cup chans
    /\ listening' = [ch \in Channels |-> IF ch \in chans \ cancels THEN listening[ch] + 1
                                         ELSE listening[ch]]

StopListener(emptied) ==
    /\ cancels' = cancels \ emptied
    /\ listening' = [ch \in Channels |-> IF ch \in emptied \cap cancels THEN listening[ch] - 1
                                         ELSE listening[ch]]

\* SubscribeRoom and SubscribePlayer.
Subscribe(c, r, p) ==
    /\ rooms' = IF r = NoRoom THEN rooms ELSE [rooms EXCEPT ![r] = @ \cup {c}]
    /\ players' = [players EXCEPT ![p] = @ \cup {c}]
    /\ StartListener({p} \cup ({r} \cap Rooms))

(***************************************************************************)
(* The send channel of a client, under closeMu.                            *)
(***************************************************************************)
Close(k) == IF k.closed THEN [k EXCEPT !.panicked = TRUE] ELSE [k EXCEPT !.closed = TRUE]

\* A send panics on a closed channel and fails on a full one.
Full(k) == ~k.closed /\ Len(k.buf) >= BufferSize
Send(k, frame) ==
    IF k.closed THEN [k EXCEPT !.panicked = TRUE] ELSE [k EXCEPT !.buf = Append(@, frame)]

closeSend(k) == IF k.closed THEN k ELSE Close(k)

trySend_Unbounded(k, frame) == IF k.closed THEN k ELSE Send(k, frame)

\* A closed channel takes nothing; a full buffer closes it.
trySend(k, frame) ==
    CASE k.closed -> k
      [] Full(k)  -> Close(k)
      [] OTHER    -> Send(k, frame)

\* Presence snapshots and acknowledgements are dropped instead.
trySendOrDrop(k, frame) ==
    IF k.closed \/ Full(k) THEN k ELSE Send(k, frame)

\* Clients left in an index after their pumps ended take frames nobody reads.
SendAll(S, frame) ==
    conn' = [c \in Clients |->
        IF c \notin S \/ conn[c] = Idle THEN conn[c]
        ELSE IF frame = "broadcast" /\ conn[c].got < 2
             THEN trySend([conn[c] EXCEPT !.got = @ + 1], frame)
             ELSE trySend(conn[c], frame)]

(***************************************************************************)
(* Connecting.  The ban check comes first; game-server says who takes part *)
(* in the room.                                                            *)
(***************************************************************************)
NewClient(p, kind, r, spectator, presence) ==
    [player |-> p, kind |-> kind, room |-> r, entering |-> NoRoom, spectator |-> spectator,
     presence |-> presence, beats |-> presence /\ ~spectator,
     open |-> TRUE, reader |-> TRUE, writer |-> TRUE, buf |-> <<>>,
     closed |-> FALSE, panicked |-> FALSE, got |-> 0, early |-> bcast.phase = "none"]

\* The slot of a client that is still in an index is not given to another.
Free(c) == conn[c] = Idle /\ \A p \in Players : c \notin players[p]

\* Spectators get the presence store too, but no heartbeat; participants are put
\* online and sent a snapshot.
RoomHandler(c, p, r) == \E spectator \in BOOLEAN :
    /\ Free(c) /\ ~CheckActiveBan(p)
    /\ LET k == NewClient(p, "room", r, spectator, TRUE)
       IN conn' = [conn EXCEPT ![c] = IF spectator THEN k ELSE trySendOrDrop(k, "event")]
    /\ Subscribe(c, r, p)
    /\ online' = IF spectator THEN online ELSE online \cup {p}
    /\ QuietAuth /\ UNCHANGED <<beating, bcast>>

PlayerHandler(c, p) ==
    /\ Free(c) /\ ~CheckActiveBan(p)
    /\ conn' = [conn EXCEPT ![c] = NewClient(p, "player", NoRoom, FALSE, FALSE)]
    /\ Subscribe(c, NoRoom, p)
    /\ QuietAuth /\ UNCHANGED <<online, beating, bcast>>

(***************************************************************************)
(* Control messages of a player socket, read while it is open.  The reader *)
(* of a client that asks for another room leaves the old one first and     *)
(* reads nothing until it has entered the new one.                         *)
(***************************************************************************)
Reading(c) == conn[c] # Idle /\ conn[c].open /\ conn[c].reader /\ conn[c].entering = NoRoom

OnRoomSubscribe(c, r) == \E spectator \in BOOLEAN : LET k == conn[c] IN
    /\ conn' = [conn EXCEPT ![c] = trySendOrDrop(
           [k EXCEPT !.room = r, !.entering = NoRoom, !.spectator = spectator,
                     !.presence = ~spectator], "event")]
    /\ rooms' = [rooms EXCEPT ![r] = @ \cup {c}]
    /\ StartListener({r})
    /\ online' = IF spectator THEN online ELSE online \cup {k.player}

OnRoomUnsubscribe(c, next) == LET k == conn[c] IN
    /\ rooms' = [rooms EXCEPT ![k.room] = @ \ {c}]
    /\ StopListener(IF rooms[k.room] \subseteq {c} THEN {k.room} ELSE {})
    /\ online' = IF k.spectator THEN online ELSE online \ {k.player}
    /\ conn' = [conn EXCEPT ![c].room = NoRoom, ![c].entering = next,
                            ![c].spectator = FALSE, ![c].presence = FALSE]

handleControl(c) ==
    /\ conn[c] # Idle /\ conn[c].kind = "player"
    /\ \/ /\ Reading(c)
          /\ IF conn[c].room = NoRoom THEN \E r \in Rooms : OnRoomSubscribe(c, r)
             ELSE \E next \in Rooms \cup {NoRoom} : OnRoomUnsubscribe(c, next)
       \/ conn[c].entering # NoRoom /\ OnRoomSubscribe(c, conn[c].entering)
    /\ QuietAuth /\ UNCHANGED <<players, beating, bcast>>

(***************************************************************************)
(* The pumps.  Either one that ends closes the socket; the slot is free    *)
(* when both have.                                                         *)
(***************************************************************************)
Pumps(k) == IF k.reader \/ k.writer THEN k ELSE Idle

QuietHub == UNCHANGED <<rooms, players, cancels, listening>>

\* The peer goes away, or its pongs stop.
Drop(c) ==
    /\ conn[c] # Idle /\ conn[c].open
    /\ conn' = [conn EXCEPT ![c].open = FALSE]
    /\ QuietAuth /\ QuietHub /\ UNCHANGED <<online, beating, bcast>>

\* A queued frame is written, nil as an empty one; a channel that is closed and
\* drained, or a write or ping to a closed socket, ends the pump.
WritePump(c) == LET k == conn[c] IN
    /\ k # Idle /\ k.writer
    /\ \/ /\ k.buf # <<>> /\ k.open
          /\ conn' = [conn EXCEPT ![c].buf = Tail(@)]
       \/ /\ (k.closed /\ k.buf = <<>>) \/ ~k.open
          /\ conn' = [conn EXCEPT ![c] = Pumps([k EXCEPT !.writer = FALSE, !.open = FALSE])]
    /\ QuietAuth /\ QuietHub /\ UNCHANGED <<online, beating, bcast>>

\* The heartbeat's SET runs in a goroutine of its own.
Heartbeat(c) ==
    /\ conn[c] # Idle /\ conn[c].writer /\ conn[c].beats
    /\ beating' = beating \cup {conn[c].player}
    /\ QuietAuth /\ QuietHub /\ UNCHANGED <<conn, online, bcast>>

ReadPump_KeepsRoom(c) == LET k == conn[c] IN
    /\ k # Idle /\ ~k.open /\ k.reader /\ k.entering = NoRoom
    /\ players' = IF k.spectator THEN players ELSE [players EXCEPT ![k.player] = @ \ {c}]
    /\ StopListener(IF ~k.spectator /\ players[k.player] \subseteq {c} THEN {k.player} ELSE {})
    /\ online' = IF k.presence /\ ~k.spectator THEN online \ {k.player} ELSE online
    /\ conn' = [conn EXCEPT ![c] = Pumps([k EXCEPT !.reader = FALSE])]
    /\ QuietAuth /\ UNCHANGED <<rooms, beating, bcast>>

\* What ReadPump defers to its end.  A spectator stays in the player index.
ReadPump(c) == LET k == conn[c] IN
    /\ k # Idle /\ ~k.open /\ k.reader /\ k.entering = NoRoom
    /\ rooms' = IF k.room = NoRoom THEN rooms ELSE [rooms EXCEPT ![k.room] = @ \ {c}]
    /\ players' = IF k.spectator THEN players ELSE [players EXCEPT ![k.player] = @ \ {c}]
    /\ StopListener(
           (IF k.room # NoRoom /\ rooms[k.room] \subseteq {c} THEN {k.room} ELSE {})
           \cup (IF ~k.spectator /\ players[k.player] \subseteq {c} THEN {k.player} ELSE {}))
    /\ online' = IF k.presence /\ ~k.spectator THEN online \ {k.player} ELSE online
    /\ conn' = [conn EXCEPT ![c] = Pumps([k EXCEPT !.reader = FALSE])]
    /\ QuietAuth /\ UNCHANGED <<beating, bcast>>

(***************************************************************************)
(* Presence keys in Redis.                                                 *)
(***************************************************************************)
SetLands(p) ==
    /\ p \in beating
    /\ beating' = beating \ {p} /\ online' = online \cup {p}
    /\ QuietAuth /\ QuietHub /\ UNCHANGED <<conn, bcast>>

\* A key outlives its 30 s only if a heartbeat renews it every 15 s.
PresenceExpires(p) ==
    /\ p \in online /\ p \notin beating
    /\ ~\E c \in Clients : conn[c] # Idle /\ conn[c].player = p /\ conn[c].beats /\ conn[c].writer
    /\ online' = online \ {p}
    /\ QuietAuth /\ QuietHub /\ UNCHANGED <<conn, beating, bcast>>

(***************************************************************************)
(* Fan-out.  Events reach a channel from every service, this one included, *)
(* so one may arrive whenever the channel has a listener.                  *)
(***************************************************************************)
fanout(r, blocked) ==
    SendAll({c \in rooms[r] : conn[c] # Idle /\ ~(blocked /\ conn[c].spectator)}, "event")

fanoutSpectatorsOnly(r, blocked) ==
    SendAll({c \in rooms[r] : conn[c] # Idle /\ conn[c].spectator /\ ~blocked}, "event")

fanoutPlayer(p) == SendAll(players[p], "event")

\* The envelope says whether the event is for spectators; the blocklist keeps some
\* events from them.
listenRoom(r) == \E spectators, blocked \in BOOLEAN :
    /\ listening[r] > 0
    /\ IF spectators THEN fanoutSpectatorsOnly(r, blocked) ELSE fanout(r, blocked)
    /\ QuietAuth /\ QuietHub /\ UNCHANGED <<online, beating, bcast>>

listenPlayer(p) ==
    /\ listening[p] > 0
    /\ fanoutPlayer(p)
    /\ QuietAuth /\ QuietHub /\ UNCHANGED <<online, beating, bcast>>

\* The fan-outs walk a room's or a player's clients after the lock is released: a
\* client that joins or leaves meanwhile is a data race, which the Go runtime may
\* end by stopping the process.  It starts again with no clients and no messages.
Fatal ==
    /\ \E ch \in Channels : listening[ch] > 0
    /\ conn' = [c \in Clients |-> Idle]
    /\ rooms' = [r \in Rooms |-> {}] /\ players' = [p \in Players |-> {}]
    /\ cancels' = {} /\ listening' = [ch \in Channels |-> 0]
    /\ bcast' = IF bcast.phase = "players" THEN [phase |-> "done", sent |-> {}] ELSE bcast
    /\ told' = {}
    /\ UNCHANGED <<modVars, sessions, tab, revoking, failed, notifVars, online, beating>>

\* nil is queued; a channel that does not take it is closed.
DisconnectPlayer(p) ==
    conn' = [c \in Clients |->
        IF c \notin players[p] \/ conn[c] = Idle THEN conn[c]
        ELSE LET k == trySend(conn[c], "nil") IN IF k.closed THEN closeSend(k) ELSE k]

\* player.session.revoked.
handleSessionRevoked(p) ==
    /\ p \in told
    /\ told' = told \ {p}
    /\ DisconnectPlayer(p)
    /\ UNCHANGED <<modVars, sessions, tab, revoking, failed, notifVars>>
    /\ QuietHub /\ UNCHANGED <<online, beating, bcast>>

\* BroadcastAll: the pass over the rooms, then the one over the players, under their
\* own locks.
BroadcastRooms == LET S == UNION {rooms[r] : r \in Rooms} IN
    /\ SendAll(S, "broadcast")
    /\ bcast' = [phase |-> "players", sent |-> S]

handleBroadcastSent ==
    /\ bcast.phase = "none"
    /\ BroadcastRooms
    /\ QuietAuth /\ QuietHub /\ UNCHANGED <<online, beating>>

BroadcastPlayers == LET S == UNION {players[p] : p \in Players} IN
    /\ bcast.phase = "players"
    /\ SendAll(S \ bcast.sent, "broadcast")
    /\ bcast' = [phase |-> "done", sent |-> {}]
    /\ QuietAuth /\ QuietHub /\ UNCHANGED <<online, beating>>

(***************************************************************************)
(* Properties.                                                             *)
(***************************************************************************)
\* A channel has exactly one listener while a client is in its index and none
\* otherwise, through every order of joining and leaving.
OneListener == \A ch \in Channels :
    listening[ch] = IF (IF ch \in Rooms THEN rooms[ch] ELSE players[ch]) # {} THEN 1 ELSE 0

\* The indexes and the clients agree: a room holds exactly the clients being read
\* that are in it, and only spectators stay behind in the player index.
IndexesAgree ==
    /\ \A c \in Clients, r \in Rooms :
          c \in rooms[r] <=> conn[c] # Idle /\ conn[c].reader /\ conn[c].room = r
    /\ \A c \in Clients : conn[c] # Idle /\ conn[c].reader => c \in players[conn[c].player]
    /\ \A c \in Clients, p \in Players :
          c \in players[p] /\ conn[c] # Idle /\ ~conn[c].reader => conn[c].spectator

\* No interleaving of fan-outs, broadcasts, disconnections and slow readers closes
\* a send channel twice or sends on a closed one.
NeverPanics == \A c \in Clients : conn[c] # Idle => ~conn[c].panicked

\* BroadcastAll tries every client that was connected when it began exactly once,
\* whichever rooms the client enters or leaves between the two passes.
BroadcastOnce == \A c \in Clients : conn[c] # Idle =>
    /\ conn[c].got <= 1
    /\ bcast.phase = "done" /\ conn[c].early /\ conn[c].reader => conn[c].got = 1

\* What the hub keeps while clients, listeners and fan-outs overlap (hub.go,
\* client.go): its indexes, one listener a channel, safe channels, whole broadcasts.
GatewaySound == IndexesAgree /\ OneListener /\ NeverPanics /\ BroadcastOnce
=============================================================================
