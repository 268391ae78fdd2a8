--------------------------- MODULE GatewayProofs ----------------------------
(***************************************************************************)
(* The hub of ws-gateway, for any number of connections, rooms and players *)
(* and any buffer: connections come, change rooms, slow down and go while  *)
(* events, a broadcast and revocations are fanned out and accounts change. *)
(***************************************************************************)
EXTENDS Gateway, TLAPS

\* The time a leaf that names no prover may take.
USE SMTT(60), ZenonT(20)

HubSteps ==
    \/ \E c \in Clients, p \in Players : PlayerHandler(c, p) \/ \E r \in Rooms : RoomHandler(c, p, r)
    \/ \E c \in Clients : handleControl(c) \/ Drop(c) \/ WritePump(c) \/ Heartbeat(c) \/ ReadPump(c)
    \/ \E p \in Players : SetLands(p) \/ PresenceExpires(p) \/ listenPlayer(p) \/ handleSessionRevoked(p)
    \/ \E r \in Rooms : listenRoom(r)
    \/ Fatal \/ handleBroadcastSent \/ BroadcastPlayers

hubVars == <<gwVars, accountVars>>

HubNext == HubSteps \/ (AccountNext /\ UNCHANGED gwVars)

HubSpec == GWInit /\ AccountInit /\ [][HubNext]_hubVars

\* A client whose channel nobody closed twice or sent on too late.
Safe(k) == k \in Client /\ Len(k.buf) <= BufferSize /\ ~k.panicked

\* Where a client belongs: m is k, its socket, buffer and broadcasts apart.
SameSeat(k, m) ==
    /\ m.player = k.player /\ m.room = k.room /\ m.entering = k.entering
    /\ m.spectator = k.spectator /\ m.reader = k.reader /\ m.early = k.early

ClientInv ==
    /\ conn \in [Clients -> {Idle} \cup Client]
    /\ \A c \in Clients : conn[c] # Idle => Safe(conn[c])

Index(ch) == IF ch \in Rooms THEN rooms[ch] ELSE players[ch]

ListenInv ==
    /\ rooms \in [Rooms -> SUBSET Clients] /\ players \in [Players -> SUBSET Clients]
    /\ \A ch \in Channels : /\ ch \in cancels <=> Index(ch) # {}
                            /\ listening[ch] = IF Index(ch) # {} THEN 1 ELSE 0

\* A client in a player's index is that player's; one that changes rooms is in none.
SlotInv ==
    /\ IndexesAgree
    /\ \A c \in Clients, p \in Players : c \in players[p] /\ conn[c] # Idle => conn[c].player = p
    /\ \A c \in Clients : conn[c] # Idle /\ conn[c].entering # NoRoom
                             => conn[c].room = NoRoom /\ conn[c].reader

\* How far broadcast b has come with client k of slot c.
CastOK(c, k, b) ==
    /\ b.phase = "none" => k.got = 0
    /\ b.phase = "players" => /\ c \notin b.sent => k.got = 0
                              /\ c \in b.sent => k.got <= 1
                              /\ c \in b.sent /\ k.early => k.got = 1
    /\ b.phase = "done" => k.got <= 1 /\ (k.early /\ k.reader => k.got = 1)

CastInv ==
    /\ bcast \in [phase : {"none", "players", "done"}, sent : SUBSET Clients]
    /\ \A c \in Clients : conn[c] # Idle => CastOK(c, conn[c], bcast)

HubInv == ClientInv /\ ListenInv /\ SlotInv /\ CastInv

(* closeSend and trySend look at the channel under closeMu before they     *)
(* close it or send on it.                                                 *)
LEMMA SendIsSafe ==
    ASSUME NEW k, Safe(k), NEW frame \in Frames
    PROVE  /\ Safe(trySend(k, frame)) /\ SameSeat(k, trySend(k, frame))
           /\ trySend(k, frame).got = k.got
           /\ Safe(trySendOrDrop(k, frame)) /\ SameSeat(k, trySendOrDrop(k, frame))
           /\ trySendOrDrop(k, frame).got = k.got
           /\ Safe(closeSend(k)) /\ SameSeat(k, closeSend(k)) /\ closeSend(k).got = k.got
<1> DEFINE shut == [k EXCEPT !.closed = TRUE]
<1> DEFINE more == [k EXCEPT !.buf = Append(@, frame)]
<1>1. k.buf \in Seq(Frames) /\ Len(k.buf) \in Nat
      BY DEF Safe, Client
<1>2. Append(k.buf, frame) \in Seq(Frames) /\ Len(Append(k.buf, frame)) = Len(k.buf) + 1
      BY <1>1
<1>3. Safe(shut) /\ SameSeat(k, shut) /\ shut.got = k.got
      BY Zenon DEF Safe, Client, SameSeat
<1>4. ASSUME ~Full(k), ~k.closed
      PROVE  Safe(more) /\ SameSeat(k, more) /\ more.got = k.got
  <2>1. Len(k.buf) + 1 <= BufferSize
        BY <1>1, <1>4, GatewayAssumption DEF Full
  <2>2. more \in Client /\ more.buf = Append(k.buf, frame) /\ more.panicked = k.panicked
        BY <1>2 DEF Safe, Client
  <2>3. SameSeat(k, more) /\ more.got = k.got
        BY DEF Safe, Client, SameSeat
  <2>4. QED
        BY <1>2, <2>1, <2>2, <2>3 DEF Safe
<1>5. SameSeat(k, k)
      BY DEF SameSeat
<1> QED
      BY <1>3, <1>4, <1>5 DEF trySend, trySendOrDrop, closeSend, Close, Send, Full

LEMMA EmptyHub == GWInit => HubInv
<1> SUFFICES ASSUME GWInit PROVE HubInv
      OBVIOUS
<1>1. ClientInv
      BY DEF GWInit, ClientInv
<1>2. ListenInv
      BY DEF GWInit, ListenInv, Index, Channels
<1>3. SlotInv
      BY DEF GWInit, SlotInv, IndexesAgree
<1>4. CastInv
      BY DEF GWInit, CastInv, CastOK
<1> QED
      BY <1>1, <1>2, <1>3, <1>4 DEF HubInv

\* The hub's invariant says what the run checks.
LEMMA HubIsSound == HubInv => GatewaySound
<1> SUFFICES ASSUME HubInv PROVE GatewaySound
      OBVIOUS
<1>1. IndexesAgree
      BY DEF HubInv, SlotInv
<1>2. OneListener
      BY DEF HubInv, ListenInv, OneListener, Index
<1>3. NeverPanics
      BY DEF HubInv, ClientInv, Safe, NeverPanics
<1>4. BroadcastOnce
  <2> SUFFICES ASSUME NEW c \in Clients, conn[c] # Idle
               PROVE  /\ conn[c].got <= 1
                      /\ bcast.phase = "done" /\ conn[c].early /\ conn[c].reader => conn[c].got = 1
        BY DEF BroadcastOnce
  <2>1. bcast.phase \in {"none", "players", "done"}
        BY DEF HubInv, CastInv
  <2> QED
        BY <2>1 DEF HubInv, CastInv, CastOK
<1> QED
      BY <1>1, <1>2, <1>3, <1>4 DEF GatewaySound

(* Subscribing and unsubscribing keep one listener for every index that    *)
(* has clients.                                                            *)
LEMMA StartKeeps ==
    ASSUME ListenInv, NEW chans \in SUBSET Channels, StartListener(chans),
           rooms' \in [Rooms -> SUBSET Clients], players' \in [Players -> SUBSET Clients],
           \A ch \in Channels : Index(ch)' # {} <=> Index(ch) # {} \/ ch \in chans
    PROVE  ListenInv'
<1> SUFFICES ASSUME NEW ch \in Channels
             PROVE  /\ ch \in cancels' <=> Index(ch)' # {}
                    /\ listening'[ch] = IF Index(ch)' # {} THEN 1 ELSE 0
      BY DEF ListenInv
<1>1. /\ ch \in cancels <=> Index(ch) # {}
      /\ listening[ch] = IF Index(ch) # {} THEN 1 ELSE 0
      BY DEF ListenInv
<1>2. listening'[ch] = IF ch \in chans \ cancels THEN listening[ch] + 1 ELSE listening[ch]
      BY DEF StartListener
<1> QED
      BY <1>1, <1>2 DEF StartListener

LEMMA StopKeeps ==
    ASSUME ListenInv, NEW emptied, StopListener(emptied),
           rooms' \in [Rooms -> SUBSET Clients], players' \in [Players -> SUBSET Clients],
           \A ch \in Channels : Index(ch)' # {} <=> Index(ch) # {} /\ ch \notin emptied
    PROVE  ListenInv'
<1> SUFFICES ASSUME NEW ch \in Channels
             PROVE  /\ ch \in cancels' <=> Index(ch)' # {}
                    /\ listening'[ch] = IF Index(ch)' # {} THEN 1 ELSE 0
      BY DEF ListenInv
<1>1. /\ ch \in cancels <=> Index(ch) # {}
      /\ listening[ch] = IF Index(ch) # {} THEN 1 ELSE 0
      BY DEF ListenInv
<1>2. listening'[ch] = IF ch \in emptied \cap cancels THEN listening[ch] - 1 ELSE listening[ch]
      BY DEF StopListener
<1> QED
      BY <1>1, <1>2 DEF StopListener

\* A step that moves no client: every slot keeps its client and the client its seat.
Seated ==
    /\ conn' \in [Clients -> {Idle} \cup Client]
    /\ \A c \in Clients : /\ conn'[c] = Idle <=> conn[c] = Idle
                          /\ conn[c] # Idle => Safe(conn'[c]) /\ SameSeat(conn[c], conn'[c])

LEMMA SeatsKeep ==
    ASSUME HubInv, Seated, QuietHub
    PROVE  ClientInv' /\ ListenInv' /\ SlotInv'
<1>1. ClientInv'
      BY DEF ClientInv, Seated
<1>2. ListenInv'
      BY DEF HubInv, ListenInv, QuietHub, Index, Channels
<1>3. SlotInv'
      BY DEF HubInv, SlotInv, IndexesAgree, Seated, SameSeat, QuietHub
<1> QED
      BY <1>1, <1>2, <1>3

\* What moves no client and is no broadcast keeps the invariant.
LEMMA QuietKeeps ==
    ASSUME HubInv, Seated, QuietHub, bcast' = bcast,
           \A c \in Clients : conn[c] # Idle => conn'[c].got = conn[c].got
    PROVE  HubInv'
<1>1. CastInv'
      BY DEF HubInv, CastInv, CastOK, Seated, SameSeat
<1> QED
      BY <1>1, SeatsKeep DEF HubInv

LEMMA SendAllSeats ==
    ASSUME HubInv, NEW S, NEW frame \in Frames, SendAll(S, frame)
    PROVE  /\ Seated
           /\ frame # "broadcast" => \A c \in Clients : conn[c] # Idle => conn'[c].got = conn[c].got
           /\ frame = "broadcast" => \A c \in Clients : conn[c] # Idle =>
                 /\ c \notin S => conn'[c].got = conn[c].got
                 /\ c \in S /\ conn[c].got = 0 => conn'[c].got = 1
<1> DEFINE once(k) == [k EXCEPT !.got = @ + 1]
<1>1. ASSUME NEW c \in Clients, conn[c] # Idle
      PROVE  Safe(conn[c]) /\ conn[c].got \in 0 .. 2
      BY <1>1 DEF HubInv, ClientInv, Safe, Client
<1>2. ASSUME NEW k, Safe(k), k.got < 2
      PROVE  Safe(once(k)) /\ SameSeat(k, once(k)) /\ once(k).got = k.got + 1
      BY <1>2 DEF Safe, Client, SameSeat
<1>3. ASSUME NEW c \in Clients
      PROVE  conn'[c] = IF c \notin S \/ conn[c] = Idle THEN conn[c]
                        ELSE IF frame = "broadcast" /\ conn[c].got < 2
                             THEN trySend(once(conn[c]), frame)
                             ELSE trySend(conn[c], frame)
      BY DEF SendAll
<1> HIDE DEF once
<1>4. ASSUME NEW c \in Clients, conn[c] # Idle
      PROVE  /\ Safe(conn'[c]) /\ SameSeat(conn[c], conn'[c])
             /\ frame # "broadcast" => conn'[c].got = conn[c].got
             /\ frame = "broadcast" => /\ c \notin S => conn'[c].got = conn[c].got
                                       /\ c \in S /\ conn[c].got = 0 => conn'[c].got = 1
  <2>1. CASE c \notin S
        BY <1>1, <1>3, <1>4, <2>1, Zenon DEF SameSeat
  <2>2. CASE c \in S /\ frame = "broadcast" /\ conn[c].got < 2
    <3>1. Safe(once(conn[c])) /\ SameSeat(conn[c], once(conn[c])) /\ once(conn[c]).got = conn[c].got + 1
          BY <1>1, <1>2, <1>4, <2>2
    <3>2. conn'[c] = trySend(once(conn[c]), frame)
          BY <1>3, <1>4, <2>2
    <3> QED
          BY <1>1, <1>4, <2>2, <3>1, <3>2, SendIsSafe DEF SameSeat
  <2>3. CASE c \in S /\ ~(frame = "broadcast" /\ conn[c].got < 2)
    <3>1. conn'[c] = trySend(conn[c], frame)
          BY <1>3, <1>4, <2>3
    <3> QED
          BY <1>1, <1>4, <2>3, <3>1, SendIsSafe
  <2> QED
        BY <2>1, <2>2, <2>3
<1>5. ASSUME NEW c \in Clients, conn[c] = Idle
      PROVE  conn'[c] = Idle
      BY <1>3, <1>5
<1>6. conn' = [c \in Clients |-> conn'[c]]
      BY DEF SendAll
<1>7. ASSUME NEW k, Safe(k)
      PROVE  k \in Client /\ k # Idle
      BY <1>7, GatewayAssumption DEF Safe
<1>8. Seated
      BY <1>4, <1>5, <1>6, <1>7 DEF Seated
<1> QED
      BY <1>4, <1>8

LEMMA EventsKeep ==
    ASSUME HubInv, NEW S, SendAll(S, "event"), QuietHub, bcast' = bcast
    PROVE  HubInv'
      BY SendAllSeats, QuietKeeps DEF Frames

LEMMA DisconnectKeeps ==
    ASSUME HubInv, NEW p \in Players, DisconnectPlayer(p), QuietHub, bcast' = bcast
    PROVE  HubInv'
<1> DEFINE cut(k) == LET m == trySend(k, "nil") IN IF m.closed THEN closeSend(m) ELSE m
<1>1. ASSUME NEW k, Safe(k)
      PROVE  Safe(cut(k)) /\ SameSeat(k, cut(k)) /\ cut(k).got = k.got
  <2>1. "nil" \in Frames
        BY DEF Frames
  <2>2. /\ Safe(trySend(k, "nil")) /\ SameSeat(k, trySend(k, "nil"))
        /\ trySend(k, "nil").got = k.got
        BY <1>1, <2>1, SendIsSafe
  <2>3. closeSend(trySend(k, "nil")) = trySend(k, "nil") \/ ~trySend(k, "nil").closed
        BY DEF closeSend
  <2> QED
        BY <2>2, <2>3
<1>2. ASSUME NEW c \in Clients
      PROVE  conn'[c] = IF c \notin players[p] \/ conn[c] = Idle THEN conn[c] ELSE cut(conn[c])
      BY DEF DisconnectPlayer
<1>3. conn' = [c \in Clients |-> conn'[c]]
      BY DEF DisconnectPlayer
<1> HIDE DEF cut
<1>4. ASSUME NEW c \in Clients, conn[c] # Idle
      PROVE  Safe(conn'[c]) /\ SameSeat(conn[c], conn'[c]) /\ conn'[c].got = conn[c].got
      BY <1>1, <1>2, <1>4 DEF HubInv, ClientInv, SameSeat
<1>5. ASSUME NEW k, Safe(k)
      PROVE  k \in Client /\ k # Idle
      BY <1>5, GatewayAssumption DEF Safe
<1>6. Seated
      BY <1>2, <1>3, <1>4, <1>5 DEF Seated
<1> QED
      BY <1>4, <1>6, QuietKeeps

\* One slot changes hands of its socket, buffer or writer only.
LEMMA OneSlotKeeps ==
    ASSUME HubInv, NEW c \in Clients, NEW m, conn[c] # Idle, conn' = [conn EXCEPT ![c] = m],
           Safe(m), SameSeat(conn[c], m), m.got = conn[c].got, QuietHub, bcast' = bcast
    PROVE  HubInv'
<1>1. conn \in [Clients -> {Idle} \cup Client] /\ \A d \in Clients : conn[d] # Idle => Safe(conn[d])
      BY DEF HubInv, ClientInv
<1>2. \A d \in Clients : conn'[d] = IF d = c THEN m ELSE conn[d]
      BY <1>1
<1>3. m \in Client /\ m # Idle
      BY GatewayAssumption DEF Safe
<1>4. Seated
      BY <1>1, <1>2, <1>3 DEF Seated, SameSeat
<1> QED
      BY <1>2, <1>4, QuietKeeps

LEMMA StillKeeps ==
    ASSUME HubInv, UNCHANGED conn, QuietHub, bcast' = bcast
    PROVE  HubInv'
<1>1. Seated
      BY DEF HubInv, ClientInv, Seated, SameSeat
<1> QED
      BY <1>1, QuietKeeps

LEMMA DropKeeps == ASSUME HubInv, NEW c \in Clients, Drop(c) PROVE HubInv'
<1> DEFINE m == [conn[c] EXCEPT !.open = FALSE]
<1>1. Safe(conn[c])
      BY DEF HubInv, ClientInv, Drop
<1>2. Safe(m) /\ SameSeat(conn[c], m) /\ m.got = conn[c].got
      BY <1>1, Zenon DEF Safe, SameSeat, Client
<1>3. conn' = [conn EXCEPT ![c] = m]
      BY DEF HubInv, ClientInv, Drop
<1> HIDE DEF m
<1> QED
      BY <1>2, <1>3, OneSlotKeeps, Zenon DEF Drop

\* One slot gets another value; the three cases of a client that leaves, arrives, stays.
LEMMA SlotChanges ==
    ASSUME HubInv, NEW c \in Clients, NEW m, conn' = [conn EXCEPT ![c] = m], bcast' = bcast,
           m = Idle \/ Safe(m),
           \/ m = Idle
           \/ m.got = 0 /\ (m.early => bcast.phase = "none")
           \/ /\ conn[c] # Idle /\ m.got = conn[c].got
              /\ (m.early <=> conn[c].early) /\ (m.reader => conn[c].reader)
    PROVE  /\ ClientInv' /\ CastInv'
           /\ \A d \in Clients : conn'[d] = IF d = c THEN m ELSE conn[d]
<1>1. conn \in [Clients -> {Idle} \cup Client] /\ \A d \in Clients : conn[d] # Idle => Safe(conn[d])
      BY DEF HubInv, ClientInv
<1>2. \A d \in Clients : conn'[d] = IF d = c THEN m ELSE conn[d]
      BY <1>1
<1>3. m \in {Idle} \cup Client
      BY DEF Safe
<1>4. ClientInv'
      BY <1>1, <1>2, <1>3 DEF ClientInv
<1>5. CastInv'
  <2>1. bcast' \in [phase : {"none", "players", "done"}, sent : SUBSET Clients]
        BY DEF HubInv, CastInv
  <2>2. ASSUME NEW d \in Clients, conn'[d] # Idle
        PROVE  CastOK(d, conn'[d], bcast)
    <3>1. CASE d # c
          BY <1>2, <2>2, <3>1 DEF HubInv, CastInv
    <3>2. CASE d = c
      <4>1. conn'[d] = m /\ m # Idle
            BY <1>2, <2>2, <3>2
      <4>2. CASE m.got = 0 /\ (m.early => bcast.phase = "none")
            BY <4>1, <4>2 DEF CastOK
      <4>3. CASE /\ conn[c] # Idle /\ m.got = conn[c].got
                 /\ (m.early <=> conn[c].early) /\ (m.reader => conn[c].reader)
        <5>1. CastOK(c, conn[c], bcast)
              BY <4>3 DEF HubInv, CastInv
        <5> QED
              BY <3>2, <4>1, <4>3, <5>1 DEF CastOK
      <4> QED
            BY <4>1, <4>2, <4>3
    <3> QED
          BY <3>1, <3>2
  <2> QED
        BY <2>1, <2>2 DEF CastInv
<1> QED
      BY <1>2, <1>4, <1>5

LEMMA WritePumpKeeps == ASSUME HubInv, NEW c \in Clients, WritePump(c) PROVE HubInv'
<1> DEFINE k == conn[c]
<1> DEFINE popped == [k EXCEPT !.buf = Tail(@)]
<1> DEFINE ended == [k EXCEPT !.writer = FALSE, !.open = FALSE]
<1>1. k # Idle /\ Safe(k) /\ QuietHub /\ bcast' = bcast /\ conn \in [Clients -> {Idle} \cup Client]
      BY DEF WritePump, HubInv, ClientInv
<1>2. k.buf \in Seq(Frames)
      BY <1>1 DEF Safe, Client
<1>3. CASE k.buf # <<>> /\ conn' = [conn EXCEPT ![c].buf = Tail(@)]
  <2>1. conn' = [conn EXCEPT ![c] = popped]
        BY <1>1, <1>3
  <2>2. Tail(k.buf) \in Seq(Frames) /\ Len(Tail(k.buf)) = Len(k.buf) - 1 /\ Len(k.buf) \in Nat
        BY <1>2, <1>3
  <2>3. popped \in Client /\ popped.buf = Tail(k.buf) /\ popped.panicked = k.panicked
        BY <1>1, <2>2, Zenon DEF Safe, Client
  <2>4. SameSeat(k, popped) /\ popped.got = k.got
        BY <1>1 DEF Safe, Client, SameSeat
  <2>5. Safe(popped)
        BY <1>1, <2>2, <2>3, GatewayAssumption DEF Safe
  <2> HIDE DEF popped
  <2> QED
        BY <1>1, <2>1, <2>4, <2>5, OneSlotKeeps, Zenon
<1>4. CASE conn' = [conn EXCEPT ![c] = Pumps(ended)]
  <2>1. Safe(ended) /\ SameSeat(k, ended) /\ ended.got = k.got /\ ended.reader = k.reader /\ ~ended.writer
        BY <1>1, Zenon DEF Safe, Client, SameSeat
  <2> HIDE DEF ended
  <2>2. CASE k.reader
    <3>1. Pumps(ended) = ended
          BY <2>1, <2>2 DEF Pumps
    <3> QED
          BY <1>1, <1>4, <2>1, <3>1, OneSlotKeeps, Zenon
  <2>3. CASE ~k.reader
    <3>1. Pumps(ended) = Idle
          BY <2>1, <2>3 DEF Pumps
    <3>2. ClientInv' /\ CastInv' /\ \A d \in Clients : conn'[d] = IF d = c THEN Idle ELSE conn[d]
          BY <1>1, <1>4, <3>1, SlotChanges, Zenon
    <3>3. ListenInv'
          BY <1>1, Zenon DEF HubInv, ListenInv, QuietHub, Index, Channels
    <3>4. SlotInv'
          BY <1>1, <2>3, <3>2 DEF HubInv, SlotInv, IndexesAgree, QuietHub
    <3> QED
          BY <3>2, <3>3, <3>4 DEF HubInv
  <2> QED
        BY <2>2, <2>3
<1> QED
      BY <1>3, <1>4 DEF WritePump

\* A client that p has just opened, in room r.
Arrives(m, p, r) ==
    /\ Safe(m) /\ m.player = p /\ m.room = r /\ m.entering = NoRoom /\ m.reader
    /\ m.got = 0 /\ (m.early => bcast.phase = "none")

\* A new client is indexed as its handler says.
LEMMA ConnectKeeps ==
    ASSUME HubInv, NEW c \in Clients, NEW p \in Players, NEW r \in Rooms \cup {NoRoom}, NEW m,
           Free(c), conn' = [conn EXCEPT ![c] = m], bcast' = bcast, Subscribe(c, r, p),
           Arrives(m, p, r)
    PROVE  HubInv'
<1>1. ClientInv' /\ CastInv' /\ \A d \in Clients : conn'[d] = IF d = c THEN m ELSE conn[d]
      BY SlotChanges, Zenon DEF Arrives
<1>2. /\ rooms \in [Rooms -> SUBSET Clients] /\ players \in [Players -> SUBSET Clients]
      /\ NoRoom \notin Rooms /\ Rooms \cap Players = {} /\ m # Idle
      BY GatewayAssumption DEF HubInv, ListenInv, Arrives, Safe
<1>3. \A x \in Rooms : rooms'[x] = IF x = r THEN rooms[x] \cup {c} ELSE rooms[x]
      BY <1>2, Zenon DEF Subscribe
<1>4. \A x \in Players : players'[x] = IF x = p THEN players[x] \cup {c} ELSE players[x]
      BY <1>2, Zenon DEF Subscribe
<1>5. rooms' \in [Rooms -> SUBSET Clients] /\ players' \in [Players -> SUBSET Clients]
      BY <1>2 DEF Subscribe
<1>6. ListenInv'
  <2> DEFINE chans == {p} \cup ({r} \cap Rooms)
  <2>1. chans \in SUBSET Channels /\ StartListener(chans)
        BY DEF Subscribe, Channels
  <2>2. ASSUME NEW ch \in Channels
        PROVE  Index(ch)' # {} <=> Index(ch) # {} \/ ch \in chans
    <3>1. CASE ch \in Rooms
      <4>1. Index(ch)' = rooms'[ch] /\ Index(ch) = rooms[ch] /\ (ch \in chans <=> ch = r)
            BY <1>2, <3>1 DEF Index
      <4>2. CASE ch = r
        <5>1. rooms'[ch] = rooms[ch] \cup {c}
              BY <1>3, <3>1, <4>2, Zenon
        <5> QED
              BY <4>1, <4>2, <5>1
      <4>3. CASE ch # r
            BY <1>3, <3>1, <4>1, <4>3, Zenon
      <4> QED
            BY <4>2, <4>3
    <3>2. CASE ch \notin Rooms
      <4>1. ch \in Players /\ Index(ch)' = players'[ch] /\ Index(ch) = players[ch] /\ (ch \in chans <=> ch = p)
            BY <3>2 DEF Index, Channels
      <4>2. CASE ch = p
        <5>1. players'[ch] = players[ch] \cup {c}
              BY <1>4, <4>2, Zenon
        <5> QED
              BY <4>1, <4>2, <5>1
      <4>3. CASE ch # p
            BY <1>4, <4>1, <4>3, Zenon
      <4> QED
            BY <4>2, <4>3, Zenon
    <3> QED
          BY <3>1, <3>2
  <2> HIDE DEF chans
  <2> QED
        BY <1>5, <2>1, <2>2, StartKeeps DEF HubInv
<1>7. SlotInv'
  <2>1. \A d \in Clients, x \in Rooms : d \in rooms[x] <=> conn[d] # Idle /\ conn[d].reader /\ conn[d].room = x
        BY DEF HubInv, SlotInv, IndexesAgree
  <2>2. ASSUME NEW d \in Clients, NEW x \in Rooms
        PROVE  d \in rooms'[x] <=> conn'[d] # Idle /\ conn'[d].reader /\ conn'[d].room = x
    <3>1. CASE d = c
      <4>1. conn'[d] = m /\ m # Idle /\ m.reader /\ m.room = r
            BY <1>1, <1>2, <3>1 DEF Arrives
      <4>2. d \notin rooms[x]
            BY <2>1, <3>1 DEF Free
      <4>3. d \in rooms'[x] <=> x = r
            BY <1>3, <3>1, <4>2, Zenon
      <4> QED
            BY <4>1, <4>3, Zenon
    <3>2. CASE d # c
      <4>1. conn'[d] = conn[d] /\ (d \in rooms'[x] <=> d \in rooms[x])
            BY <1>1, <1>3, <3>2, Zenon
      <4> QED
            BY <2>1, <4>1
    <3> QED
          BY <3>1, <3>2
  <2>3. ASSUME NEW d \in Clients, conn'[d] # Idle, conn'[d].reader
        PROVE  d \in players'[conn'[d].player]
    <3>1. CASE d = c
      <4>1. conn'[d].player = p
            BY <1>1, <3>1 DEF Arrives
      <4>2. players'[p] = players[p] \cup {c}
            BY <1>4, Zenon
      <4> QED
            BY <3>1, <4>1, <4>2, Zenon
    <3>2. CASE d # c
      <4>1. conn'[d] = conn[d] /\ conn[d] # Idle /\ conn[d].reader
            BY <1>1, <2>3, <3>2, Zenon
      <4>2. conn[d].player \in Players
            BY <4>1, Zenon DEF HubInv, ClientInv, Safe, Client
      <4>3. d \in players[conn[d].player]
            BY <4>1 DEF HubInv, SlotInv, IndexesAgree
      <4> QED
            BY <1>4, <4>1, <4>2, <4>3, Zenon
    <3> QED
          BY <3>1, <3>2, Zenon
  <2>4. ASSUME NEW d \in Clients, NEW x \in Players, d \in players'[x], conn'[d] # Idle
        PROVE  conn'[d].player = x /\ (~conn'[d].reader => conn'[d].spectator)
    <3>1. CASE d = c
      <4>1. conn'[d] = m /\ m.player = p /\ m.reader
            BY <1>1, <3>1, Zenon DEF Arrives
      <4>2. d \notin players[x]
            BY <3>1 DEF Free
      <4>3. x = p
            BY <1>4, <2>4, <4>2, Zenon
      <4> QED
            BY <4>1, <4>3, Zenon
    <3>2. CASE d # c
      <4>1. conn'[d] = conn[d] /\ conn[d] # Idle /\ d \in players[x]
            BY <1>1, <1>4, <2>4, <3>2, Zenon
      <4> QED
            BY <4>1 DEF HubInv, SlotInv, IndexesAgree
    <3> QED
          BY <3>1, <3>2
  <2>5. \A d \in Clients : conn'[d] # Idle /\ conn'[d].entering # NoRoom
                             => conn'[d].room = NoRoom /\ conn'[d].reader
        BY <1>1 DEF HubInv, SlotInv, Arrives
  <2> QED
        BY <2>2, <2>3, <2>4, <2>5 DEF SlotInv, IndexesAgree
<1> QED
      BY <1>1, <1>6, <1>7 DEF HubInv

LEMMA HandlersKeep ==
    ASSUME HubInv, NEW c \in Clients, NEW p \in Players,
           PlayerHandler(c, p) \/ \E r \in Rooms : RoomHandler(c, p, r)
    PROVE  HubInv'
<1>1. ASSUME NEW kind \in {"room", "player"}, NEW r \in Rooms \cup {NoRoom},
             NEW spectator \in BOOLEAN, NEW presence \in BOOLEAN
      PROVE  Arrives(NewClient(p, kind, r, spectator, presence), p, r)
  <2> DEFINE m == NewClient(p, kind, r, spectator, presence)
  <2>1. <<>> \in Seq(Frames) /\ Len(<<>>) = 0 /\ 0 <= BufferSize
        BY GatewayAssumption
  <2>2. m \in Client /\ m.buf = <<>> /\ ~m.panicked
        BY <2>1 DEF NewClient, Client
  <2>3. Safe(m)
        BY <2>1, <2>2 DEF Safe
  <2>4. m.early => bcast.phase = "none"
        BY Zenon DEF NewClient
  <2>5. m.player = p /\ m.room = r /\ m.entering = NoRoom /\ m.reader /\ m.got = 0
        BY DEF NewClient
  <2> QED
        BY <2>3, <2>4, <2>5 DEF Arrives
<1>2. CASE PlayerHandler(c, p)
  <2> DEFINE m == NewClient(p, "player", NoRoom, FALSE, FALSE)
  <2>1. Arrives(m, p, NoRoom)
        BY <1>1, Zenon
  <2>2. Free(c) /\ conn' = [conn EXCEPT ![c] = m] /\ bcast' = bcast /\ Subscribe(c, NoRoom, p)
        BY <1>2 DEF PlayerHandler
  <2> HIDE DEF m
  <2> QED
        BY <2>1, <2>2, ConnectKeeps, Zenon
<1>3. ASSUME NEW r \in Rooms, RoomHandler(c, p, r)
      PROVE  HubInv'
  <2>1. PICK spectator \in BOOLEAN :
           /\ Free(c) /\ bcast' = bcast /\ Subscribe(c, r, p)
           /\ LET k == NewClient(p, "room", r, spectator, TRUE)
              IN conn' = [conn EXCEPT ![c] = IF spectator THEN k ELSE trySendOrDrop(k, "event")]
        BY <1>3, Zenon DEF RoomHandler
  <2> DEFINE k == NewClient(p, "room", r, spectator, TRUE)
  <2> DEFINE m == IF spectator THEN k ELSE trySendOrDrop(k, "event")
  <2>2. conn' = [conn EXCEPT ![c] = m]
        BY <2>1
  <2>3. Arrives(k, p, r)
        BY <1>1, Zenon
  <2> HIDE DEF k
  <2>4. Arrives(m, p, r)
        BY <2>3, SendIsSafe, Zenon DEF SameSeat, Frames, Arrives
  <2> HIDE DEF m
  <2> QED
        BY <2>1, <2>2, <2>4, ConnectKeeps, Zenon
<1> QED
      BY <1>2, <1>3, Zenon

\* Client k, being read, once it is in room r and bound for room e.
Moved(m, k, r, e) ==
    /\ Safe(m) /\ m.player = k.player /\ m.room = r /\ m.entering = e /\ m.reader
    /\ m.got = k.got /\ (m.early <=> k.early)
    /\ e # NoRoom => r = NoRoom

LEMMA MoveKeeps ==
    ASSUME HubInv, NEW c \in Clients, NEW m, NEW r \in Rooms \cup {NoRoom}, NEW e,
           conn[c] # Idle /\ conn[c].reader, conn' = [conn EXCEPT ![c] = m], bcast' = bcast,
           Moved(m, conn[c], r, e), players' = players,
           \A d \in Clients, x \in Rooms : d \in rooms'[x] <=> IF d = c THEN x = r ELSE d \in rooms[x]
    PROVE  ClientInv' /\ CastInv' /\ SlotInv'
<1>1. ClientInv' /\ CastInv' /\ \A d \in Clients : conn'[d] = IF d = c THEN m ELSE conn[d]
      BY SlotChanges, Zenon DEF Moved
<1>2. /\ m # Idle /\ m.player = conn[c].player /\ m.room = r /\ m.entering = e /\ m.reader
      /\ e # NoRoom => r = NoRoom
      BY GatewayAssumption, Zenon DEF Moved, Safe
<1>3. ASSUME NEW d \in Clients, NEW x \in Rooms
      PROVE  d \in rooms'[x] <=> conn'[d] # Idle /\ conn'[d].reader /\ conn'[d].room = x
  <2>1. CASE d = c
    <3>1. conn'[d] = m /\ (d \in rooms'[x] <=> x = r)
          BY <1>1, <2>1, Zenon
    <3> QED
          BY <1>2, <3>1
  <2>2. CASE d # c
    <3>1. conn'[d] = conn[d] /\ (d \in rooms'[x] <=> d \in rooms[x])
          BY <1>1, <2>2, Zenon
    <3> QED
          BY <3>1 DEF HubInv, SlotInv, IndexesAgree
  <2> QED
        BY <2>1, <2>2, Zenon
<1>4. ASSUME NEW d \in Clients, conn'[d] # Idle
      PROVE  conn[d] # Idle /\ conn'[d].player = conn[d].player /\ (conn'[d].reader <=> conn[d].reader)
  <2>1. CASE d = c
    <3>1. conn'[d] = m
          BY <1>1, <2>1
    <3> QED
          BY <1>2, <2>1, <3>1, Zenon
  <2>2. CASE d # c
        BY <1>1, <1>4, <2>2, Zenon
  <2> QED
        BY <2>1, <2>2, Zenon
<1>5. ASSUME NEW d \in Clients, conn'[d] # Idle, conn'[d].reader
      PROVE  d \in players'[conn'[d].player]
      BY <1>4, <1>5, Zenon DEF HubInv, SlotInv, IndexesAgree
<1>6. ASSUME NEW d \in Clients, NEW x \in Players, d \in players'[x], conn'[d] # Idle
      PROVE  conn'[d].player = x
      BY <1>4, <1>6, Zenon DEF HubInv, SlotInv
<1>7. ASSUME NEW d \in Clients, NEW x \in Players, d \in players'[x], conn'[d] # Idle, ~conn'[d].reader
      PROVE  conn'[d].spectator
  <2>1. d # c
        BY <1>1, <1>2, <1>7, Zenon
  <2>2. conn'[d] = conn[d]
        BY <1>1, <2>1, Zenon
  <2> QED
        BY <1>7, <2>2, Zenon DEF HubInv, SlotInv, IndexesAgree
<1>8. ASSUME NEW d \in Clients, conn'[d] # Idle, conn'[d].entering # NoRoom
      PROVE  conn'[d].room = NoRoom /\ conn'[d].reader
  <2>1. CASE d = c
    <3>1. conn'[d] = m
          BY <1>1, <2>1
    <3> QED
          BY <1>2, <1>8, <3>1, Zenon
  <2>2. CASE d # c
    <3>1. conn'[d] = conn[d]
          BY <1>1, <2>2, Zenon
    <3> QED
          BY <1>8, <3>1 DEF HubInv, SlotInv
  <2> QED
        BY <2>1, <2>2, Zenon
<1>9. SlotInv'
      BY <1>3, <1>5, <1>6, <1>7, <1>8 DEF SlotInv, IndexesAgree
<1> QED
      BY <1>1, <1>9

LEMMA EnterKeeps ==
    ASSUME HubInv, NEW c \in Clients, NEW r \in Rooms, conn[c] # Idle /\ conn[c].reader,
           conn[c].room = NoRoom, OnRoomSubscribe(c, r), UNCHANGED <<players, bcast>>
    PROVE  HubInv'
<1> DEFINE k == conn[c]
<1>1. PICK spectator \in BOOLEAN :
         /\ conn' = [conn EXCEPT ![c] = trySendOrDrop(
                [k EXCEPT !.room = r, !.entering = NoRoom, !.spectator = spectator,
                          !.presence = ~spectator], "event")]
         /\ rooms' = [rooms EXCEPT ![r] = @ \cup {c}]
         /\ StartListener({r})
      BY Zenon DEF OnRoomSubscribe
<1> DEFINE in == [k EXCEPT !.room = r, !.entering = NoRoom, !.spectator = spectator,
                           !.presence = ~spectator]
<1> DEFINE m == trySendOrDrop(in, "event")
<1>2. Safe(k) /\ k.reader
      BY DEF HubInv, ClientInv
<1>3. in \in Client /\ in.buf = k.buf /\ in.panicked = k.panicked
      BY <1>2, ZenonT(60) DEF Safe, Client
<1>4. in.player = k.player /\ in.room = r /\ in.entering = NoRoom /\ in.reader /\ in.got = k.got
      BY <1>2 DEF Safe, Client
<1>5. in.early = k.early
      BY <1>2 DEF Safe, Client
<1>6. Safe(in)
      BY <1>2, <1>3 DEF Safe
<1>7. conn' = [conn EXCEPT ![c] = m]
      BY <1>1
<1> HIDE DEF in, k
<1>8. Safe(m) /\ SameSeat(in, m) /\ m.got = in.got
      BY <1>6, SendIsSafe DEF Frames
<1> HIDE DEF m
<1>9. Moved(m, k, r, NoRoom)
      BY <1>4, <1>5, <1>8 DEF Moved, SameSeat
<1>10. rooms \in [Rooms -> SUBSET Clients] /\ players \in [Players -> SUBSET Clients]
      BY DEF HubInv, ListenInv
<1>11. \A x \in Rooms : rooms'[x] = IF x = r THEN rooms[x] \cup {c} ELSE rooms[x]
      BY <1>1, <1>10, Zenon
<1>12. rooms' \in [Rooms -> SUBSET Clients]
      BY <1>1, <1>10, Zenon
<1>13. \A x \in Rooms : c \notin rooms[x]
      BY GatewayAssumption DEF HubInv, SlotInv, IndexesAgree
<1>14. ASSUME NEW d \in Clients, NEW x \in Rooms
       PROVE  d \in rooms'[x] <=> IF d = c THEN x = r ELSE d \in rooms[x]
      BY <1>11, <1>13, Zenon
<1>15. ClientInv' /\ CastInv' /\ SlotInv'
  <2>1. Moved(m, conn[c], r, NoRoom) /\ r \in Rooms \cup {NoRoom} /\ players' = players /\ bcast' = bcast
        BY <1>9 DEF k
  <2> QED
        BY <1>7, <1>14, <2>1, MoveKeeps, Zenon
<1>16. ASSUME NEW ch \in Channels
       PROVE  Index(ch)' # {} <=> Index(ch) # {} \/ ch \in {r}
  <2>1. CASE ch = r
    <3>1. rooms'[ch] = rooms[ch] \cup {c} /\ Index(ch)' = rooms'[ch]
          BY <1>11, <2>1, Zenon DEF Index
    <3> QED
          BY <2>1, <3>1
  <2>2. CASE ch # r
        BY <1>11, <2>2, Zenon DEF Index
  <2> QED
        BY <2>1, <2>2
<1>17. ListenInv'
      BY <1>1, <1>10, <1>12, <1>16, StartKeeps, Zenon DEF HubInv, Channels
<1> QED
      BY <1>15, <1>17 DEF HubInv

LEMMA LeaveKeeps ==
    ASSUME HubInv, NEW c \in Clients, NEW next, next \in Rooms \cup {NoRoom},
           conn[c] # Idle /\ conn[c].reader, conn[c].room # NoRoom,
           OnRoomUnsubscribe(c, next), UNCHANGED <<players, bcast>>
    PROVE  HubInv'
<1> DEFINE k == conn[c]
<1> DEFINE m == [k EXCEPT !.room = NoRoom, !.entering = next, !.spectator = FALSE, !.presence = FALSE]
<1>1. Safe(k) /\ k.reader /\ conn \in [Clients -> {Idle} \cup Client]
      BY DEF HubInv, ClientInv
<1>2. conn' = [conn EXCEPT ![c] = m]
      BY <1>1, Zenon DEF OnRoomUnsubscribe
<1>3. m \in Client /\ m.buf = k.buf /\ m.panicked = k.panicked
      BY <1>1, Zenon DEF Safe, Client
<1>4. m.player = k.player /\ m.room = NoRoom /\ m.entering = next /\ m.reader /\ m.got = k.got
      BY <1>1 DEF Safe, Client
<1>5. m.early = k.early
      BY <1>1 DEF Safe, Client
<1>6. Safe(m)
      BY <1>1, <1>3, Zenon DEF Safe
<1> HIDE DEF m
<1>7. Moved(m, k, NoRoom, next)
      BY <1>4, <1>5, <1>6, Zenon DEF Moved
<1>8. k.room \in Rooms
      BY <1>1 DEF Safe, Client
<1>9. /\ rooms' = [rooms EXCEPT ![k.room] = @ \ {c}]
      /\ StopListener(IF rooms[k.room] \subseteq {c} THEN {k.room} ELSE {})
      BY DEF OnRoomUnsubscribe
<1>10. rooms \in [Rooms -> SUBSET Clients] /\ players \in [Players -> SUBSET Clients]
      BY DEF HubInv, ListenInv
<1>11. \A x \in Rooms : rooms'[x] = IF x = k.room THEN rooms[x] \ {c} ELSE rooms[x]
      BY <1>8, <1>9, <1>10, Zenon
<1>12. rooms' \in [Rooms -> SUBSET Clients]
      BY <1>8, <1>9, <1>10, Zenon
<1>13. \A x \in Rooms : c \in rooms[x] <=> x = k.room
      BY <1>1, Zenon DEF HubInv, SlotInv, IndexesAgree
<1>14. ASSUME NEW d \in Clients, NEW x \in Rooms
       PROVE  d \in rooms'[x] <=> IF d = c THEN x = NoRoom ELSE d \in rooms[x]
  <2>1. x # NoRoom
        BY GatewayAssumption
  <2>2. CASE x = k.room
    <3>1. rooms'[x] = rooms[x] \ {c}
          BY <1>11, <2>2, Zenon
    <3> QED
          BY <2>1, <3>1
  <2>3. CASE x # k.room
        BY <1>11, <1>13, <2>1, <2>3, Zenon
  <2> QED
        BY <2>2, <2>3
<1>15. ClientInv' /\ CastInv' /\ SlotInv'
  <2>1. NoRoom \in Rooms \cup {NoRoom} /\ players' = players /\ bcast' = bcast
        BY Zenon
  <2> QED
        BY <1>2, <1>7, <1>14, <2>1, MoveKeeps, Zenon
<1> DEFINE emptied == IF rooms[k.room] \subseteq {c} THEN {k.room} ELSE {}
<1>16. ASSUME NEW ch \in Channels
       PROVE  Index(ch)' # {} <=> Index(ch) # {} /\ ch \notin emptied
  <2>1. CASE ch = k.room
    <3>1. rooms'[ch] = rooms[ch] \ {c} /\ Index(ch)' = rooms'[ch] /\ Index(ch) = rooms[ch]
          BY <1>8, <1>11, <2>1, Zenon DEF Index
    <3>2. c \in rooms[ch] /\ (ch \in emptied <=> rooms[ch] \subseteq {c})
          BY <1>8, <1>13, <2>1
    <3> QED
          BY <3>1, <3>2
  <2>2. CASE ch # k.room
        BY <1>11, <2>2, Zenon DEF Index
  <2> QED
        BY <2>1, <2>2, Zenon
<1>17. ListenInv'
  <2> HIDE DEF emptied
  <2> QED
      BY <1>9, <1>10, <1>12, <1>16, StopKeeps, Zenon DEF HubInv, emptied
<1> QED
      BY <1>15, <1>17 DEF HubInv

LEMMA ControlKeeps == ASSUME HubInv, NEW c \in Clients, handleControl(c) PROVE HubInv'
<1>1. CASE Reading(c) /\ conn[c].room = NoRoom /\ \E r \in Rooms : OnRoomSubscribe(c, r)
      BY <1>1, EnterKeeps DEF handleControl, Reading
<1>2. CASE /\ Reading(c) /\ conn[c].room # NoRoom
           /\ \E next \in Rooms \cup {NoRoom} : OnRoomUnsubscribe(c, next)
      BY <1>2, LeaveKeeps, Zenon DEF handleControl, Reading
<1>3. CASE conn[c].entering # NoRoom /\ OnRoomSubscribe(c, conn[c].entering)
  <2>1. conn[c] # Idle /\ conn[c].reader /\ conn[c].room = NoRoom /\ conn[c].entering \in Rooms
        BY <1>3, Zenon DEF HubInv, SlotInv, ClientInv, Safe, Client, handleControl
  <2> QED
        BY <1>3, <2>1, EnterKeeps, Zenon DEF handleControl
<1> QED
      BY <1>1, <1>2, <1>3, Zenon DEF handleControl

\* The end of a read pump takes the client out of the indexes, a spectator not quite.
LEMMA ReadPumpKeeps == ASSUME HubInv, NEW c \in Clients, ReadPump(c) PROVE HubInv'
<1> DEFINE k == conn[c]
<1> DEFINE ended == [k EXCEPT !.reader = FALSE]
<1> DEFINE m == Pumps(ended)
<1>1. /\ k # Idle /\ Safe(k) /\ k.reader /\ k.entering = NoRoom /\ bcast' = bcast
      /\ conn' = [conn EXCEPT ![c] = m]
      /\ rooms' = IF k.room = NoRoom THEN rooms ELSE [rooms EXCEPT ![k.room] = @ \ {c}]
      /\ players' = IF k.spectator THEN players ELSE [players EXCEPT ![k.player] = @ \ {c}]
      BY DEF ReadPump, HubInv, ClientInv
<1> DEFINE room == IF k.room # NoRoom /\ rooms[k.room] \subseteq {c} THEN {k.room} ELSE {}
<1> DEFINE own == IF ~k.spectator /\ players[k.player] \subseteq {c} THEN {k.player} ELSE {}
<1>2. StopListener(room \cup own)
      BY DEF ReadPump
<1>3. k.room \in Rooms \cup {NoRoom} /\ k.player \in Players
      BY <1>1 DEF Safe, Client
<1>4. Safe(ended) /\ ~ended.reader /\ ended.player = k.player /\ ended.entering = k.entering
      BY <1>1, Zenon DEF Safe, Client
<1>5. ended.got = k.got /\ ended.early = k.early /\ ended.spectator = k.spectator
      BY <1>1 DEF Safe, Client
<1> HIDE DEF ended
<1>6. m = Idle \/ m = ended
      BY DEF Pumps
<1> HIDE DEF m
<1>7. ClientInv' /\ CastInv' /\ \A d \in Clients : conn'[d] = IF d = c THEN m ELSE conn[d]
  <2>1. m = Idle \/ Safe(m)
        BY <1>4, <1>6, Zenon
  <2>2. m = Idle \/ (/\ conn[c] # Idle /\ m.got = conn[c].got
                     /\ (m.early <=> conn[c].early) /\ (m.reader => conn[c].reader))
        BY <1>1, <1>4, <1>5, <1>6
  <2> QED
        BY <1>1, <2>1, <2>2, SlotChanges, Zenon
<1>8. /\ rooms \in [Rooms -> SUBSET Clients] /\ players \in [Players -> SUBSET Clients]
      /\ NoRoom \notin Rooms /\ Rooms \cap Players = {}
      BY GatewayAssumption, Zenon DEF HubInv, ListenInv
<1>9. \A x \in Rooms : c \in rooms[x] <=> x = k.room
      BY <1>1, Zenon DEF HubInv, SlotInv, IndexesAgree
<1>10. c \in players[k.player]
      BY <1>1 DEF HubInv, SlotInv, IndexesAgree
<1>11. \A x \in Rooms : rooms'[x] = rooms[x] \ {c}
  <2>1. CASE k.room = NoRoom
        BY <1>1, <1>8, <1>9, <2>1, Zenon
  <2>2. CASE k.room # NoRoom
    <3> SUFFICES ASSUME NEW x \in Rooms PROVE rooms'[x] = rooms[x] \ {c}
          BY Zenon
    <3>1. CASE x = k.room
          BY <1>1, <1>8, <2>2, <3>1
    <3>2. CASE x # k.room
      <4>1. rooms'[x] = rooms[x] /\ c \notin rooms[x]
            BY <1>1, <1>3, <1>8, <1>9, <2>2, <3>2
      <4> QED
            BY <4>1, Zenon
    <3> QED
          BY <3>1, <3>2
  <2> QED
        BY <2>1, <2>2, Zenon
<1>12. \A x \in Players : players'[x] = IF x = k.player /\ ~k.spectator THEN players[x] \ {c} ELSE players[x]
      BY <1>1, <1>3, <1>8, Zenon
<1>13. rooms' \in [Rooms -> SUBSET Clients] /\ players' \in [Players -> SUBSET Clients]
  <2>1. rooms' \in [Rooms -> SUBSET Clients]
        BY <1>1, <1>3, <1>8, Zenon
  <2>2. players' \in [Players -> SUBSET Clients]
        BY <1>1, <1>3, <1>8
  <2> QED
        BY <2>1, <2>2
<1>14. ListenInv'
  <2>1. ASSUME NEW ch \in Channels
        PROVE  Index(ch)' # {} <=> Index(ch) # {} /\ ch \notin room \cup own
    <3>1. CASE ch \in Rooms
      <4>1. /\ Index(ch)' = rooms[ch] \ {c} /\ Index(ch) = rooms[ch]
            /\ ch \in room \cup own <=> ch = k.room /\ rooms[ch] \subseteq {c}
            BY <1>3, <1>8, <1>11, <3>1 DEF Index
      <4>2. c \in rooms[ch] <=> ch = k.room
            BY <1>9, <3>1, Zenon
      <4> QED
            BY <4>1, <4>2, Zenon
    <3>2. CASE ch \notin Rooms
      <4>1. /\ ch \in Players /\ Index(ch)' = players'[ch] /\ Index(ch) = players[ch]
            /\ ch \in room \cup own <=> ch = k.player /\ ~k.spectator /\ players[ch] \subseteq {c}
            BY <1>3, <3>2, Zenon DEF Index, Channels
      <4>2. CASE ch = k.player /\ ~k.spectator
        <5>1. players'[ch] = players[ch] \ {c} /\ c \in players[ch]
              BY <1>10, <1>12, <4>1, <4>2, Zenon
        <5> QED
              BY <4>1, <4>2, <5>1
      <4>3. CASE ~(ch = k.player /\ ~k.spectator)
        <5>1. players'[ch] = players[ch]
              BY <1>12, <4>1, <4>3, Zenon
        <5> QED
              BY <4>1, <4>3, <5>1
      <4> QED
            BY <4>2, <4>3, Zenon
    <3> QED
          BY <3>1, <3>2, Zenon
  <2> HIDE DEF room, own
  <2> QED
        BY <1>2, <1>13, <2>1, StopKeeps, Zenon DEF HubInv
<1>15. SlotInv'
  <2>1. m # Idle => ~m.reader /\ m.player = k.player /\ m.entering = NoRoom /\ m.spectator = k.spectator
        BY <1>1, <1>4, <1>5, <1>6, Zenon
  <2>2. ASSUME NEW d \in Clients, NEW x \in Rooms
        PROVE  d \in rooms'[x] <=> conn'[d] # Idle /\ conn'[d].reader /\ conn'[d].room = x
    <3>1. CASE d = c
      <4>1. d \notin rooms'[x] /\ conn'[d] = m
            BY <1>7, <1>11, <3>1, Zenon
      <4> QED
            BY <2>1, <4>1
    <3>2. CASE d # c
      <4>1. conn'[d] = conn[d] /\ (d \in rooms'[x] <=> d \in rooms[x])
            BY <1>7, <1>11, <3>2
      <4> QED
            BY <4>1 DEF HubInv, SlotInv, IndexesAgree
    <3> QED
          BY <3>1, <3>2, Zenon
  <2>3. ASSUME NEW d \in Clients, conn'[d] # Idle, conn'[d].reader
        PROVE  d \in players'[conn'[d].player]
    <3>1. d # c
          BY <1>7, <2>1, <2>3, Zenon
    <3>2. conn'[d] = conn[d] /\ conn[d].player \in Players
          BY <1>7, <2>3, <3>1, Zenon DEF HubInv, ClientInv, Safe, Client
    <3>3. d \in players[conn[d].player]
          BY <2>3, <3>2 DEF HubInv, SlotInv, IndexesAgree
    <3> QED
          BY <1>12, <3>1, <3>2, <3>3, Zenon
  <2>4. ASSUME NEW d \in Clients, NEW x \in Players, d \in players'[x], conn'[d] # Idle
        PROVE  conn'[d].player = x /\ (~conn'[d].reader => conn'[d].spectator)
    <3>0. d \in players[x]
          BY <1>12, <2>4, Zenon
    <3>1. CASE d = c
      <4>1. conn'[d] = m /\ m # Idle
            BY <1>7, <2>4, <3>1, Zenon
      <4>2. k.player = x
            BY <1>1, <3>0, <3>1 DEF HubInv, SlotInv
      <4>3. k.spectator
            BY <1>12, <2>4, <3>1, <4>2, Zenon
      <4> QED
            BY <2>1, <4>1, <4>2, <4>3, Zenon
    <3>2. CASE d # c
      <4>1. conn'[d] = conn[d]
            BY <1>7, <3>2, Zenon
      <4> QED
            BY <2>4, <3>0, <4>1 DEF HubInv, SlotInv, IndexesAgree
    <3> QED
          BY <3>1, <3>2
  <2>5. ASSUME NEW d \in Clients, conn'[d] # Idle, conn'[d].entering # NoRoom
        PROVE  conn'[d].room = NoRoom /\ conn'[d].reader
    <3>1. d # c
          BY <1>7, <2>1, <2>5
    <3>2. conn'[d] = conn[d]
          BY <1>7, <3>1
    <3> QED
          BY <2>5, <3>2, Zenon DEF HubInv, SlotInv
  <2> QED
        BY <2>2, <2>3, <2>4, <2>5, Zenon DEF SlotInv, IndexesAgree
<1> QED
      BY <1>7, <1>14, <1>15 DEF HubInv

LEMMA FatalKeeps == ASSUME HubInv, Fatal PROVE HubInv'
<1>1. \A c \in Clients : conn'[c] = Idle
      BY DEF Fatal
<1>2. ClientInv'
      BY DEF Fatal, ClientInv
<1>3. ListenInv'
      BY Zenon DEF Fatal, ListenInv, Index, Channels
<1>4. SlotInv'
      BY Zenon DEF Fatal, SlotInv, IndexesAgree
<1>5. CastInv'
      BY <1>1, Zenon DEF Fatal, HubInv, CastInv
<1> QED
      BY <1>2, <1>3, <1>4, <1>5 DEF HubInv

\* The pass over the rooms reaches the clients in one.
LEMMA RoomPassKeeps == ASSUME HubInv, handleBroadcastSent PROVE HubInv'
<1> DEFINE S == UNION {rooms[r] : r \in Rooms}
<1>1. /\ bcast.phase = "none" /\ SendAll(S, "broadcast") /\ QuietHub
      /\ bcast' = [phase |-> "players", sent |-> S]
      BY DEF handleBroadcastSent, BroadcastRooms
<1>2. S \in SUBSET Clients
      BY DEF HubInv, ListenInv
<1> HIDE DEF S
<1>3. Seated /\ \A c \in Clients : conn[c] # Idle => /\ c \notin S => conn'[c].got = conn[c].got
                                                     /\ c \in S /\ conn[c].got = 0 => conn'[c].got = 1
      BY <1>1, SendAllSeats, Zenon DEF Frames
<1>4. \A c \in Clients : conn[c] # Idle => conn[c].got = 0
      BY <1>1, Zenon DEF HubInv, CastInv, CastOK
<1>5. CastInv'
      BY <1>1, <1>2, <1>3, <1>4 DEF CastInv, CastOK, Seated
<1> QED
      BY <1>1, <1>3, <1>5, SeatsKeep, Zenon DEF HubInv

\* The pass over the players reaches everyone else who is being read.
LEMMA PlayerPassKeeps == ASSUME HubInv, BroadcastPlayers PROVE HubInv'
<1> DEFINE T == UNION {players[p] : p \in Players}
<1> DEFINE S == T \ bcast.sent
<1>1. /\ bcast.phase = "players" /\ SendAll(S, "broadcast") /\ QuietHub
      /\ bcast' = [phase |-> "done", sent |-> {}]
      BY Zenon DEF BroadcastPlayers
<1>2. \A c \in Clients : conn[c] # Idle /\ conn[c].reader => c \in T
  <2>1. \A c \in Clients : conn[c] # Idle => conn[c].player \in Players
        BY Zenon DEF HubInv, ClientInv, Safe, Client
  <2> QED
        BY <2>1 DEF HubInv, SlotInv, IndexesAgree
<1> HIDE DEF T
<1>3. Seated /\ \A c \in Clients : conn[c] # Idle => /\ c \notin S => conn'[c].got = conn[c].got
                                                     /\ c \in S /\ conn[c].got = 0 => conn'[c].got = 1
  <2> HIDE DEF S
  <2> QED
      BY <1>1, SendAllSeats DEF Frames
<1>4. \A c \in Clients : conn[c] # Idle => CastOK(c, conn[c], bcast)
      BY Zenon DEF HubInv, CastInv
<1>5. ASSUME NEW c \in Clients, conn'[c] # Idle
      PROVE  conn'[c].got <= 1 /\ (conn'[c].early /\ conn'[c].reader => conn'[c].got = 1)
  <2>1. conn[c] # Idle /\ (conn'[c].early <=> conn[c].early) /\ (conn'[c].reader <=> conn[c].reader)
        BY <1>3, <1>5, Zenon DEF Seated, SameSeat
  <2>2. /\ c \notin bcast.sent => conn[c].got = 0
        /\ c \in bcast.sent => conn[c].got <= 1
        /\ c \in bcast.sent /\ conn[c].early => conn[c].got = 1
        BY <1>1, <1>4, <2>1, Zenon DEF CastOK
  <2> QED
        BY <1>2, <1>3, <2>1, <2>2
<1>6. CastInv'
      BY <1>1, <1>5 DEF CastInv, CastOK
<1> QED
      BY <1>1, <1>3, <1>6, SeatsKeep, Zenon DEF HubInv

LEMMA HubStepKeeps == ASSUME HubInv, HubNext \/ UNCHANGED hubVars PROVE HubInv'
<1>1. ASSUME UNCHANGED gwVars
      PROVE  HubInv'
      BY <1>1, StillKeeps DEF gwVars, QuietHub
<1>2. ASSUME NEW c \in Clients, handleControl(c) \/ Drop(c) \/ WritePump(c) \/ Heartbeat(c) \/ ReadPump(c)
      PROVE  HubInv'
  <2>1. CASE Heartbeat(c)
        BY <2>1, StillKeeps DEF Heartbeat
  <2> QED
        BY <1>2, <2>1, ControlKeeps, DropKeeps, WritePumpKeeps, ReadPumpKeeps, Zenon
<1>3. ASSUME NEW p \in Players,
             SetLands(p) \/ PresenceExpires(p) \/ listenPlayer(p) \/ handleSessionRevoked(p)
      PROVE  HubInv'
  <2>1. CASE SetLands(p) \/ PresenceExpires(p)
        BY <2>1, StillKeeps, Zenon DEF SetLands, PresenceExpires
  <2>2. CASE listenPlayer(p)
        BY <2>2, EventsKeep DEF listenPlayer, fanoutPlayer
  <2>3. CASE handleSessionRevoked(p)
        BY <2>3, DisconnectKeeps DEF handleSessionRevoked
  <2> QED
        BY <1>3, <2>1, <2>2, <2>3
<1>4. ASSUME NEW r \in Rooms, listenRoom(r)
      PROVE  HubInv'
  <2>1. QuietHub /\ bcast' = bcast /\ \E S : SendAll(S, "event")
        BY <1>4 DEF listenRoom, fanout, fanoutSpectatorsOnly
  <2> QED
        BY <2>1, EventsKeep, Zenon
<1> QED
      BY <1>1, <1>2, <1>3, <1>4, HandlersKeep, FatalKeeps, RoomPassKeeps, PlayerPassKeeps
      DEF HubNext, HubSteps, hubVars

(* Whatever connections, readers, fan-outs, broadcasts, revocations and    *)
(* accounts do, and in whatever order (hub.go, client.go): the hub's       *)
(* indexes hold the clients being read, a channel has its one listener, no *)
(* send channel is closed twice or written after it is closed, and a       *)
(* broadcast reaches every client that was there exactly once.             *)
THEOREM HubSound == HubSpec => []GatewaySound
<1>1. HubSpec => []HubInv
      BY EmptyHub, HubStepKeeps, PTL DEF HubSpec
<1> QED
      BY <1>1, HubIsSound, PTL
=============================================================================
