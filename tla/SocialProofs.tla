---------------------------- MODULE SocialProofs ----------------------------
(***************************************************************************)
(* Friendships, notifications and messages for any number of players,      *)
(* handlers and events: the requests of players and the deliveries,        *)
(* retries and crashes of notification-service in any order, with events   *)
(* of the other services among them, and chat on top of it all.            *)
(***************************************************************************)
EXTENDS Chat, FiniteSetTheorems, TLAPS

\* The time a leaf that names no prover may take.
USE SMTT(60), ZenonT(20)

pairVars == <<socialVars, notifVars>>

PairInit == NotifInit /\ SocialInit

PairSteps == \E pr \in Pairs :
    \/ handleSendFriendRequest(pr) \/ handleAcceptFriendRequest(pr) \/ handleDeclineFriendRequest(pr)
    \/ handleBlockPlayer(pr) \/ handleUnblockPlayer(pr) \/ handleRemoveFriend(pr)
    \/ executeAcceptSideEffect(pr) \/ MutePlayer(pr) \/ UnmutePlayer(pr)

SettingSteps == \E p \in Players, body \in SettingMap : handleUpsertPlayerSettings(p, body)

\* Bans and achievements, which come from elsewhere.
OtherEvents ==
    /\ \E e \in Event : Publish(e)
    /\ QuietNotifications /\ UNCHANGED socialVars

PairNext ==
    \/ PairSteps \/ SettingSteps \/ OtherEvents
    \/ (NotifSteps \/ PlayerActs) /\ UNCHANGED socialVars

PairSpec == PairInit /\ [][PairNext]_pairVars

(***************************************************************************)
(* The rows of notifications.                                              *)
(***************************************************************************)
NoteRow == [id : Nat, src : Ids, type : Types, player : Players, from : Players,
            read : BOOLEAN, action : {"none", "accepted", "declined"}, expired : BOOLEAN]

TypeInv ==
    /\ published \in Seq(Event) /\ Len(published) <= MaxEvents
    /\ queue \subseteq 1 .. Len(published)
    /\ job \in [Handlers -> {Idle} \cup [event : 1 .. Len(published), step : {"create", "push"}]]
    /\ pushes \in [Ids -> Nat]
    /\ notes \subseteq NoteRow /\ IsFiniteSet(notes)
    /\ friendship \in [Pairs -> {"none", "pending", "accepted", "blocked"}]

\* Row m is row n at a later time: an answer and an expiry are for good.
Becomes(n, m) ==
    /\ m.id = n.id /\ m.src = n.src /\ m.type = n.type /\ m.player = n.player /\ m.from = n.from
    /\ n.action # "none" => m.action = n.action
    /\ n.expired => m.action = n.action /\ m.expired

\* A step that changes row n in place into m.
Changed(n, m) == n \in notes /\ m \in NoteRow /\ Becomes(n, m) /\ notes' = (notes \ {n}) \cup {m}

(* takeAction: the answer is written into a row that had none.             *)
LEMMA TakeChanges ==
    ASSUME TypeInv, NEW n \in notes, NEW a \in {"accepted", "declined"}, takeAction(n, a)
    PROVE  \E m \in NoteRow : Changed(n, m) /\ m.action = a
<1> DEFINE k == [n EXCEPT !.action = a]
<1> DEFINE m == [k EXCEPT !.read = TRUE]
<1>1. n \in NoteRow
      BY DEF TypeInv
<1>2. n.action = "none" /\ ~n.expired
      BY DEF takeAction, SetAction
<1>3. k \in NoteRow /\ Becomes(n, k) /\ (k.expired <=> n.expired) /\ k.action = a
      BY <1>1, <1>2 DEF NoteRow, Becomes
<1>4. notes' = (notes \ {n}) \cup {m}
      BY DEF takeAction, SetAction, Update
<1> HIDE DEF k
<1>5. m \in NoteRow /\ Becomes(k, m) /\ m.action = k.action
      BY <1>3, Zenon DEF NoteRow, Becomes
<1> HIDE DEF m
<1>6. Becomes(n, m)
      BY <1>2, <1>3, <1>5 DEF Becomes
<1>7. QED
      BY <1>3, <1>4, <1>5, <1>6 DEF Changed

(* What a player does to a notification changes one row in place.          *)
LEMMA ActsChange ==
    ASSUME TypeInv, NEW n \in notes,
           \/ markRead(n) \/ ActionExpires(n)
           \/ \E a \in {"accepted", "declined"} : takeAction(n, a)
    PROVE  \E m \in NoteRow : Changed(n, m)
<1>1. n \in NoteRow
      BY DEF TypeInv
<1>2. CASE markRead(n)
  <2> DEFINE m == [n EXCEPT !.read = TRUE]
  <2>1. m \in NoteRow /\ Becomes(n, m)
        BY <1>1, Zenon DEF NoteRow, Becomes
  <2>2. QED
        BY <1>2, <2>1, Zenon DEF Changed, markRead, Update
<1>3. CASE ActionExpires(n)
  <2> DEFINE m == [n EXCEPT !.expired = TRUE]
  <2>1. m \in NoteRow /\ Becomes(n, m)
        BY <1>1, Zenon DEF NoteRow, Becomes
  <2>2. QED
        BY <1>3, <2>1, Zenon DEF Changed, ActionExpires, Update
<1>4. QED
      BY <1>2, <1>3, TakeChanges

(* Row: what a handler inserts.                                            *)
LEMMA RowTyped ==
    ASSUME TypeInv, NEW i \in 1 .. Len(published)
    PROVE  Row(i) \in NoteRow /\ Row(i).src = i /\ Row(i).action = "none"
<1>1. published[i] \in Event
      BY DEF TypeInv
<1>2. Cardinality(notes) + 1 \in Nat
      BY FS_CardinalityType DEF TypeInv
<1>3. i \in Ids
      BY NotificationAssumption DEF TypeInv, Ids
<1>4. /\ Handled(published[i]).type \in Types
      /\ Handled(published[i]).player \in Players /\ Handled(published[i]).from \in Players
      BY <1>1 DEF Event, Types, Handled, handleFriendshipRequested, handleFriendshipAccepted,
                  handlePlayerBanned, handleAchievementUnlocked
<1>5. PICK id \in Nat, type \in Types, player \in Players, from \in Players :
        /\ id = Cardinality(notes) + 1 /\ type = Handled(published[i]).type
        /\ player = Handled(published[i]).player /\ from = Handled(published[i]).from
      BY <1>2, <1>4
<1> DEFINE row == [id |-> id, src |-> i, type |-> type, player |-> player, from |-> from,
                   read |-> FALSE, action |-> "none", expired |-> FALSE]
<1>6. Row(i) = row
      BY <1>5 DEF Row
<1>7. row \in NoteRow /\ row.src = i /\ row.action = "none"
      BY <1>3 DEF NoteRow
<1> HIDE DEF row
<1>8. QED
      BY <1>6, <1>7

\* What a step may do to the table.
Inserted(h) ==
    /\ job[h] # Idle /\ job[h].step = "create" /\ ~Stored(job[h].event)
    /\ notes' = notes \cup {Row(job[h].event)}
    /\ job' = [job EXCEPT ![h] = [event |-> job[h].event, step |-> "push"]]
    /\ UNCHANGED <<published, queue, tries, dedupe, pushes, accepting, marred, socialVars>>

ActedOn == \E n \in notes : (\E m \in NoteRow : Changed(n, m))
    /\ UNCHANGED <<published, queue, tries, job, dedupe, pushes, marred, socialVars>>

(* The table changes by one INSERT of a handler or by one UPDATE of a row. *)
LEMMA NotesStep ==
    ASSUME TypeInv, [PairNext]_pairVars
    PROVE  \/ UNCHANGED notes
           \/ \E h \in Handlers : Inserted(h)
           \/ ActedOn
<1>1. CASE PairSteps \/ SettingSteps \/ OtherEvents
      BY <1>1, Zenon
      DEF PairSteps, SettingSteps, OtherEvents, QuietNotifications, notifVars,
          handleSendFriendRequest, handleAcceptFriendRequest, handleDeclineFriendRequest,
          handleBlockPlayer, handleUnblockPlayer, handleRemoveFriend, executeAcceptSideEffect,
          MutePlayer, UnmutePlayer, handleUpsertPlayerSettings
<1>2. CASE NotifSteps /\ UNCHANGED socialVars
  <2>1. ASSUME NEW h \in Handlers, Create(h) PROVE UNCHANGED notes \/ Inserted(h)
        BY <1>2, <2>1 DEF Create, Inserted
  <2>2. QED
        BY <1>2, <2>1 DEF NotifSteps, Deliver, Push, Crash, DedupeExpires
<1>3. CASE PlayerActs /\ UNCHANGED socialVars
  <2>1. PICK n \in notes : \/ markRead(n) \/ ActionExpires(n)
                           \/ \E a \in {"accepted", "declined"} : takeAction(n, a)
        BY <1>3 DEF PlayerActs
  <2>2. \E m \in NoteRow : Changed(n, m)
        BY <2>1, ActsChange
  <2>3. UNCHANGED <<published, queue, tries, job, dedupe, pushes, marred>>
        BY <2>1 DEF markRead, ActionExpires, takeAction
  <2>4. QED
        BY <1>3, <2>2, <2>3 DEF ActedOn
<1>4. QED
      BY <1>1, <1>2, <1>3 DEF PairNext, pairVars, notifVars

NotesKept == \A n \in notes : \E m \in notes' : Becomes(n, m)

(* No row is lost, and none is answered twice.                             *)
LEMMA RowsKept ==
    ASSUME TypeInv, [PairNext]_pairVars
    PROVE  NotesKept /\ notes' \subseteq NoteRow /\ IsFiniteSet(notes')
<1>1. \A n \in notes : Becomes(n, n)
      BY DEF Becomes
<1>2. CASE UNCHANGED notes
      BY <1>1, <1>2 DEF NotesKept, TypeInv
<1>3. ASSUME NEW h \in Handlers, Inserted(h)
      PROVE  NotesKept /\ notes' \subseteq NoteRow /\ IsFiniteSet(notes')
  <2>1. job[h].event \in 1 .. Len(published)
        BY <1>3 DEF Inserted, TypeInv
  <2>2. Row(job[h].event) \in NoteRow
        BY <2>1, RowTyped
  <2>3. IsFiniteSet(notes')
        BY <1>3, FS_AddElement, Zenon DEF Inserted, TypeInv
  <2>4. QED
        BY <1>1, <1>3, <2>2, <2>3 DEF Inserted, NotesKept, TypeInv
<1>4. CASE ActedOn
  <2>1. PICK n \in notes, m \in NoteRow : Changed(n, m)
        BY <1>4 DEF ActedOn
  <2>2. IsFiniteSet(notes \ {n})
        BY FS_Subset DEF TypeInv
  <2>3. IsFiniteSet(notes')
        BY <2>1, <2>2, FS_AddElement DEF Changed
  <2>4. QED
        BY <1>1, <2>1, <2>3 DEF Changed, NotesKept, TypeInv
<1>5. QED
      BY <1>2, <1>3, <1>4, NotesStep

(* Types, as far as the arguments below need them.                         *)
LEMMA TypeStep ==
    ASSUME TypeInv, [PairNext]_pairVars
    PROVE  TypeInv'
<1> DEFINE Task(n) == [event : 1 .. n, step : {"create", "push"}]
<1>1. notes' \subseteq NoteRow /\ IsFiniteSet(notes')
      BY RowsKept
<1>2. \A pr \in Pairs : Back(pr) \in Pairs
      BY DEF Pairs, Back
<1>3. friendship' \in [Pairs -> {"none", "pending", "accepted", "blocked"}]
  <2>1. CASE PairSteps
    <3>1. ASSUME NEW pr \in Pairs, NEW status \in {"none", "pending", "accepted", "blocked"},
                 SetRow(pr, status)
          PROVE  friendship' \in [Pairs -> {"none", "pending", "accepted", "blocked"}]
          BY <3>1 DEF SetRow, TypeInv
    <3>2. ASSUME NEW pr \in Pairs, RemoveFriend(pr)
          PROVE  friendship' \in [Pairs -> {"none", "pending", "accepted", "blocked"}]
          BY <1>2, <3>2 DEF RemoveFriend, TypeInv
    <3>3. QED
          BY <2>1, <3>1, <3>2
          DEF TypeInv, PairSteps, handleSendFriendRequest, handleAcceptFriendRequest,
              handleDeclineFriendRequest, handleBlockPlayer, handleUnblockPlayer,
              handleRemoveFriend, executeAcceptSideEffect, MutePlayer, UnmutePlayer,
              SendFriendRequest, AcceptFriendRequest, DeclineFriendRequest, BlockPlayer,
              UnblockPlayer, grpcAcceptFriendRequest
  <2>2. CASE UNCHANGED friendship
        BY <2>2 DEF TypeInv
  <2>3. QED
        BY <2>1, <2>2
        DEF PairNext, pairVars, socialVars, SettingSteps, handleUpsertPlayerSettings, OtherEvents
<1>4. /\ published' \in Seq(Event) /\ Len(published') <= MaxEvents
      /\ Len(published) <= Len(published')
      /\ queue' \subseteq 1 .. Len(published')
  <2>1. ASSUME NEW e \in Event, Publish(e)
        PROVE  /\ published' \in Seq(Event) /\ Len(published') <= MaxEvents
               /\ Len(published) <= Len(published')
               /\ queue' \subseteq 1 .. Len(published')
    <3>1. CASE UNCHANGED <<published, queue>>
          BY <3>1 DEF TypeInv
    <3>2. CASE /\ Len(published) < MaxEvents /\ published' = Append(published, e)
               /\ queue' = queue \cup {Len(published) + 1}
      <4>1. published' \in Seq(Event) /\ Len(published') = Len(published) + 1
            BY <3>2 DEF TypeInv
      <4>2. Len(published) \in Nat /\ queue \subseteq 1 .. Len(published)
            BY DEF TypeInv
      <4>3. ASSUME NEW i \in queue' PROVE i \in 1 .. Len(published')
        <5>1. i \in 1 .. Len(published) \/ i = Len(published) + 1
              BY <3>2, <4>2
        <5>2. QED
              BY <4>1, <4>2, <5>1
      <4>4. Len(published') <= MaxEvents /\ Len(published) <= Len(published')
            BY <3>2, <4>1, <4>2, NotificationAssumption
      <4>5. QED
            BY <4>1, <4>3, <4>4
    <3>3. QED
          BY <2>1, <3>1, <3>2 DEF Publish
  <2>2. CASE UNCHANGED published /\ queue' \subseteq queue
        BY <2>2 DEF TypeInv
  <2>3. CASE PairSteps
    <3>1. \A pr \in Pairs, k \in Kinds : [kind |-> k, one |-> pr[1], other |-> pr[2]] \in Event
          BY DEF Pairs, Event
    <3>2. "friendship.requested" \in Kinds /\ "friendship.accepted" \in Kinds
          BY DEF Kinds
    <3>3. QED
          BY <2>1, <2>2, <2>3, <3>1, <3>2
          DEF PairSteps, notifVars, handleSendFriendRequest, handleAcceptFriendRequest,
              handleDeclineFriendRequest, handleBlockPlayer, handleUnblockPlayer,
              handleRemoveFriend, executeAcceptSideEffect, MutePlayer, UnmutePlayer
  <2>4. CASE NotifSteps
        BY <2>2, <2>4
        DEF NotifSteps, Deliver, Take, seenEvent, Create, Acknowledge, Push, Crash, DedupeExpires
  <2>5. CASE PlayerActs
        BY <2>2, <2>5 DEF PlayerActs, markRead, ActionExpires, takeAction
  <2>6. QED
        BY <2>1, <2>2, <2>3, <2>4, <2>5
        DEF PairNext, pairVars, notifVars, OtherEvents, SettingSteps, handleUpsertPlayerSettings
<1>5. job' \in [Handlers -> {Idle} \cup Task(Len(published'))]
  <2>1. job' \in [Handlers -> {Idle} \cup Task(Len(published))]
    <3>1. CASE UNCHANGED job
          BY <3>1 DEF TypeInv
    <3>2. ASSUME NEW h \in Handlers, Deliver(h)
          PROVE  job' \in [Handlers -> {Idle} \cup Task(Len(published))]
      <4>1. PICK i \in Ids : Take(h, i) /\ seenEvent(h, i)
            BY <3>2 DEF Deliver
      <4>2. [event |-> i, step |-> "create"] \in Task(Len(published))
            BY <4>1 DEF Take, TypeInv
      <4>3. QED
            BY <4>1, <4>2 DEF seenEvent, TypeInv
    <3>3. ASSUME NEW h \in Handlers, Create(h) \/ Push(h) \/ Crash(h)
          PROVE  job' \in [Handlers -> {Idle} \cup Task(Len(published))]
      <4>1. job[h] \in Task(Len(published))
            BY <3>3 DEF Create, Push, Crash, TypeInv
      <4>2. [event |-> job[h].event, step |-> "push"] \in Task(Len(published))
            BY <4>1
      <4>3. QED
            BY <3>3, <4>2, Zenon DEF Create, Acknowledge, Push, Crash, TypeInv
    <3>4. CASE NotifSteps
          BY <3>1, <3>2, <3>3, <3>4 DEF NotifSteps, DedupeExpires
    <3>5. CASE PlayerActs
          BY <3>1, <3>5, Zenon DEF PlayerActs, markRead, ActionExpires, takeAction
    <3>6. CASE PairSteps
          BY <3>1, <3>6
          DEF PairSteps, notifVars, QuietNotifications, handleSendFriendRequest,
              handleAcceptFriendRequest, handleDeclineFriendRequest, handleBlockPlayer,
              handleUnblockPlayer, handleRemoveFriend, executeAcceptSideEffect, MutePlayer,
              UnmutePlayer
    <3>7. QED
          BY <3>1, <3>4, <3>5, <3>6
          DEF PairNext, pairVars, notifVars, OtherEvents, QuietNotifications, SettingSteps,
              handleUpsertPlayerSettings
  <2>2. Task(Len(published)) \subseteq Task(Len(published'))
    <3>1. Len(published) \in Nat /\ Len(published') \in Nat
          BY <1>4 DEF TypeInv
    <3>2. QED
          BY <1>4, <3>1
  <2>3. QED
        BY <2>1, <2>2
<1>6. pushes' \in [Ids -> Nat]
  <2>1. CASE UNCHANGED pushes
        BY <2>1 DEF TypeInv
  <2>2. ASSUME NEW h \in Handlers, Push(h) PROVE pushes' \in [Ids -> Nat]
    <3>1. pushes \in [Ids -> Nat] /\ pushes' = [pushes EXCEPT ![job[h].event] = @ + 1]
          BY <2>2 DEF Push, TypeInv
    <3>2. PICK i : i = job[h].event
          OBVIOUS
    <3>3. pushes' = [pushes EXCEPT ![i] = pushes[i] + 1]
          BY <3>1, <3>2
    <3>4. \A j \in Ids : pushes'[j] \in Nat
          BY <3>1, <3>3
    <3>5. QED
          BY <3>1, <3>3, <3>4, Zenon
  <2>3. CASE NotifSteps
        BY <2>1, <2>2, <2>3 DEF NotifSteps, Deliver, Create, Crash, DedupeExpires
  <2>4. CASE PlayerActs
        BY <2>1, <2>4, Zenon DEF PlayerActs, markRead, ActionExpires, takeAction
  <2>5. CASE PairSteps
        BY <2>1, <2>5
        DEF PairSteps, notifVars, QuietNotifications, handleSendFriendRequest,
            handleAcceptFriendRequest, handleDeclineFriendRequest, handleBlockPlayer,
            handleUnblockPlayer, handleRemoveFriend, executeAcceptSideEffect, MutePlayer,
            UnmutePlayer
  <2>6. QED
        BY <2>1, <2>3, <2>4, <2>5
        DEF PairNext, pairVars, notifVars, OtherEvents, QuietNotifications, SettingSteps,
            handleUpsertPlayerSettings
<1>7. QED
      BY <1>1, <1>3, <1>4, <1>5, <1>6 DEF TypeInv

(***************************************************************************)
(* One notification for an event, and none lost.                           *)
(***************************************************************************)
Pushing(h) == job[h] # Idle /\ job[h].step = "push"

\* A row is pushed by the handler that inserted it, and by no other.
OnceInv ==
    /\ \A n, m \in notes : n.src = m.src => n = m
    /\ \A h \in Handlers : Pushing(h) => Stored(job[h].event) /\ pushes[job[h].event] = 0
    /\ \A h, g \in Handlers : Pushing(h) /\ Pushing(g) /\ job[h].event = job[g].event => h = g
    /\ \A i \in Ids : pushes[i] <= 1 /\ (pushes[i] = 1 => Stored(i))

(* What a step of notification-service leaves of the handlers.             *)
LEMMA JobStep ==
    ASSUME TypeInv, [PairNext]_pairVars
    PROVE  \/ UNCHANGED <<job, pushes>>
           \/ \E h \in Handlers : Inserted(h)
           \/ /\ UNCHANGED <<pushes, notes>>
              /\ \E h \in Handlers, i \in Ids :
                    job' = [job EXCEPT ![h] = [event |-> i, step |-> "create"]]
           \/ UNCHANGED <<pushes, notes>> /\ \E h \in Handlers : job' = [job EXCEPT ![h] = Idle]
           \/ UNCHANGED notes /\ \E h \in Handlers : Push(h)
<1>1. CASE NotifSteps /\ UNCHANGED socialVars
  <2>1. ASSUME NEW h \in Handlers, Deliver(h)
        PROVE  \/ UNCHANGED <<job, pushes>>
               \/ /\ UNCHANGED <<pushes, notes>>
                  /\ \E i \in Ids : job' = [job EXCEPT ![h] = [event |-> i, step |-> "create"]]
        BY <2>1 DEF Deliver, seenEvent
  <2>2. ASSUME NEW h \in Handlers, Create(h)
        PROVE  \/ Inserted(h)
               \/ UNCHANGED <<pushes, notes>> /\ job' = [job EXCEPT ![h] = Idle]
        BY <1>1, <2>2 DEF Create, Acknowledge, Inserted
  <2>3. ASSUME NEW h \in Handlers, Crash(h)
        PROVE  UNCHANGED <<pushes, notes>> /\ job' = [job EXCEPT ![h] = Idle]
        BY <2>3 DEF Crash
  <2>4. ASSUME NEW h \in Handlers, Push(h) PROVE UNCHANGED notes
        BY <2>4 DEF Push
  <2>5. ASSUME NEW i \in Ids, DedupeExpires(i) PROVE UNCHANGED <<job, pushes>>
        BY <2>5 DEF DedupeExpires
  <2>6. QED
        BY <1>1, <2>1, <2>2, <2>3, <2>4, <2>5 DEF NotifSteps
<1>2. CASE PlayerActs
      BY <1>2, Zenon DEF PlayerActs, markRead, ActionExpires, takeAction
<1>3. CASE PairSteps
      BY <1>3
      DEF PairSteps, notifVars, QuietNotifications, handleSendFriendRequest,
          handleAcceptFriendRequest, handleDeclineFriendRequest, handleBlockPlayer,
          handleUnblockPlayer, handleRemoveFriend, executeAcceptSideEffect, MutePlayer,
          UnmutePlayer
<1>4. QED
      BY <1>1, <1>2, <1>3
      DEF PairNext, pairVars, notifVars, OtherEvents, QuietNotifications, SettingSteps,
          handleUpsertPlayerSettings

(* The unique index: of the handlers with an event only one inserts.       *)
LEMMA OnceStep ==
    ASSUME TypeInv, OnceInv, [PairNext]_pairVars
    PROVE  OnceInv'
<1>1. \A i : Stored(i) => Stored(i)'
  <2>1. NotesKept
        BY RowsKept
  <2>2. QED
        BY <2>1 DEF NotesKept, Becomes, Stored
<1>2. \A n, m \in notes' : n.src = m.src => n = m
  <2>1. CASE UNCHANGED notes
        BY <2>1 DEF OnceInv
  <2>2. ASSUME NEW h \in Handlers, Inserted(h)
        PROVE  \A n, m \in notes' : n.src = m.src => n = m
    <3>1. job[h].event \in 1 .. Len(published)
          BY <2>2 DEF Inserted, TypeInv
    <3>2. Row(job[h].event).src = job[h].event
          BY <3>1, RowTyped
    <3>3. QED
          BY <2>2, <3>2 DEF Inserted, Stored, OnceInv
  <2>3. CASE ActedOn
        BY <2>3 DEF ActedOn, Changed, Becomes, OnceInv
  <2>4. QED
        BY <2>1, <2>2, <2>3, NotesStep
<1>3. ASSUME NEW h \in Handlers, job[h] # Idle
      PROVE  job[h].event \in Ids
  <2>1. job[h].event \in 1 .. Len(published)
        BY <1>3 DEF TypeInv
  <2>2. QED
        BY <2>1, NotificationAssumption DEF TypeInv, Ids
<1>4. CASE UNCHANGED <<job, pushes>>
      BY <1>1, <1>2, <1>4, Zenon DEF OnceInv, Pushing
<1>5. ASSUME NEW h \in Handlers, Inserted(h) PROVE OnceInv'
  <2> DEFINE i == job[h].event
  <2>1. i \in 1 .. Len(published) /\ i \in Ids
        BY <1>3, <1>5 DEF Inserted, TypeInv
  <2>2. \E n \in notes' : n.src = i
    <3>1. Row(i) \in notes' /\ Row(i).src = i
          BY <1>5, <2>1, RowTyped, Zenon DEF Inserted
    <3>2. QED
          BY <3>1
  <2>3. ~Stored(i) /\ pushes[i] = 0 /\ UNCHANGED pushes
        BY <1>5, <2>1 DEF Inserted, OnceInv, TypeInv
  <2>4. /\ job'[h] = [event |-> i, step |-> "push"]
        /\ \A g \in Handlers : g # h => job'[g] = job[g]
        BY <1>5 DEF Inserted, TypeInv
  <2>5. job'[h].event = i
        BY <2>4
  <2> HIDE DEF i
  <2>6. \A g \in Handlers : g # h /\ Pushing(g) => job[g].event # i
        BY <2>3 DEF OnceInv
  <2>7. \A g \in Handlers : g # h => (Pushing(g)' <=> Pushing(g))
        BY <2>4 DEF Pushing
  <2>8. \A g \in Handlers : Pushing(g)' => Stored(job[g].event)' /\ pushes'[job'[g].event] = 0
    <3>1. ASSUME NEW g \in Handlers, Pushing(g)'
          PROVE  (\E n \in notes' : n.src = job'[g].event) /\ pushes'[job'[g].event] = 0
      <4>1. CASE g = h
            BY <2>2, <2>3, <2>5, <4>1, Zenon DEF Stored, i
      <4>2. CASE g # h
            BY <1>1, <2>3, <2>4, <2>7, <3>1, <4>2 DEF OnceInv, Stored
      <4>3. QED
            BY <4>1, <4>2
    <3>2. QED
          BY <3>1 DEF Stored
  <2>9. \A f, g \in Handlers : Pushing(f)' /\ Pushing(g)' /\ job'[f].event = job'[g].event => f = g
        BY <2>4, <2>5, <2>6, <2>7, Zenon DEF OnceInv
  <2>10. QED
        BY <1>1, <1>2, <2>3, <2>8, <2>9, Zenon DEF OnceInv
<1>6. ASSUME NEW h \in Handlers, UNCHANGED <<pushes, notes>>,
             \A g \in Handlers : g # h => job'[g] = job[g], ~Pushing(h)'
      PROVE  OnceInv'
      BY <1>1, <1>2, <1>6 DEF OnceInv, Pushing
<1>7. ASSUME NEW h \in Handlers, NEW i \in Ids, UNCHANGED <<pushes, notes>>,
             job' = [job EXCEPT ![h] = [event |-> i, step |-> "create"]]
      PROVE  OnceInv'
  <2>1. job'[h].step = "create" /\ \A g \in Handlers : g # h => job'[g] = job[g]
        BY <1>7 DEF TypeInv
  <2>2. QED
        BY <1>6, <1>7, <2>1 DEF Pushing
<1>8. ASSUME NEW h \in Handlers, UNCHANGED <<pushes, notes>>, job' = [job EXCEPT ![h] = Idle]
      PROVE  OnceInv'
  <2>1. job'[h] = Idle /\ \A g \in Handlers : g # h => job'[g] = job[g]
        BY <1>8, Zenon DEF TypeInv
  <2>2. QED
        BY <1>6, <1>8, <2>1 DEF Pushing
<1>9. ASSUME NEW h \in Handlers, Push(h), UNCHANGED notes PROVE OnceInv'
  <2> DEFINE i == job[h].event
  <2>1. i \in Ids /\ Pushing(h) /\ pushes[i] = 0 /\ Stored(i)
        BY <1>3, <1>9 DEF Push, Pushing, OnceInv
  <2>2. /\ job'[h] = Idle
        /\ \A g \in Handlers : g # h => job'[g] = job[g]
        BY <1>9 DEF Push, Acknowledge, TypeInv
  <2>3. pushes'[i] = 1 /\ \A j \in Ids : j # i => pushes'[j] = pushes[j]
        BY <1>9, <2>1 DEF Push, TypeInv
  <2>4. \A g \in Handlers : Pushing(g)' => g # h /\ Pushing(g) /\ job[g].event # i
        BY <2>1, <2>2 DEF Pushing, OnceInv
  <2> HIDE DEF i
  <2>5. \A g \in Handlers : Pushing(g) => job[g].event \in Ids
        BY <1>3 DEF Pushing
  <2>6. QED
        BY <1>1, <1>2, <2>1, <2>2, <2>3, <2>4, <2>5 DEF OnceInv
<1>10. QED
       BY <1>4, <1>5, <1>7, <1>8, <1>9, JobStep, Zenon

\* An event a handler has, or had and failed on, or turned into a row.
Cared(i) ==
    \/ Stored(i) \/ i \in marred
    \/ \E h \in Handlers : job[h] # Idle /\ job[h].event = i

\* The key of an event is set by a handler that goes on to it.
LossInv == LostOnlyAfterFailure /\ \A i \in dedupe : Cared(i)

(* A handler with an event is not idle.                                    *)
LEMMA BusyIsNotIdle ==
    ASSUME NEW i \in Nat
    PROVE  [event |-> i, step |-> "create"] # Idle /\ [event |-> i, step |-> "push"] # Idle
<1>1. /\ [event |-> i, step |-> "create"] \in [event : Nat, step : {"create", "push"}]
      /\ [event |-> i, step |-> "push"] \in [event : Nat, step : {"create", "push"}]
      OBVIOUS
<1>2. QED
      BY <1>1, NotificationAssumption

(* seenEvent takes the key before the work: an event that was begun is     *)
(* accounted for from then on.                                             *)
LEMMA CaredKept ==
    ASSUME TypeInv, OnceInv, [PairNext]_pairVars, NEW i, Cared(i)
    PROVE  Cared(i)'
<1>1. Stored(i) => Stored(i)'
  <2>1. NotesKept
        BY RowsKept
  <2>2. QED
        BY <2>1 DEF NotesKept, Becomes, Stored
<1>2. CASE marred \subseteq marred' /\ UNCHANGED job
      BY <1>1, <1>2, Zenon DEF Cared
<1>3. ASSUME NEW h \in Handlers, Deliver(h) PROVE Cared(i)'
      BY <1>1, <1>3 DEF Cared, Deliver, Take, seenEvent, TypeInv
<1>4. ASSUME NEW h \in Handlers, marred \subseteq marred',
             \A g \in Handlers : g # h => job'[g] = job[g],
             job[h] # Idle, Stored(job[h].event) \/ job[h].event \in marred'
                            \/ (job'[h] # Idle /\ job'[h].event = job[h].event)
      PROVE  Cared(i)'
      BY <1>1, <1>4 DEF Cared
<1>5. ASSUME NEW h \in Handlers, Create(h) PROVE Cared(i)'
  <2>1. job[h] # Idle /\ \A g \in Handlers : g # h => job'[g] = job[g]
        BY <1>5 DEF Create, Acknowledge, TypeInv
  <2>2. CASE Stored(job[h].event) /\ UNCHANGED marred
        BY <1>4, <2>1, <2>2, Zenon
  <2>3. CASE marred' = marred \cup {job[h].event}
        BY <1>4, <2>1, <2>3
  <2>4. CASE /\ job' = [job EXCEPT ![h] = [event |-> job[h].event, step |-> "push"]]
             /\ UNCHANGED marred
    <3>1. job'[h] = [event |-> job[h].event, step |-> "push"]
          BY <2>4 DEF TypeInv
    <3>2. job[h].event \in Nat
      <4>1. job[h].event \in 1 .. Len(published)
            BY <2>1 DEF TypeInv
      <4>2. QED
            BY <4>1
    <3>3. job'[h] # Idle
          BY <3>1, <3>2, BusyIsNotIdle, Zenon
    <3>4. QED
          BY <1>4, <2>1, <2>4, <3>1, <3>3
  <2>5. QED
        BY <1>5, <2>2, <2>3, <2>4, Zenon DEF Create
<1>6. ASSUME NEW h \in Handlers, Push(h) \/ Crash(h) PROVE Cared(i)'
  <2>1. /\ job[h] # Idle /\ \A g \in Handlers : g # h => job'[g] = job[g]
        /\ marred \subseteq marred'
        BY <1>6, Zenon DEF Push, Crash, Acknowledge, TypeInv
  <2>2. Stored(job[h].event) \/ job[h].event \in marred'
        BY <1>6 DEF Push, Crash, OnceInv, Pushing
  <2>3. QED
        BY <1>4, <2>1, <2>2, Zenon
<1>7. CASE NotifSteps
      BY <1>2, <1>3, <1>5, <1>6, <1>7 DEF NotifSteps, DedupeExpires
<1>8. CASE PlayerActs
      BY <1>2, <1>8, Zenon DEF PlayerActs, markRead, ActionExpires, takeAction
<1>9. CASE PairSteps
      BY <1>2, <1>9, Zenon
      DEF PairSteps, notifVars, QuietNotifications, handleSendFriendRequest,
          handleAcceptFriendRequest, handleDeclineFriendRequest, handleBlockPlayer,
          handleUnblockPlayer, handleRemoveFriend, executeAcceptSideEffect, MutePlayer,
          UnmutePlayer
<1>10. QED
       BY <1>2, <1>7, <1>8, <1>9, Zenon
       DEF PairNext, pairVars, notifVars, OtherEvents, QuietNotifications, SettingSteps,
           handleUpsertPlayerSettings

(* An event leaves the queue with its row, its failure or its handler      *)
(* known, and so does one taken for a duplicate.                           *)
LEMMA LossStep ==
    ASSUME TypeInv, OnceInv, LossInv, [PairNext]_pairVars
    PROVE  LossInv'
<1> DEFINE Kept == (\A i \in 1 .. Len(published') : i \in queue' \/ Cared(i)')
                   /\ \A i \in dedupe' : Cared(i)'
<1>1. \A i : Cared(i) => Cared(i)'
      BY CaredKept, Zenon
<1>2. SUFFICES Kept
      BY DEF LossInv, LostOnlyAfterFailure, Cared
<1>3. \A i \in 1 .. Len(published) : i \in queue \/ Cared(i)
      BY DEF LossInv, LostOnlyAfterFailure, Cared
<1>4. \A i \in dedupe : Cared(i)
      BY DEF LossInv
<1>5. CASE UNCHANGED <<published, queue>> /\ dedupe' \subseteq dedupe
      BY <1>1, <1>3, <1>4, <1>5
<1>6. ASSUME NEW e \in Event, Publish(e), UNCHANGED dedupe PROVE Kept
  <2>1. CASE UNCHANGED <<published, queue>>
        BY <1>5, <1>6, <2>1
  <2>2. CASE published' = Append(published, e) /\ queue' = queue \cup {Len(published) + 1}
    <3>1. Len(published') = Len(published) + 1 /\ Len(published) \in Nat
          BY <2>2 DEF TypeInv
    <3>2. \A i \in 1 .. Len(published') : i \in 1 .. Len(published) \/ i = Len(published) + 1
          BY <3>1
    <3>3. QED
          BY <1>1, <1>3, <1>4, <1>6, <2>2, <3>2, Zenon
  <2>3. QED
        BY <1>6, <2>1, <2>2 DEF Publish
<1>7. ASSUME NEW h \in Handlers, Deliver(h) PROVE Kept
  <2>1. PICK i \in Ids : Take(h, i) /\ seenEvent(h, i)
        BY <1>7 DEF Deliver
  <2>2. UNCHANGED published
        BY <1>7 DEF Deliver
  <2>3. CASE i \in dedupe /\ queue' = queue \ {i} /\ UNCHANGED dedupe
        BY <1>1, <1>3, <1>4, <2>2, <2>3, Zenon
  <2>4. CASE /\ dedupe' \subseteq dedupe \cup {i} /\ UNCHANGED queue
             /\ job' = [job EXCEPT ![h] = [event |-> i, step |-> "create"]]
    <3>1. job'[h] = [event |-> i, step |-> "create"]
          BY <2>4 DEF TypeInv
    <3>2. job'[h] # Idle /\ job'[h].event = i
      <4>1. i \in Nat
            BY DEF Ids
      <4>2. QED
            BY <3>1, <4>1, BusyIsNotIdle
    <3>3. Cared(i)'
          BY <3>2 DEF Cared
    <3>4. QED
          BY <1>1, <1>3, <1>4, <2>2, <2>4, <3>3, Zenon
  <2>5. QED
        BY <2>1, <2>3, <2>4 DEF seenEvent
<1>8. ASSUME NEW h \in Handlers, Create(h) \/ Push(h) PROVE Kept
  <2>1. UNCHANGED <<published, dedupe>>
        BY <1>8, Zenon DEF Create, Push
  <2>2. \/ UNCHANGED queue
        \/ queue' = queue \ {job[h].event} /\ Stored(job[h].event)
        BY <1>8 DEF Create, Push, Acknowledge, OnceInv, Pushing
  <2>3. Stored(job[h].event) => Cared(job[h].event)
        BY DEF Cared
  <2>4. QED
        BY <1>1, <1>3, <1>4, <2>1, <2>2, <2>3, Zenon
<1>9. CASE NotifSteps
      BY <1>5, <1>7, <1>8, <1>9 DEF NotifSteps, Crash, DedupeExpires
<1>10. CASE PlayerActs
       BY <1>5, <1>10, Zenon DEF PlayerActs, markRead, ActionExpires, takeAction
<1>11. CASE PairSteps
  <2>1. \A pr \in Pairs, k \in Kinds : [kind |-> k, one |-> pr[1], other |-> pr[2]] \in Event
        BY DEF Pairs, Event
  <2>2. "friendship.requested" \in Kinds /\ "friendship.accepted" \in Kinds
        BY DEF Kinds
  <2>3. QED
        BY <1>5, <1>6, <1>11, <2>1, <2>2, Zenon
        DEF PairSteps, notifVars, QuietNotifications, handleSendFriendRequest,
            handleAcceptFriendRequest, handleDeclineFriendRequest, handleBlockPlayer,
            handleUnblockPlayer, handleRemoveFriend, executeAcceptSideEffect, MutePlayer,
            UnmutePlayer
<1>12. QED
       BY <1>5, <1>6, <1>9, <1>10, <1>11, Zenon
       DEF PairNext, pairVars, notifVars, OtherEvents, QuietNotifications, SettingSteps,
           handleUpsertPlayerSettings

(***************************************************************************)
(* Friendships.                                                            *)
(***************************************************************************)
\* The addressee accepted on a notification of the request.
AcceptedNote(pr) == \E n \in notes :
    /\ n.type = "friend_request" /\ n.action = "accepted"
    /\ n.player = pr[2] /\ n.from = pr[1]

\* So they did before a call to user-service is in flight.
AgreeInv == FriendsAgreed /\ \A pr \in accepting : AcceptedNote(pr)

(* Both ways to a friendship start with the addressee.                     *)
LEMMA AgreeStep ==
    ASSUME TypeInv, AgreeInv, [PairNext]_pairVars
    PROVE  AgreeInv'
<1>1. \A pr : AcceptedNote(pr) => AcceptedNote(pr)'
  <2>1. NotesKept
        BY RowsKept
  <2>2. QED
        BY <2>1 DEF NotesKept, Becomes, AcceptedNote
<1>2. \A pr \in Pairs : friendship[pr] = "accepted" => pr \in answered \/ AcceptedNote(pr)
      BY DEF AgreeInv, FriendsAgreed, AcceptedNote
<1>3. \A pr \in accepting : AcceptedNote(pr)
      BY DEF AgreeInv
<1>4. ASSUME answered \subseteq answered',
             \A pr \in accepting' : pr \in accepting \/ AcceptedNote(pr)',
             \A pr \in Pairs : friendship'[pr] = "accepted" =>
                 friendship[pr] = "accepted" \/ pr \in answered' \/ AcceptedNote(pr)'
      PROVE  AgreeInv'
  <2>1. \A pr \in accepting' : AcceptedNote(pr)'
        BY <1>1, <1>3, <1>4, Zenon
  <2>2. \A pr \in Pairs : friendship'[pr] = "accepted" => pr \in answered' \/ AcceptedNote(pr)'
        BY <1>1, <1>2, <1>4
  <2>3. QED
        BY <2>1, <2>2 DEF AgreeInv, FriendsAgreed, AcceptedNote
<1>5. ASSUME NEW pr \in Pairs, NEW status, SetRow(pr, status)
      PROVE  friendship'[pr] = status /\ \A qr \in Pairs : qr # pr => friendship'[qr] = friendship[qr]
      BY <1>5 DEF SetRow, TypeInv
<1>6. ASSUME NEW pr \in Pairs,
             \/ handleSendFriendRequest(pr) \/ handleDeclineFriendRequest(pr)
             \/ handleBlockPlayer(pr) \/ handleUnblockPlayer(pr)
      PROVE  AgreeInv'
  <2>1. SetRow(pr, "pending") \/ SetRow(pr, "none") \/ SetRow(pr, "blocked")
        BY <1>6, Zenon
        DEF handleSendFriendRequest, handleDeclineFriendRequest, handleBlockPlayer,
            handleUnblockPlayer, SendFriendRequest, DeclineFriendRequest, BlockPlayer,
            UnblockPlayer
  <2>2. UNCHANGED <<answered, accepting>>
        BY <1>6
        DEF handleSendFriendRequest, handleDeclineFriendRequest, handleBlockPlayer,
            handleUnblockPlayer, QuietNotifications, notifVars
  <2>3. QED
        BY <1>4, <1>5, <2>1, <2>2, Zenon
<1>7. ASSUME NEW pr \in Pairs, handleAcceptFriendRequest(pr) PROVE AgreeInv'
  <2>1. SetRow(pr, "accepted") /\ answered' = answered \cup {pr} /\ UNCHANGED accepting
        BY <1>7 DEF handleAcceptFriendRequest, AcceptFriendRequest, QuietNotifications
  <2>2. QED
        BY <1>4, <1>5, <2>1, Zenon
<1>8. ASSUME NEW pr \in Pairs, handleRemoveFriend(pr) PROVE AgreeInv'
  <2>1. \A qr \in Pairs : friendship'[qr] = "accepted" => friendship[qr] = "accepted"
        BY <1>8 DEF handleRemoveFriend, RemoveFriend, TypeInv
  <2>2. UNCHANGED <<answered, accepting>>
        BY <1>8 DEF handleRemoveFriend, notifVars
  <2>3. QED
        BY <1>4, <2>1, <2>2
<1>9. ASSUME NEW pr \in Pairs, executeAcceptSideEffect(pr) PROVE AgreeInv'
  <2>1. /\ pr \in accepting /\ accepting' \subseteq accepting /\ UNCHANGED answered
        /\ SetRow(pr, "accepted") \/ UNCHANGED friendship
        BY <1>9 DEF executeAcceptSideEffect, grpcAcceptFriendRequest, AcceptFriendRequest
  <2>2. AcceptedNote(pr)'
        BY <1>1, <1>3, <2>1
  <2>3. QED
        BY <1>4, <1>5, <2>1, <2>2
<1>10. ASSUME NEW n \in notes, NEW a \in {"accepted", "declined"}, takeAction(n, a),
              UNCHANGED socialVars
       PROVE  AgreeInv'
  <2>1. PICK m \in NoteRow : Changed(n, m) /\ m.action = a
        BY <1>10, TakeChanges
  <2>2. m \in notes' /\ m.type = n.type /\ m.player = n.player /\ m.from = n.from
        BY <2>1 DEF Changed, Becomes
  <2>3. a = "accepted" /\ n.type = "friend_request" => AcceptedNote(<<n.from, n.player>>)'
    <3>1. SUFFICES ASSUME a = "accepted", n.type = "friend_request"
                   PROVE  AcceptedNote(<<n.from, n.player>>)'
          OBVIOUS
    <3>2. QED
          BY <2>1, <2>2, <3>1 DEF AcceptedNote
  <2>4. \/ UNCHANGED accepting
        \/ /\ a = "accepted" /\ n.type = "friend_request"
           /\ accepting' = accepting \cup {<<n.from, n.player>>}
        BY <1>10 DEF takeAction
  <2>5. QED
        BY <1>4, <1>10, <2>3, <2>4 DEF socialVars
<1>11. CASE UNCHANGED <<friendship, answered, accepting>>
       BY <1>4, <1>11
<1>12. CASE PlayerActs /\ UNCHANGED socialVars
  <2>1. ASSUME NEW n \in notes, markRead(n) \/ ActionExpires(n) PROVE UNCHANGED accepting
        BY <2>1, Zenon DEF markRead, ActionExpires
  <2>2. QED
        BY <1>10, <1>11, <1>12, <2>1 DEF PlayerActs, socialVars
<1>13. CASE NotifSteps /\ UNCHANGED socialVars
       BY <1>11, <1>13, Zenon
       DEF NotifSteps, Deliver, Create, Push, Crash, DedupeExpires, socialVars
<1>14. CASE PairSteps
       BY <1>6, <1>7, <1>8, <1>9, <1>11, <1>14, Zenon
       DEF PairSteps, MutePlayer, UnmutePlayer, notifVars
<1>15. QED
       BY <1>11, <1>12, <1>13, <1>14, Zenon
       DEF PairNext, pairVars, notifVars, socialVars, OtherEvents, QuietNotifications,
           SettingSteps, handleUpsertPlayerSettings

(***************************************************************************)
(* The theorems.                                                           *)
(***************************************************************************)
PairInv == TypeInv /\ OnceInv /\ LossInv /\ AgreeInv

(* Nothing is stored or queued at first, and every step keeps the          *)
(* invariant.                                                              *)
LEMMA PairInductive == PairSpec => []PairInv
<1>1. PairInit => PairInv
  <2> SUFFICES ASSUME PairInit PROVE PairInv
      OBVIOUS
  <2>1. published = <<>> /\ queue = {} /\ notes = {} /\ accepting = {} /\ dedupe = {}
        BY DEF PairInit, NotifInit
  <2>2. published \in Seq(Event) /\ Len(published) = 0
        BY <2>1
  <2>3. \A h \in Handlers : job[h] = Idle
        BY DEF PairInit, NotifInit
  <2>4. pushes \in [Ids -> Nat] /\ \A i \in Ids : pushes[i] = 0
        BY DEF PairInit, NotifInit
  <2>5. TypeInv
    <3>1. IsFiniteSet(notes)
          BY <2>1, FS_EmptySet
    <3>2. job \in [Handlers -> {Idle} \cup [event : 1 .. Len(published), step : {"create", "push"}]]
          BY DEF PairInit, NotifInit
    <3>3. friendship \in [Pairs -> {"none", "pending", "accepted", "blocked"}]
          BY DEF PairInit, SocialInit
    <3>4. QED
          BY <2>1, <2>2, <2>4, <3>1, <3>2, <3>3, NotificationAssumption DEF TypeInv
  <2>6. OnceInv
        BY <2>1, <2>3, <2>4 DEF OnceInv, Pushing
  <2>7. LossInv
        BY <2>1, <2>2 DEF LossInv, LostOnlyAfterFailure
  <2>8. AgreeInv
        BY <2>1 DEF PairInit, SocialInit, AgreeInv, FriendsAgreed
  <2>9. QED
        BY <2>5, <2>6, <2>7, <2>8 DEF PairInv
<1>2. PairInv /\ [PairNext]_pairVars => PairInv'
      BY TypeStep, OnceStep, LossStep, AgreeStep DEF PairInv
<1>3. QED
      BY <1>1, <1>2, PTL DEF PairSpec

(* seenEvent and the unique index on (player_id, source_event_id): however  *)
(* often an event is delivered, one row and at most one frame.             *)
THEOREM OneNotification == PairSpec => []NotifiedOnce
<1>1. PairInv => NotifiedOnce
  <2> SUFFICES ASSUME PairInv, NEW i \in Ids
               PROVE  Cardinality({n \in notes : n.src = i}) <= 1 /\ pushes[i] <= 1
      BY DEF NotifiedOnce
  <2>1. \A n, m \in notes : n.src = m.src => n = m
        BY DEF PairInv, OnceInv
  <2>2. CASE \E n \in notes : n.src = i
    <3>1. PICK n \in notes : n.src = i
          BY <2>2
    <3>2. {k \in notes : k.src = i} = {n}
          BY <2>1, <3>1
    <3>3. QED
          BY <3>2, FS_Singleton DEF PairInv, OnceInv
  <2>3. CASE ~\E n \in notes : n.src = i
    <3>1. {n \in notes : n.src = i} = {}
          BY <2>3
    <3>2. QED
          BY <3>1, FS_EmptySet DEF PairInv, OnceInv
  <2>4. QED
        BY <2>2, <2>3
<1>2. QED
      BY <1>1, PairInductive, PTL

(* An event is lost only if a handler failed on it or died with it.        *)
THEOREM NoSilentDrop == PairSpec => []LostOnlyAfterFailure
<1>1. PairInv => LostOnlyAfterFailure
      BY DEF PairInv, LossInv
<1>2. QED
      BY <1>1, PairInductive, PTL

(* SetAction: of two answers, or an answer and the expiry, the first       *)
(* stands.                                                                 *)
THEOREM FirstAnswerStands == PairSpec => AnswerIsFinal
<1> DEFINE Final == \A n \in notes : \E m \in notes' :
                      /\ m.id = n.id
                      /\ n.action # "none" => m.action = n.action
                      /\ n.expired => m.action = n.action /\ m.expired
<1>1. PairInv /\ [PairNext]_pairVars => [Final]_notifVars
  <2> SUFFICES ASSUME PairInv, [PairNext]_pairVars PROVE Final
      OBVIOUS
  <2>1. NotesKept
        BY RowsKept DEF PairInv
  <2>2. QED
        BY <2>1 DEF NotesKept, Becomes
<1>2. QED
      BY <1>1, PairInductive, PTL DEF PairSpec, AnswerIsFinal

(* AcceptFriendRequest over REST or gRPC: no friendship without its        *)
(* addressee's answer.                                                     *)
THEOREM FriendsBothAgreed == PairSpec => []FriendsAgreed
<1>1. PairInv => FriendsAgreed
      BY DEF PairInv, AgreeInv
<1>2. QED
      BY <1>1, PairInductive, PTL

(* BlockPlayer: a block ends by the hand of the player who made it.        *)
THEOREM BlocksHold == PairSpec => BlockHolds
<1> DEFINE Held == \A pr \in Pairs :
        friendship[pr] = "blocked" /\ friendship'[pr] # "blocked"
            => UnblockPlayer(pr) \/ RemoveFriend(pr)
<1>1. PairInv /\ [PairNext]_pairVars => [Held]_<<socialVars, notifVars>>
  <2> SUFFICES ASSUME PairInv, [PairNext]_pairVars PROVE Held
      OBVIOUS
  <2> USE DEF PairInv, TypeInv
  <2>1. CASE UNCHANGED friendship
        BY <2>1
  <2>2. ASSUME NEW pr \in Pairs,
               SendFriendRequest(pr) \/ AcceptFriendRequest(pr) \/ DeclineFriendRequest(pr)
               \/ BlockPlayer(pr)
        PROVE  Held
        BY <2>2 DEF SendFriendRequest, AcceptFriendRequest, DeclineFriendRequest, BlockPlayer, SetRow
  <2>3. ASSUME NEW pr \in Pairs, UnblockPlayer(pr) PROVE Held
    <3>1. \A qr \in Pairs : qr # pr => friendship'[qr] = friendship[qr]
          BY <2>3 DEF UnblockPlayer, SetRow
    <3>2. QED
          BY <2>3, <3>1
  <2>4. ASSUME NEW pr \in Pairs, RemoveFriend(pr) PROVE Held
    <3>1. \A qr \in Pairs : qr # pr /\ friendship[qr] = "blocked" => friendship'[qr] = "blocked"
          BY <2>4, Zenon DEF RemoveFriend
    <3>2. QED
          BY <2>4, <3>1
  <2>5. CASE PairSteps
        BY <2>1, <2>2, <2>3, <2>4, <2>5
        DEF PairSteps, handleSendFriendRequest, handleAcceptFriendRequest,
            handleDeclineFriendRequest, handleBlockPlayer, handleUnblockPlayer,
            handleRemoveFriend, executeAcceptSideEffect, grpcAcceptFriendRequest, MutePlayer,
            UnmutePlayer
  <2>6. QED
        BY <2>1, <2>5
        DEF PairNext, pairVars, socialVars, OtherEvents, SettingSteps, handleUpsertPlayerSettings
<1>2. QED
      BY <1>1, PairInductive, PTL DEF PairSpec, BlockHolds

(* Together: what notification-service promises about an event, whatever    *)
(* is delivered again, fails or dies (seenEvent, Create, SetAction).       *)
THEOREM NotificationsAreSound == PairSpec => NotificationsSound
BY OneNotification, NoSilentDrop, FirstAnswerStands, PTL DEF NotificationsSound

(* Rows are between two different players, and a player's settings are a   *)
(* map with every key set or left out (UpsertPlayerSettings).              *)
LEMMA SocialTyped == PairSpec => []SocialTypeOK
<1>1. PairInit => SocialTypeOK
      BY DEF PairInit, SocialInit, SocialTypeOK
<1>2. PairInv /\ PairInv' /\ SocialTypeOK /\ [PairNext]_pairVars => SocialTypeOK'
  <2> SUFFICES ASSUME PairInv', SocialTypeOK, [PairNext]_pairVars PROVE SocialTypeOK'
      OBVIOUS
  <2>1. friendship' \in [Pairs -> {"none", "pending", "accepted", "blocked"}]
        BY DEF PairInv, TypeInv
  <2>2. CASE PairSteps
    <3>1. PICK pr \in Pairs :
            \/ answered' = answered \cup {pr} /\ UNCHANGED <<mutes, settings>>
            \/ (mutes' = mutes \cup {pr} \/ mutes' = mutes \ {pr}) /\ UNCHANGED <<answered, settings>>
            \/ UNCHANGED <<answered, mutes, settings>>
          BY <2>2
          DEF PairSteps, handleSendFriendRequest, handleAcceptFriendRequest,
              handleDeclineFriendRequest, handleBlockPlayer, handleUnblockPlayer,
              handleRemoveFriend, executeAcceptSideEffect, MutePlayer, UnmutePlayer
    <3>2. QED
          BY <2>1, <3>1, Zenon DEF SocialTypeOK
  <2>3. CASE SettingSteps
        BY <2>1, <2>3 DEF SettingSteps, handleUpsertPlayerSettings, UpsertPlayerSettings, SocialTypeOK
  <2>4. QED
        BY <2>1, <2>2, <2>3 DEF PairNext, pairVars, socialVars, OtherEvents, SocialTypeOK
<1>3. QED
      BY <1>1, <1>2, PairInductive, PTL DEF PairSpec

(* Together: what two players can rely on, whichever of REST, gRPC and      *)
(* notifications they use (store_friendships.go).                          *)
THEOREM FriendshipsAreSound == PairSpec => FriendshipsSound
BY SocialTyped, FriendsBothAgreed, BlocksHold, PTL DEF FriendshipsSound

(***************************************************************************)
(* chat-service on top of user-service, for any number of players and      *)
(* messages: sends, reads and reports among changes of friendships, seats  *)
(* and settings.                                                           *)
(***************************************************************************)
ChatSteps ==
    \/ \E p, q \in Players : handleSendDM(p, q)
    \/ \E p \in Players : \/ CheckFriends(p) \/ SaveDM(p)
                          \/ handleSendRoomMessage(p) \/ SaveRoomMessage(p) \/ Reseat(p)
    \/ handleMarkDMRead \/ handleReportDM \/ handleReportRoomMessage \/ handleHideRoomMessage

ChatNext ==
    \/ ChatSteps
    \/ PairNext /\ Watched /\ UNCHANGED <<dmReq, dms, seated, roomReq, room>>

ChatSpec == PairInit /\ ChatInit /\ [][ChatNext]_<<chatVars, pairVars>>

ChatTyped ==
    /\ dmReq \in [Players -> {Idle} \cup [to : Players, step : {"friends", "save"}]]
    /\ dms \in Seq(DM) /\ room \in Seq(RoomMessage)
    /\ roomReq \in [Players -> {Idle, "save"}]
    /\ against \in [Players -> [closed : BOOLEAN, strangers : BOOLEAN, unseated : BOOLEAN]]

\* A table stays a table when a row is added or changed.
LEMMA RowsStay ==
    ASSUME NEW S, NEW s \in Seq(S), NEW e \in S
    PROVE  Append(s, e) \in Seq(S) /\ \A i \in DOMAIN s : [s EXCEPT ![i] = e] \in Seq(S)
OBVIOUS

\* A wish that has stood since a request began: the receiver who accepts nobody was
\* never asked, and friends are still to be asked for.
Gated(p) ==
    /\ dmReq[p] # Idle =>
          /\ ~against[p].closed
          /\ dmReq[p].step = "save" => ~against[p].strangers
          /\ against[p].strangers => GetAllowDMs(dmReq[p].to) # "anyone" /\ ~Friends(p, dmReq[p].to)
    /\ roomReq[p] = "save" => ~against[p].unseated

ChatInv ==
    /\ ChatTyped /\ \A p \in Players : Gated(p)
    /\ WishesRespected /\ SeatedAuthors /\ ReceiptOnce

LEMMA ChatBegins == ChatInit => ChatInv
<1> SUFFICES ASSUME ChatInit PROVE ChatInv
      OBVIOUS
<1>1. ChatTyped
      BY DEF ChatInit, ChatTyped, Clean
<1>2. \A p \in Players : Gated(p)
      BY DEF ChatInit, Gated, Clean
<1>3. WishesRespected /\ SeatedAuthors /\ ReceiptOnce
      BY DEF ChatInit, WishesRespected, SeatedAuthors, ReceiptOnce
<1> QED
      BY <1>1, <1>2, <1>3, Zenon DEF ChatInv

\* A step that stores and changes no message.
LEMMA NoMessageKeeps ==
    ASSUME ChatInv, ChatTyped', \A p \in Players : Gated(p)', UNCHANGED <<dms, room>>
    PROVE  ChatInv'
      BY DEF ChatInv, WishesRespected, SeatedAuthors, ReceiptOnce

LEMMA SendDMKeeps ==
    ASSUME ChatInv, SocialTypeOK, NEW p \in Players, NEW q \in Players, handleSendDM(p, q)
    PROVE  ChatInv'
<1>1. PICK failed \in BOOLEAN :
        LET allow == IF failed THEN "anyone" ELSE GetAllowDMs(q) IN
        /\ allow # "nobody"
        /\ dmReq' = [dmReq EXCEPT ![p] =
               [to |-> q, step |-> IF allow = "friends_only" THEN "friends" ELSE "save"]]
        /\ against' = [against EXCEPT ![p] =
               [closed |-> ~failed /\ GetAllowDMs(q) = "nobody",
                strangers |-> ~failed /\ GetAllowDMs(q) # "anyone" /\ ~Friends(p, q),
                unseated |-> against[p].unseated]]
      BY Zenon DEF handleSendDM
<1>2. UNCHANGED <<dms, seated, roomReq, room>> /\ UNCHANGED <<friendship, settings>>
      BY DEF handleSendDM, QuietSocial, socialVars
<1> DEFINE rec == [to |-> q, step |-> IF (IF failed THEN "anyone" ELSE GetAllowDMs(q)) = "friends_only"
                                      THEN "friends" ELSE "save"]
<1> DEFINE held == [closed |-> ~failed /\ GetAllowDMs(q) = "nobody",
                    strangers |-> ~failed /\ GetAllowDMs(q) # "anyone" /\ ~Friends(p, q),
                    unseated |-> against[p].unseated]
<1>3. dmReq' = [dmReq EXCEPT ![p] = rec]
      BY <1>1
<1>4. against' = [against EXCEPT ![p] = held]
      BY <1>1, Zenon
<1>5. rec \in [to : Players, step : {"friends", "save"}]
      BY Zenon
<1>6. held \in [closed : BOOLEAN, strangers : BOOLEAN, unseated : BOOLEAN]
      BY DEF ChatInv, ChatTyped
<1>7. GetAllowDMs(q) \in {"nobody", "friends_only", "anyone"}
      BY DEF SocialTypeOK, SettingMap, Privacy, GetAllowDMs
<1>8. /\ ~held.closed /\ (held.unseated <=> against[p].unseated)
      /\ rec.step = "save" => ~held.strangers
      /\ rec.to = q
      /\ held.strangers => GetAllowDMs(q) # "anyone" /\ ~Friends(p, q)
      BY <1>1, <1>7, Zenon
<1> HIDE DEF rec, held
<1>9. ChatTyped'
      BY <1>2, <1>3, <1>4, <1>5, <1>6, Zenon DEF ChatInv, ChatTyped
<1>10. ASSUME NEW r \in Players PROVE Gated(r)'
  <2>1. CASE r = p
    <3>1. dmReq'[r] = rec /\ against'[r] = held
          BY <1>3, <1>4, <2>1, Zenon DEF ChatInv, ChatTyped
    <3>2. roomReq'[r] = "save" => ~held.unseated
          BY <1>2, <1>8, <2>1, Zenon DEF ChatInv, Gated
    <3>3. /\ GetAllowDMs(q)' = GetAllowDMs(q)
          /\ Friends(p, q)' <=> Friends(p, q)
          BY <1>2, Zenon DEF GetAllowDMs, Friends
    <3>4. /\ dmReq'[r].to = q /\ (dmReq'[r].step = "save" => ~against'[r].strangers)
          /\ ~against'[r].closed
          /\ roomReq'[r] = "save" => ~against'[r].unseated
          /\ against'[r].strangers => GetAllowDMs(q)' # "anyone" /\ ~Friends(r, q)'
          BY <1>8, <2>1, <3>1, <3>2, <3>3, Zenon
    <3>5. QED
          BY <3>4 DEF Gated
  <2>2. CASE r # p
    <3>1. dmReq'[r] = dmReq[r] /\ against'[r] = against[r]
          BY <1>3, <1>4, <2>2 DEF ChatInv, ChatTyped
    <3>2. QED
          BY <1>2, <3>1, Zenon DEF ChatInv, Gated, GetAllowDMs, Friends
  <2>3. QED
        BY <2>1, <2>2, Zenon
<1>11. QED
      BY <1>2, <1>9, <1>10, NoMessageKeeps

LEMMA CheckFriendsKeeps ==
    ASSUME ChatInv, SocialTypeOK, NEW p \in Players, CheckFriends(p)
    PROVE  ChatInv'
<1>1. UNCHANGED <<dms, seated, roomReq, room, against>> /\ UNCHANGED <<friendship, settings>>
      BY DEF CheckFriends, QuietSocial, socialVars
<1>2. dmReq[p] # Idle /\ dmReq[p].step = "friends"
      BY DEF CheckFriends
<1> DEFINE q == dmReq[p].to
<1>3. CASE dmReq' = [dmReq EXCEPT ![p] = Idle]
  <2>1. ChatTyped'
        BY <1>1, <1>3, Zenon DEF ChatInv, ChatTyped
  <2>2. ASSUME NEW r \in Players PROVE Gated(r)'
        BY <1>1, <1>3 DEF ChatInv, ChatTyped, Gated, GetAllowDMs, Friends
  <2>3. QED
        BY <1>1, <2>1, <2>2, NoMessageKeeps, Zenon
<1>4. CASE TRUE \in AreFriends(p, q) /\ dmReq' = [dmReq EXCEPT ![p].step = "save"]
  <2>1. PICK status \in grpcGetFriendship(p, q) : status = "accepted"
        BY <1>4, Zenon DEF AreFriends
  <2>2. Friends(p, q)
        BY <2>1, Zenon DEF grpcGetFriendship, GetFriendship, Friends
  <2>3. ~against[p].strangers
        BY <1>2, <2>2, Zenon DEF ChatInv, Gated
  <2>4. dmReq[p] \in [to : Players, step : {"friends", "save"}]
        BY <1>2 DEF ChatInv, ChatTyped
  <2>5. dmReq' = [dmReq EXCEPT ![p] = [to |-> q, step |-> "save"]]
    <3>1. [dmReq[p] EXCEPT !.step = "save"] = [to |-> q, step |-> "save"]
          BY <2>4
    <3>2. QED
          BY <1>4, <3>1, Zenon
  <2>6. ChatTyped'
        BY <1>1, <2>4, <2>5, Zenon DEF ChatInv, ChatTyped
  <2>7. ASSUME NEW r \in Players PROVE Gated(r)'
        BY <1>1, <1>2, <2>3, <2>5, Zenon DEF ChatInv, ChatTyped, Gated, GetAllowDMs, Friends
  <2>8. QED
        BY <1>1, <2>6, <2>7, NoMessageKeeps
<1>5. QED
      BY <1>3, <1>4, Zenon DEF CheckFriends

LEMMA SaveDMKeeps ==
    ASSUME ChatInv, NEW p \in Players, SaveDM(p)
    PROVE  ChatInv'
<1>1. UNCHANGED <<seated, roomReq, room, against>> /\ UNCHANGED <<friendship, settings>>
      BY Zenon DEF SaveDM, QuietSocial, socialVars
<1>2. ~against[p].closed /\ ~against[p].strangers
      BY Zenon DEF SaveDM, ChatInv, Gated
<1>3. PICK m \in DM : /\ dms' = Append(dms, m)
                      /\ m.receipts = 0 /\ ~m.read /\ ~m.unwanted
  <2> DEFINE u == against[p].closed \/ against[p].strangers
  <2>1. dmReq[p].to \in Players
        BY Zenon DEF SaveDM, ChatInv, ChatTyped
  <2>2. u = FALSE
        BY <1>2
  <2> DEFINE m == [from |-> p, to |-> dmReq[p].to, read |-> FALSE, receipts |-> 0,
                   reported |-> FALSE, unwanted |-> FALSE]
  <2>3. dms' = Append(dms, m)
        BY <2>2, Zenon DEF SaveDM
  <2>4. m \in DM
    <3>1. 0 \in 0 .. 2
          OBVIOUS
    <3>2. QED
          BY <2>1, <3>1, Zenon DEF DM
  <2>5. QED
        BY <2>3, <2>4, Zenon
<1>4. dmReq' = [dmReq EXCEPT ![p] = Idle]
      BY Zenon DEF SaveDM
<1>5. ChatTyped'
      BY <1>1, <1>3, <1>4, RowsStay, Zenon DEF ChatInv, ChatTyped
<1>6. ASSUME NEW r \in Players PROVE Gated(r)'
      BY <1>1, <1>4, Zenon DEF ChatInv, ChatTyped, Gated, GetAllowDMs, Friends
<1>7. ASSUME NEW i \in DOMAIN dms' PROVE dms'[i] = m \/ (i \in DOMAIN dms /\ dms'[i] = dms[i])
      BY <1>3 DEF ChatInv, ChatTyped
<1>8. WishesRespected' /\ SeatedAuthors'
      BY <1>1, <1>3, <1>7, Zenon DEF ChatInv, WishesRespected, SeatedAuthors
<1>9. ReceiptOnce'
      BY <1>3, <1>7 DEF ChatInv, ReceiptOnce
<1>10. QED
      BY <1>5, <1>6, <1>8, <1>9, Zenon DEF ChatInv

\* Direct message i turns into m, and nothing else changes.
MessageBecomes(i, m) ==
    /\ m \in DM /\ dms' = [dms EXCEPT ![i] = m]
    /\ m.unwanted <=> dms[i].unwanted
    /\ m.receipts = IF m.read THEN 1 ELSE 0

LEMMA MessageKeeps ==
    ASSUME ChatInv, NEW i \in DOMAIN dms, NEW m, MessageBecomes(i, m),
           UNCHANGED <<dmReq, roomReq, room, against, friendship, settings>>
    PROVE  ChatInv'
<1>1. ChatTyped'
      BY RowsStay, Zenon DEF ChatInv, ChatTyped, MessageBecomes
<1>2. ASSUME NEW r \in Players PROVE Gated(r)'
      BY DEF ChatInv, Gated, GetAllowDMs, Friends
<1>3. DOMAIN dms' = DOMAIN dms /\ \A k \in DOMAIN dms : dms'[k] = IF k = i THEN m ELSE dms[k]
      BY DEF MessageBecomes
<1>4. WishesRespected' /\ SeatedAuthors'
      BY <1>3 DEF ChatInv, WishesRespected, SeatedAuthors, MessageBecomes
<1>5. ReceiptOnce'
      BY <1>3 DEF ChatInv, ReceiptOnce, MessageBecomes
<1>6. QED
      BY <1>1, <1>2, <1>4, <1>5 DEF ChatInv

LEMMA ReadKeeps ==
    ASSUME ChatInv, handleMarkDMRead \/ handleReportDM
    PROVE  ChatInv'
<1>1. UNCHANGED <<dmReq, roomReq, room, against, friendship, settings>>
      BY DEF handleMarkDMRead, handleReportDM, QuietSocial, socialVars
<1>2. CASE handleMarkDMRead
  <2>1. PICK i \in DOMAIN dms, p \in Players : MarkDMRead(i, p)
        BY <1>2 DEF handleMarkDMRead
  <2>2. dms[i] \in DM /\ dms[i].receipts = 0
        BY <2>1 DEF ChatInv, ChatTyped, ReceiptOnce, MarkDMRead
  <2> DEFINE k == [dms[i] EXCEPT !.read = TRUE]
  <2>7. k \in DM /\ (k.unwanted <=> dms[i].unwanted) /\ k.read /\ k.receipts = 0
        BY <2>2, Zenon DEF DM
  <2> DEFINE m == [k EXCEPT !.receipts = 1]
  <2>4. dms' = [dms EXCEPT ![i] = m]
    <3> DEFINE d == [dms EXCEPT ![i] = k]
    <3>1. dms' = [d EXCEPT ![i].receipts = IF @ < 2 THEN @ + 1 ELSE @]
          BY <2>1, Zenon DEF MarkDMRead
    <3>2. DOMAIN d = DOMAIN dms /\ d[i] = k
          OBVIOUS
    <3>3. (IF k.receipts < 2 THEN k.receipts + 1 ELSE k.receipts) = 1
          BY <2>7
    <3>4. dms' = [d EXCEPT ![i] = [k EXCEPT !.receipts = 1]]
          BY <3>1, <3>2, <3>3, Zenon
    <3>5. QED
          BY <3>4, Zenon
  <2> HIDE DEF k
  <2>3. m \in DM /\ (m.unwanted <=> dms[i].unwanted) /\ m.read /\ m.receipts = 1
        BY <2>7 DEF DM
  <2>5. MessageBecomes(i, m)
    <3> HIDE DEF m
    <3> QED
        BY <2>3, <2>4 DEF MessageBecomes
  <2>6. QED
        BY <1>1, <2>5, MessageKeeps, Zenon
<1>3. CASE handleReportDM
  <2>1. PICK i \in DOMAIN dms : ReportDM(i)
        BY <1>3, Zenon DEF handleReportDM
  <2>2. dms[i] \in DM /\ dms[i].receipts = IF dms[i].read THEN 1 ELSE 0
        BY DEF ChatInv, ChatTyped, ReceiptOnce
  <2> DEFINE m == [dms[i] EXCEPT !.reported = TRUE]
  <2>3. m \in DM /\ (m.unwanted <=> dms[i].unwanted) /\ m.receipts = IF m.read THEN 1 ELSE 0
        BY <2>2, Zenon DEF DM
  <2>4. dms' = [dms EXCEPT ![i] = m]
        BY <2>1 DEF ReportDM
  <2>5. MessageBecomes(i, m)
    <3> HIDE DEF m
    <3> QED
        BY <2>3, <2>4 DEF MessageBecomes
  <2>6. QED
        BY <1>1, <2>5, MessageKeeps
<1>4. QED
      BY <1>2, <1>3

\* Room message i turns into m, and nothing else changes.
LEMMA RoomMessageKeeps ==
    ASSUME ChatInv, handleReportRoomMessage \/ handleHideRoomMessage
    PROVE  ChatInv'
<1>1. UNCHANGED <<dmReq, roomReq, dms, against, friendship, settings>>
      BY DEF handleReportRoomMessage, handleHideRoomMessage, QuietSocial, socialVars
<1>2. PICK i \in DOMAIN room :
        \/ room' = [room EXCEPT ![i] = [room[i] EXCEPT !.reported = TRUE]]
        \/ room' = [room EXCEPT ![i] = [room[i] EXCEPT !.hidden = TRUE]]
      BY DEF handleReportRoomMessage, handleHideRoomMessage, ReportRoomMessage, HideRoomMessage
<1>3. room[i] \in RoomMessage
      BY DEF ChatInv, ChatTyped
<1>4. PICK m \in RoomMessage : room' = [room EXCEPT ![i] = m] /\ (m.stranger <=> room[i].stranger)
  <2>1. /\ [room[i] EXCEPT !.reported = TRUE] \in RoomMessage
        /\ [room[i] EXCEPT !.hidden = TRUE] \in RoomMessage
        /\ [room[i] EXCEPT !.reported = TRUE].stranger <=> room[i].stranger
        /\ [room[i] EXCEPT !.hidden = TRUE].stranger <=> room[i].stranger
        BY <1>3, Zenon DEF RoomMessage
  <2>2. QED
        BY <1>2, <2>1, Zenon
<1>5. ChatTyped'
      BY <1>1, <1>4, RowsStay, Zenon DEF ChatInv, ChatTyped
<1>6. ASSUME NEW r \in Players PROVE Gated(r)'
      BY <1>1 DEF ChatInv, Gated, GetAllowDMs, Friends
<1>7. SeatedAuthors'
      BY <1>4, Zenon DEF ChatInv, SeatedAuthors
<1>8. WishesRespected' /\ ReceiptOnce'
      BY <1>1 DEF ChatInv, WishesRespected, ReceiptOnce
<1>9. QED
      BY <1>5, <1>6, <1>7, <1>8, Zenon DEF ChatInv

LEMMA SaveRoomMessageKeeps ==
    ASSUME ChatInv, NEW p \in Players, SaveRoomMessage(p)
    PROVE  ChatInv'
<1>1. UNCHANGED <<dmReq, dms, against, friendship, settings>>
      BY Zenon DEF SaveRoomMessage, QuietSocial, socialVars
<1>2. against[p].unseated = FALSE
      BY Zenon DEF SaveRoomMessage, ChatInv, ChatTyped, Gated
<1>3. PICK m \in RoomMessage : room' = Append(room, m) /\ ~m.stranger
  <2> DEFINE m == [player |-> p, reported |-> FALSE, hidden |-> FALSE, stranger |-> FALSE]
  <2>1. m \in RoomMessage /\ ~m.stranger
        BY DEF RoomMessage
  <2>2. room' = Append(room, m)
        BY <1>2, Zenon DEF SaveRoomMessage
  <2>3. QED
        BY <2>1, <2>2
<1>4. roomReq' = [roomReq EXCEPT ![p] = Idle]
      BY Zenon DEF SaveRoomMessage
<1>5. ChatTyped'
      BY <1>1, <1>3, <1>4, RowsStay, Zenon DEF ChatInv, ChatTyped
<1>6. ASSUME NEW r \in Players PROVE Gated(r)'
  <2>1. ~against[r].unseated \/ (r # p /\ roomReq'[r] # "save")
        BY <1>2, <1>4, Zenon DEF ChatInv, ChatTyped, Gated
  <2>2. QED
        BY <1>1, <2>1, Zenon DEF ChatInv, Gated, GetAllowDMs, Friends
<1>7. ASSUME NEW i \in DOMAIN room' PROVE room'[i] = m \/ (i \in DOMAIN room /\ room'[i] = room[i])
      BY <1>3 DEF ChatInv, ChatTyped
<1>8. SeatedAuthors'
      BY <1>3, <1>7, Zenon DEF ChatInv, SeatedAuthors
<1>9. WishesRespected' /\ ReceiptOnce'
      BY <1>1 DEF ChatInv, WishesRespected, ReceiptOnce
<1>10. QED
      BY <1>5, <1>6, <1>8, <1>9 DEF ChatInv

\* A step that changes the seats and, for one player, what it means to a room message.
LEMMA SeatKeeps ==
    ASSUME ChatInv, NEW p \in Players, handleSendRoomMessage(p) \/ Reseat(p)
    PROVE  ChatInv'
<1>1. UNCHANGED <<dmReq, dms, room, friendship, settings>>
      BY DEF handleSendRoomMessage, Reseat, QuietSocial, socialVars
<1>2. PICK u \in BOOLEAN :
        /\ against' = [against EXCEPT ![p] = [against[p] EXCEPT !.unseated = u]]
        /\ \/ roomReq' = [roomReq EXCEPT ![p] = "save"] /\ ~u
           \/ UNCHANGED roomReq /\ (u => against[p].unseated)
  <2>1. CASE handleSendRoomMessage(p)
    <3>1. /\ against' = [against EXCEPT ![p] = [against[p] EXCEPT !.unseated = FALSE]]
          /\ roomReq' = [roomReq EXCEPT ![p] = "save"]
          BY <2>1, Zenon DEF handleSendRoomMessage, IsRoomParticipant
    <3>2. QED
          BY <3>1, Zenon
  <2>2. CASE Reseat(p)
    <3> DEFINE u == against[p].unseated /\ p \notin seated'
    <3>1. against' = [against EXCEPT ![p] = [against[p] EXCEPT !.unseated = u]] /\ UNCHANGED roomReq
          BY <2>2, Zenon DEF Reseat
    <3>2. u \in BOOLEAN /\ (u => against[p].unseated)
          OBVIOUS
    <3> HIDE DEF u
    <3>3. QED
          BY <3>1, <3>2, Zenon
  <2>3. QED
        BY <2>1, <2>2
<1>3. PICK m \in [closed : BOOLEAN, strangers : BOOLEAN, unseated : BOOLEAN] :
        /\ against' = [against EXCEPT ![p] = m]
        /\ m.closed <=> against[p].closed
        /\ m.strangers <=> against[p].strangers
        /\ m.unseated <=> u
  <2> DEFINE m == [against[p] EXCEPT !.unseated = u]
  <2>1. against[p] \in [closed : BOOLEAN, strangers : BOOLEAN, unseated : BOOLEAN]
        BY DEF ChatInv, ChatTyped
  <2>2. /\ m \in [closed : BOOLEAN, strangers : BOOLEAN, unseated : BOOLEAN]
        /\ m.closed <=> against[p].closed
        /\ m.strangers <=> against[p].strangers
        /\ m.unseated <=> u
        BY <2>1, Zenon
  <2> HIDE DEF m
  <2>3. QED
        BY <1>2, <2>2, Zenon DEF m
<1>4. ChatTyped'
  <2>1. roomReq' \in [Players -> {Idle, "save"}]
        BY <1>2, Zenon DEF ChatInv, ChatTyped
  <2>2. against' \in [Players -> [closed : BOOLEAN, strangers : BOOLEAN, unseated : BOOLEAN]]
        BY <1>3 DEF ChatInv, ChatTyped
  <2>3. QED
        BY <1>1, <2>1, <2>2 DEF ChatInv, ChatTyped
<1>5. ASSUME NEW r \in Players PROVE Gated(r)'
  <2>1. CASE r # p
    <3>1. against'[r] = against[r] /\ roomReq'[r] = roomReq[r]
          BY <1>2, <1>3, <2>1, Zenon DEF ChatInv, ChatTyped
    <3>2. QED
          BY <1>1, <3>1, Zenon DEF ChatInv, Gated, GetAllowDMs, Friends
  <2>2. CASE r = p
    <3>1. against'[p] = m /\ (roomReq'[p] = "save" => ~u)
          BY <1>2, <1>3 DEF ChatInv, ChatTyped, Gated
    <3>2. QED
          BY <1>1, <1>3, <2>2, <3>1 DEF ChatInv, Gated, GetAllowDMs, Friends
  <2>3. QED
        BY <2>1, <2>2, Zenon
<1>6. QED
      BY <1>1, <1>4, <1>5, NoMessageKeeps

\* What user-service does in the meantime ends a wish and never makes one.
LEMMA WatchedKeeps ==
    ASSUME ChatInv, Watched, UNCHANGED <<dmReq, dms, seated, roomReq, room>>
    PROVE  ChatInv'
<1> DEFINE Held == [closed : BOOLEAN, strangers : BOOLEAN, unseated : BOOLEAN]
<1>1. ASSUME NEW p \in Players
      PROVE  /\ against'[p] \in Held
             /\ against'[p].closed => against[p].closed
             /\ against'[p].strangers => against[p].strangers
             /\ against'[p].unseated <=> against[p].unseated
             /\ dmReq[p] # Idle /\ against'[p].strangers =>
                   (GetAllowDMs(dmReq[p].to))' # "anyone" /\ ~Friends(p, dmReq[p].to)'
  <2>1. against[p] \in Held
        BY Zenon DEF ChatInv, ChatTyped
  <2>2. CASE dmReq[p] = Idle
    <3>1. against'[p] = against[p]
          BY <2>2, Zenon DEF Watched
    <3>2. QED
          BY <2>1, <2>2, <3>1
  <2>3. CASE dmReq[p] # Idle
    <3> DEFINE q == dmReq[p].to
               c == against[p].closed /\ (GetAllowDMs(q))' = "nobody"
               k == [against[p] EXCEPT !.closed = c]
               z == k.strangers /\ (GetAllowDMs(q))' # "anyone" /\ ~Friends(p, q)'
               m == [k EXCEPT !.strangers = z]
    <3>1. against'[p] = m
          BY <2>3, Zenon DEF Watched
    <3>2. c \in BOOLEAN /\ (c => against[p].closed)
          OBVIOUS
    <3> HIDE DEF c
    <3>3. /\ k \in Held /\ (k.closed <=> c)
          /\ k.strangers <=> against[p].strangers
          /\ k.unseated <=> against[p].unseated
          BY <2>1, <3>2, Zenon
    <3> HIDE DEF k
    <3>4. z \in BOOLEAN /\ (z => k.strangers /\ (GetAllowDMs(q))' # "anyone" /\ ~Friends(p, q)')
          OBVIOUS
    <3> HIDE DEF z
    <3>5. /\ m \in Held /\ (m.closed <=> k.closed)
          /\ m.strangers <=> z
          /\ m.unseated <=> k.unseated
          BY <3>3, <3>4, Zenon
    <3> HIDE DEF m
    <3>6. QED
          BY <3>1, <3>2, <3>3, <3>4, <3>5
  <2>4. QED
        BY <2>2, <2>3, Zenon
<1>2. ChatTyped'
  <2>1. against' = [p \in Players |-> against'[p]]
        BY Zenon DEF Watched
  <2>2. against' \in [Players -> Held]
        BY <1>1, <2>1, Zenon
  <2>3. QED
        BY <2>2 DEF ChatInv, ChatTyped
<1>3. ASSUME NEW r \in Players PROVE Gated(r)'
      BY <1>1, Zenon DEF ChatInv, Gated
<1>4. QED
      BY <1>2, <1>3, NoMessageKeeps, Zenon

LEMMA StillChat == ASSUME ChatInv, UNCHANGED <<chatVars, pairVars>> PROVE ChatInv'
<1>1. UNCHANGED <<dmReq, dms, roomReq, room, against, friendship, settings>>
      BY Zenon DEF chatVars, pairVars, socialVars
<1>2. ASSUME NEW r \in Players PROVE Gated(r)'
      BY <1>1 DEF ChatInv, Gated, GetAllowDMs, Friends
<1>3. QED
      BY <1>1, <1>2, NoMessageKeeps DEF ChatInv, ChatTyped

\* Seen from user-service, chat only looks on.
LEMMA ChatImplementsPairs == [ChatNext]_<<chatVars, pairVars>> => [PairNext]_pairVars
<1>1. ChatSteps => UNCHANGED pairVars
      BY Zenon DEF ChatSteps, handleSendDM, CheckFriends, SaveDM, handleMarkDMRead, handleReportDM,
             handleSendRoomMessage, SaveRoomMessage, Reseat, handleReportRoomMessage,
             handleHideRoomMessage, QuietSocial, pairVars
<1>2. QED
      BY <1>1 DEF ChatNext

LEMMA ChatInductive == ChatSpec => []ChatInv
<1>1. ChatInv /\ SocialTypeOK /\ [ChatNext]_<<chatVars, pairVars>> => ChatInv'
      BY SendDMKeeps, CheckFriendsKeeps, SaveDMKeeps, ReadKeeps, RoomMessageKeeps,
         SaveRoomMessageKeeps, SeatKeeps, WatchedKeeps, StillChat, Zenon DEF ChatNext, ChatSteps
<1>2. QED
      BY <1>1, ChatImplementsPairs, ChatBegins, SocialTyped, PTL DEF ChatSpec, PairSpec

LEMMA SettingsRead == SocialTypeOK => GateReadsSettings
      BY DEF SocialTypeOK, SettingMap, Privacy, Keys, GateReadsSettings, GetAllowDMs,
             GetPlayerSettings, mergeSettings, defaultPlayerSettings

\* api_dms.go, api_rooms.go: no message against a wish that stood all the time, none
\* from a player without a seat, one receipt for a message that is read, and a gate
\* that reads the settings as the settings page shows them.
THEOREM ChatGated == ChatSpec => []GatesHold
<1>1. ChatInv => WishesRespected /\ SeatedAuthors /\ ReceiptOnce
      BY DEF ChatInv
<1>2. QED
      BY <1>1, ChatImplementsPairs, ChatInductive, SocialTyped, SettingsRead, PTL
      DEF ChatSpec, PairSpec, GatesHold
=============================================================================
