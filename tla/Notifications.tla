--------------------------- MODULE Notifications ---------------------------
(***************************************************************************)
(* notification-service: the events other services publish for it, the     *)
(* handlers that turn an event into a stored notification and a push, and  *)
(* what a player does with a notification.                                 *)
(*                                                                         *)
(* An event is published over Asynq or, for bans, over a Redis stream.     *)
(* Either way it is delivered at least once: a handler that returns an     *)
(* error, or dies, sees it again, and a slow one may see it taken over.    *)
(***************************************************************************)
EXTENDS Naturals, Sequences, FiniteSets

CONSTANTS
    Players,
    Handlers,       \* goroutines of the Asynq server and of the ban worker
    MaxEvents,      \* bound: events published in a behaviour
    MaxDeliveries,  \* MaxRetry of a task, and of the stream worker
    Idle,
    NoRow           \* a row that is not in its table

ASSUME NotificationAssumption ==
    /\ MaxEvents \in Nat /\ MaxDeliveries \in Nat
    /\ Idle \notin [event : Nat, step : {"create", "push"}]

VARIABLES
    published,      \* events accepted by the broker; an event's id is its position
    queue,          \* ids not acknowledged yet
    tries,          \* deliveries begun, by id
    job,            \* what each handler is doing
    dedupe,         \* ids with a dedup:notification-service:<id> key
    notes,          \* rows of the notifications table
    pushes,         \* notification_received frames published, by id
    accepting,      \* accepted friend requests whose gRPC call is in flight
    marred          \* history: ids a handler failed on or died with

notifVars == <<published, queue, tries, job, dedupe, notes, pushes, accepting, marred>>

Ids == 1 .. MaxEvents
Types == {"friend_request", "friend_request_accepted", "ban_issued", "achievement_unlocked"}
Kinds == {"friendship.requested", "friendship.accepted", "player.banned", "achievement.unlocked"}
\* The two players an event names: requester and addressee; banned player and manager;
\* for an achievement, the player twice.
Event == [kind : Kinds, one : Players, other : Players]
Note == [id : Ids, src : Ids, type : Types, player : Players, from : Players,
         read : BOOLEAN, action : {"none", "accepted", "declined"}, expired : BOOLEAN]

NotifTypeOK ==
    /\ published \in Seq(Event) /\ Len(published) <= MaxEvents
    /\ queue \subseteq 1 .. Len(published)
    /\ tries \in [Ids -> 0 .. MaxDeliveries]
    /\ job \in [Handlers -> {Idle} \cup [event : Ids, step : {"create", "push"}]]
    /\ dedupe \subseteq Ids /\ marred \subseteq Ids
    /\ notes \subseteq Note
    /\ pushes \in [Ids -> 0 .. MaxDeliveries]
    /\ accepting \subseteq Players \X Players

NotifInit ==
    /\ published = <<>> /\ queue = {} /\ tries = [i \in Ids |-> 0]
    /\ job = [h \in Handlers |-> Idle]
    /\ dedupe = {} /\ notes = {} /\ pushes = [i \in Ids |-> 0]
    /\ accepting = {} /\ marred = {}

(***************************************************************************)
(* Publishing, as the services that do it see it.  An event the broker     *)
(* does not take is logged by the publisher and gone.                      *)
(***************************************************************************)
Publish(e) ==
    \/ /\ Len(published) < MaxEvents
       /\ published' = Append(published, e)
       /\ queue' = queue \cup {Len(published) + 1}
    \/ UNCHANGED <<published, queue>>

(***************************************************************************)
(* One delivery of an event.                                               *)
(***************************************************************************)
Acknowledge(h) ==
    /\ queue' = queue \ {job[h].event}
    /\ job' = [job EXCEPT ![h] = Idle]

\* A task that is running may be given to another handler once its lease is over.
Take(h, i) ==
    /\ job[h] = Idle /\ i \in queue /\ tries[i] < MaxDeliveries
    /\ tries' = [tries EXCEPT ![i] = @ + 1]

\* SET NX.  On an error of Redis, which may have set the key all the same, the event
\* is processed; a key that is there stands for a duplicate, which is acknowledged.
seenEvent(h, i) ==
    \/ /\ i \notin dedupe
       /\ dedupe' = dedupe \cup {i}
       /\ job' = [job EXCEPT ![h] = [event |-> i, step |-> "create"]]
       /\ UNCHANGED queue
    \/ /\ i \in dedupe
       /\ queue' = queue \ {i}
       /\ UNCHANGED <<dedupe, job>>
    \/ /\ dedupe' \in {dedupe, dedupe \cup {i}}
       /\ job' = [job EXCEPT ![h] = [event |-> i, step |-> "create"]]
       /\ UNCHANGED queue

Deliver(h) == \E i \in Ids :
    /\ Take(h, i) /\ seenEvent(h, i)
    /\ UNCHANGED <<published, notes, pushes, accepting, marred>>

\* Whom each handler tells of what.
handleFriendshipRequested(e) ==
    [type |-> "friend_request", player |-> e.other, from |-> e.one]

handleFriendshipAccepted(e) ==
    [type |-> "friend_request_accepted", player |-> e.one, from |-> e.other]

handlePlayerBanned(e) ==
    [type |-> "ban_issued", player |-> e.one, from |-> e.one]

handleAchievementUnlocked(e) ==
    [type |-> "achievement_unlocked", player |-> e.one, from |-> e.one]

Handled(e) ==
    CASE e.kind = "friendship.requested" -> handleFriendshipRequested(e)
      [] e.kind = "friendship.accepted"  -> handleFriendshipAccepted(e)
      [] e.kind = "player.banned"        -> handlePlayerBanned(e)
      [] OTHER                           -> handleAchievementUnlocked(e)

Row(i) ==
    LET p == Handled(published[i])
    IN [id |-> Cardinality(notes) + 1, src |-> i, type |-> p.type, player |-> p.player,
        from |-> p.from, read |-> FALSE, action |-> "none", expired |-> FALSE]

Stored(i) == \E n \in notes : n.src = i

Create_NoIndex(h) == LET i == job[h].event IN
    /\ job[h] # Idle /\ job[h].step = "create"
    /\ \/ /\ Cardinality(notes) < MaxEvents
          /\ notes' = notes \cup {Row(i)}
          /\ job' = [job EXCEPT ![h] = [event |-> i, step |-> "push"]]
          /\ UNCHANGED <<queue, marred>>
       \/ /\ job' = [job EXCEPT ![h] = Idle]
          /\ marred' = marred \cup {i}
          /\ UNCHANGED <<queue, notes>>
    /\ UNCHANGED <<published, tries, dedupe, pushes, accepting>>

\* The INSERT: a new row, the unique index on (player_id, source_event_id), or an
\* error, which the handler returns so that the event is delivered again.
Create(h) == LET i == job[h].event IN
    /\ job[h] # Idle /\ job[h].step = "create"
    /\ \/ /\ ~Stored(i)
          /\ notes' = notes \cup {Row(i)}
          /\ job' = [job EXCEPT ![h] = [event |-> i, step |-> "push"]]
          /\ UNCHANGED <<queue, marred>>
       \/ /\ Stored(i)
          /\ Acknowledge(h)
          /\ UNCHANGED <<notes, marred>>
       \/ /\ job' = [job EXCEPT ![h] = Idle]
          /\ marred' = marred \cup {i}
          /\ UNCHANGED <<queue, notes>>
    /\ UNCHANGED <<published, tries, dedupe, pushes, accepting>>

\* PublishToPlayer, whose error is only logged, and the acknowledgement.
Push(h) ==
    /\ job[h] # Idle /\ job[h].step = "push"
    /\ pushes' = [pushes EXCEPT ![job[h].event] = @ + 1]
    /\ Acknowledge(h)
    /\ UNCHANGED <<published, tries, dedupe, notes, accepting, marred>>

\* The process dies with the handler at work.
Crash(h) ==
    /\ job[h] # Idle
    /\ job' = [job EXCEPT ![h] = Idle]
    /\ marred' = marred \cup {job[h].event}
    /\ UNCHANGED <<published, queue, tries, dedupe, notes, pushes, accepting>>

\* The key's 24 hours are over.
DedupeExpires(i) ==
    /\ i \in dedupe
    /\ dedupe' = dedupe \ {i}
    /\ UNCHANGED <<published, queue, tries, job, notes, pushes, accepting, marred>>

(***************************************************************************)
(* What the player does.                                                   *)
(***************************************************************************)
Update(n, m) == notes' = (notes \ {n}) \cup {m}

markRead(n) ==
    /\ n \in notes /\ ~n.read
    /\ Update(n, [n EXCEPT !.read = TRUE])
    /\ UNCHANGED <<published, queue, tries, job, dedupe, pushes, accepting, marred>>

\* The claim and the expiry test are one UPDATE; MarkRead follows.
SetAction(n, a) ==
    /\ n.action = "none" /\ ~n.expired
    /\ Update(n, [n EXCEPT !.action = a, !.read = TRUE])

\* Accept or decline.  The row's player and type never change, so that reading it
\* first adds nothing.  An accepted friend request goes on to user-service.
takeAction(n, a) ==
    /\ n \in notes /\ n.type # "ban_issued"
    /\ SetAction(n, a)
    /\ accepting' = IF a = "accepted" /\ n.type = "friend_request"
                    THEN accepting \cup {<<n.from, n.player>>} ELSE accepting
    /\ UNCHANGED <<published, queue, tries, job, dedupe, pushes, marred>>

\* A friend request can be acted on for seven days.
ActionExpires(n) ==
    /\ n \in notes /\ n.type = "friend_request" /\ ~n.expired
    /\ Update(n, [n EXCEPT !.expired = TRUE])
    /\ UNCHANGED <<published, queue, tries, job, dedupe, pushes, accepting, marred>>

\* The deliveries, which go on whatever the players do.
NotifSteps ==
    \/ \E h \in Handlers : Deliver(h) \/ Create(h) \/ Push(h) \/ Crash(h)
    \/ \E i \in Ids : DedupeExpires(i)

PlayerActs == \E n \in notes :
    \/ markRead(n) \/ ActionExpires(n)
    \/ \E a \in {"accepted", "declined"} : takeAction(n, a)

(***************************************************************************)
(* Properties.                                                             *)
(***************************************************************************)
\* However often an event is delivered, and whether or not Redis remembers it, its
\* player gets one notification and one frame: the claim of seenEvent's comment,
\* which rests on the unique index when the key is missing.
NotifiedOnce == \A i \in Ids :
    /\ Cardinality({n \in notes : n.src = i}) <= 1
    /\ pushes[i] <= 1

\* An event that is acknowledged has its notification, or a handler still on the way
\* to it, or a handler failed after the key was set: the key is taken before the
\* work, so that the retry of a failed INSERT is skipped as a duplicate.
LostOnlyAfterFailure == \A i \in 1 .. Len(published) :
    i \in queue \/ Stored(i) \/ i \in marred
    \/ \E h \in Handlers : job[h] # Idle /\ job[h].event = i

\* The answer to a notification is given once and in time: of two devices, or of an
\* answer and the expiry, one wins and the row never changes its mind.
AnswerIsFinal == [][\A n \in notes : \E m \in notes' :
    /\ m.id = n.id
    /\ n.action # "none" => m.action = n.action
    /\ n.expired => m.action = n.action /\ m.expired]_notifVars

\* What notification-service promises (consumer.go, seenEvent; store.go): one
\* notification for an event, lost only after a failure, and answered once.
NotificationsSound == [](NotifiedOnce /\ LostOnlyAfterFailure) /\ AnswerIsFinal
=============================================================================
