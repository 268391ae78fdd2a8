---------------------------- MODULE MatchConfirm ----------------------------
(***************************************************************************)
(* match-service/internal/queue: the confirmation of ONE proposed match,   *)
(* from the moment FindAndPropose has told both players to the end of the  *)
(* last request about it.  The match lives in two Redis hashes, the        *)
(* pending record (30 s TTL) and its shadow (60 s TTL), and in an Asynq    *)
(* task due when the window closes.  Accept, Decline and the task run on   *)
(* any instance, without a lock, one Redis command after another.          *)
(*                                                                         *)
(* A hash is [live, ids, acc]: whether the key exists, whether it holds    *)
(* player_a and player_b, and which accepted_x fields are "1".  HSET on a   *)
(* key that is gone creates it anew, without ids and without a TTL.        *)
(***************************************************************************)
EXTENDS Integers

CONSTANTS
    Parties,     \* the two players of the match
    MaxCalls,    \* bound: Accept and Decline requests per player
    MaxRetry,    \* asynq.MaxRetry of the expiry task
    MaxAborts,   \* bound: requests and tasks that fail
    Straddle     \* whether a request may be under way as the window closes

ASSUME TwoParties == \E a, b \in Parties : a # b /\ Parties = {a, b}

ASSUME ConfirmAssumption ==
    /\ Parties \cap {"open", "started", "expired", "nil"} = {}
    /\ MaxCalls \in Nat \ {0}
    /\ MaxRetry \in Nat
    /\ MaxAborts \in Nat
    /\ Straddle \in BOOLEAN

VARIABLES
    pending,     \* hash queue:pending:<match>
    shadow,      \* hash queue:shadow:<match>
    closed,      \* the 30 s of the confirmation window have passed
    task,        \* the expiry task: where it is
    taskSeen,    \* acceptors the task read from the shadow
    retried,     \* deliveries of the task lost to a crash
    pc,          \* per request: the command it does next
    seen,        \* per request: acceptors Decline read before its DEL
    aborts,      \* requests and tasks that ended half-way, came too late or failed
    rooms,       \* ranked rooms created
    outcome,     \* history: the first resolution of the match
    accepted,    \* history: players whose accepted_x was set
    sessions,    \* sessions started
    penalised,   \* per player: recordDecline calls
    requeued     \* players a handler put back in the queue

keys     == <<pending, shadow>>
taskVars == <<task, taskSeen, retried>>
effects  == <<rooms, outcome, accepted, sessions, penalised, requeued>>
vars     == <<keys, closed, taskVars, pc, seen, aborts, effects>>

Reqs == Parties \X (1..MaxCalls)
Gone == [live |-> FALSE, ids |-> FALSE, acc |-> {}]

(* The pipeline of FindAndPropose has run; scheduling the task may have    *)
(* failed, which is only logged.                                           *)
Init ==
    /\ pending = [live |-> TRUE, ids |-> TRUE, acc |-> {}]
    /\ shadow = pending
    /\ closed = FALSE
    /\ \/ task = "scheduled" /\ aborts = 0
       \/ task = "none" /\ aborts = 1 /\ MaxAborts > 0
    /\ taskSeen = {}
    /\ retried = 0
    /\ pc = [r \in Reqs |-> "idle"]
    /\ seen = [r \in Reqs |-> {}]
    /\ rooms = 0
    /\ outcome = "open"
    /\ accepted = {}
    /\ sessions = 0
    /\ penalised = [p \in Parties |-> 0]
    /\ requeued = {}

Goto(r, at) == pc' = [pc EXCEPT ![r] = at]
SetAccepted(hash, p) == [live |-> TRUE, ids |-> hash.ids, acc |-> hash.acc \cup {p}]
ResolvedAs(how) == outcome' = IF outcome = "open" THEN how ELSE outcome

-----------------------------------------------------------------------------
(* Accept and Decline begin with HGETALL of the pending record.  A record  *)
(* without ids makes the caller ErrNotMatchParticipant.                    *)
HGetAllPending(r) ==
    /\ pc[r] = "idle"
    /\ IF pending.live /\ pending.ids
       THEN \/ Goto(r, "set") /\ UNCHANGED seen
            \/ Goto(r, "decline") /\ seen' = [seen EXCEPT ![r] = pending.acc]
       ELSE /\ Goto(r, IF pending.live THEN "notParticipant" ELSE "notFound")
            /\ UNCHANGED seen
    /\ UNCHANGED <<keys, closed, taskVars, aborts, effects>>

(* Accept's pipeline: HSET of the caller's field in both hashes.           *)
AcceptSet(r) ==
    /\ pc[r] = "set"
    /\ pending' = SetAccepted(pending, r[1])
    /\ shadow' = SetAccepted(shadow, r[1])
    /\ accepted' = accepted \cup {r[1]}
    /\ Goto(r, "reload")
    /\ UNCHANGED <<closed, taskVars, seen, aborts, rooms, outcome, sessions,
                   penalised, requeued>>

(* Accept's second HGETALL: go on only if both fields are "1".             *)
AcceptReload(r) ==
    /\ pc[r] = "reload"
    /\ Goto(r, IF pending.acc = Parties THEN "del" ELSE "done")
    /\ UNCHANGED <<keys, closed, taskVars, seen, aborts, effects>>

AcceptDel_Unchecked(r) ==
    /\ pc[r] = "del"
    /\ pending' = Gone
    /\ shadow' = Gone
    /\ Goto(r, "cancel")
    /\ ResolvedAs("started")
    /\ UNCHANGED <<closed, taskVars, seen, aborts, rooms, accepted, sessions,
                   penalised, requeued>>

(* DEL of both hashes; 0 deleted means somebody else resolved the match.   *)
AcceptDel(r) ==
    /\ pc[r] = "del"
    /\ pending' = Gone
    /\ shadow' = Gone
    /\ IF pending.live \/ shadow.live
       THEN Goto(r, "cancel") /\ ResolvedAs("started")
       ELSE Goto(r, "done") /\ UNCHANGED outcome
    /\ UNCHANGED <<closed, taskVars, seen, aborts, rooms, accepted, sessions,
                   penalised, requeued>>

(* cancelExpiry: DeleteTask refuses a task that is already active.         *)
CancelExpiry(r) ==
    /\ pc[r] \in {"cancel", "cancelDeclined"}
    /\ task' = IF task = "scheduled" THEN "none" ELSE task
    /\ Goto(r, IF pc[r] = "cancel" THEN "room" ELSE "requeue")
    /\ UNCHANGED <<keys, closed, taskSeen, retried, seen, aborts, effects>>

(* startMatch: CreateRankedRoom, then StartSession (game-server gRPC).     *)
CreateRankedRoom(r) ==
    /\ pc[r] = "room"
    /\ rooms' = rooms + 1
    /\ Goto(r, "session")
    /\ UNCHANGED <<keys, closed, taskVars, seen, aborts, outcome, accepted,
                   sessions, penalised, requeued>>

StartSession(r) ==
    /\ pc[r] = "session"
    /\ sessions' = sessions + 1
    /\ Goto(r, "done")
    /\ UNCHANGED <<keys, closed, taskVars, seen, aborts, rooms, outcome,
                   accepted, penalised, requeued>>

(* Decline: the same DEL, then the consequences for both players, the      *)
(* partner's from the acceptors read before the DEL.                       *)
DeclineDel(r) ==
    /\ pc[r] = "decline"
    /\ pending' = Gone
    /\ shadow' = Gone
    /\ IF pending.live \/ shadow.live
       THEN Goto(r, "cancelDeclined") /\ ResolvedAs(r[1])
       ELSE Goto(r, "done") /\ UNCHANGED outcome
    /\ UNCHANGED <<closed, taskVars, seen, aborts, rooms, accepted, sessions,
                   penalised, requeued>>

DeclineRequeue(r) ==
    /\ pc[r] = "requeue"
    /\ requeued' = requeued \cup (seen[r] \ {r[1]})
    /\ Goto(r, "penalise")
    /\ UNCHANGED <<keys, closed, taskVars, seen, aborts, rooms, outcome,
                   accepted, sessions, penalised>>

DeclinePenalise(r) ==
    /\ pc[r] = "penalise"
    /\ penalised' = [penalised EXCEPT ![r[1]] = @ + 1]
    /\ Goto(r, "done")
    /\ UNCHANGED <<keys, closed, taskVars, seen, aborts, rooms, outcome,
                   accepted, sessions, requeued>>

(* A Redis command or gRPC call fails, the client goes away (its context   *)
(* is the request's), or the instance dies: the request ends there.        *)
Abort(r) ==
    /\ aborts < MaxAborts
    /\ pc[r] \notin {"idle", "done", "notFound", "notParticipant"}
    /\ aborts' = aborts + 1
    /\ Goto(r, "done")
    /\ UNCHANGED <<keys, closed, taskVars, seen, effects>>

-----------------------------------------------------------------------------
Deciding(r) == pc[r] \in {"set", "reload", "del", "decline"}

(* 30 s after the proposal: the pending record's TTL ends, and from here   *)
(* on the task is due.  Only the record the proposal wrote has a TTL.      *)
WindowCloses ==
    /\ ~closed
    /\ Straddle \/ \A r \in Reqs : ~Deciding(r)
    /\ closed' = TRUE
    /\ pending' = IF pending.ids THEN Gone ELSE pending
    /\ UNCHANGED <<shadow, taskVars, pc, seen, aborts, effects>>

(* 60 s after the proposal the shadow's TTL ends, with or without the task *)
(* having read it.                                                         *)
ShadowExpires ==
    /\ closed
    /\ shadow.live /\ shadow.ids
    /\ shadow' = Gone
    /\ \/ task # "scheduled" /\ UNCHANGED aborts
       \/ task = "scheduled" /\ aborts < MaxAborts /\ aborts' = aborts + 1
    /\ UNCHANGED <<pending, closed, taskVars, pc, seen, effects>>

Single(S) == \E p \in S : S = {p}

ExpiryRead_NeedsPending ==
    /\ closed
    /\ task = "scheduled"
    /\ task' = IF pending.live THEN "read" ELSE "none"
    /\ taskSeen' = IF ~shadow.ids /\ Single(shadow.acc) THEN {"nil"} ELSE shadow.acc
    /\ UNCHANGED <<keys, closed, retried, pc, seen, aborts, effects>>

(* HandleMatchExpiry: HGETALL of the shadow; nothing to do without it.  In *)
(* a shadow without ids both players parse to the nil UUID.                *)
ExpiryRead ==
    /\ closed
    /\ task = "scheduled"
    /\ task' = IF shadow.live THEN "read" ELSE "none"
    /\ taskSeen' = IF ~shadow.ids /\ Single(shadow.acc) THEN {"nil"} ELSE shadow.acc
    /\ UNCHANGED <<keys, closed, retried, pc, seen, aborts, effects>>

(* DEL of the shadow, then the case split: exactly one acceptor, or not.   *)
ExpiryDel ==
    /\ task = "read"
    /\ shadow' = Gone
    /\ ResolvedAs("expired")
    /\ task' = IF Single(taskSeen) THEN "requeue" ELSE "none"
    /\ UNCHANGED <<pending, closed, taskSeen, retried, pc, seen, aborts,
                   rooms, accepted, sessions, penalised, requeued>>

(* requeueAfterTimeout(acceptor); a failed Enqueue is only logged.         *)
ExpiryRequeue ==
    /\ task = "requeue"
    /\ \/ requeued' = requeued \cup taskSeen /\ UNCHANGED aborts
       \/ aborts < MaxAborts /\ aborts' = aborts + 1 /\ UNCHANGED requeued
    /\ task' = "penalise"
    /\ UNCHANGED <<keys, closed, taskSeen, retried, pc, seen, rooms,
                   outcome, accepted, sessions, penalised>>

ExpiryPenalise_Acceptor ==
    /\ task = "penalise"
    /\ penalised' = [p \in Parties |-> IF p \in taskSeen THEN penalised[p] + 1
                                                         ELSE penalised[p]]
    /\ task' = "none"
    /\ UNCHANGED <<keys, closed, taskSeen, retried, pc, seen, aborts, rooms,
                   outcome, accepted, sessions, requeued>>

(* penalizeTimeout(the one who did not accept).                            *)
ExpiryPenalise ==
    /\ task = "penalise"
    /\ penalised' = [p \in Parties |-> IF taskSeen = Parties \ {p}
                                       THEN penalised[p] + 1 ELSE penalised[p]]
    /\ task' = "none"
    /\ UNCHANGED <<keys, closed, taskSeen, retried, pc, seen, aborts, rooms,
                   outcome, accepted, sessions, requeued>>

(* The instance running the task dies; Asynq delivers the task again.      *)
ExpiryCrash ==
    /\ aborts < MaxAborts
    /\ aborts' = aborts + 1
    /\ task \in {"read", "requeue", "penalise"}
    /\ task' = IF retried < MaxRetry THEN "scheduled" ELSE "none"
    /\ retried' = IF retried < MaxRetry THEN retried + 1 ELSE retried
    /\ taskSeen' = {}
    /\ UNCHANGED <<keys, closed, pc, seen, effects>>

Request(r) ==
    \/ HGetAllPending(r) \/ AcceptSet(r) \/ AcceptReload(r) \/ AcceptDel(r)
    \/ CancelExpiry(r) \/ CreateRankedRoom(r) \/ StartSession(r)
    \/ DeclineDel(r) \/ DeclineRequeue(r) \/ DeclinePenalise(r)

Expiry == ExpiryRead \/ ExpiryDel \/ ExpiryRequeue \/ ExpiryPenalise

Next ==
    \/ \E r \in Reqs : Request(r) \/ Abort(r)
    \/ WindowCloses \/ ShadowExpires
    \/ Expiry \/ ExpiryCrash

Spec == Init /\ [][Next]_vars

(* A request that has begun runs to its end, though nobody has to make     *)
(* one; time passes, and Asynq runs the task it has.                       *)
FairSpec == Spec /\ WF_vars(Expiry) /\ WF_vars(WindowCloses)
                 /\ \A r \in Reqs : WF_vars(pc[r] # "idle" /\ Request(r))

-----------------------------------------------------------------------------
Hashes == [live : BOOLEAN, ids : BOOLEAN, acc : SUBSET Parties]

TypeOK ==
    /\ pending \in Hashes /\ (pending.live \/ pending = Gone)
    /\ shadow \in Hashes /\ (shadow.live \/ shadow = Gone)
    /\ closed \in BOOLEAN
    /\ task \in {"scheduled", "read", "requeue", "penalise", "none"}
    /\ taskSeen \in SUBSET (Parties \cup {"nil"})
    /\ retried \in 0..MaxRetry
    /\ pc \in [Reqs -> {"idle", "set", "reload", "del", "cancel", "room",
                       "session", "decline", "cancelDeclined", "requeue",
                       "penalise", "done", "notFound", "notParticipant"}]
    /\ seen \in [Reqs -> SUBSET Parties]
    /\ aborts \in 0..MaxAborts
    /\ rooms \in Nat
    /\ outcome \in {"open", "started", "expired"} \cup Parties
    /\ accepted \subseteq Parties
    /\ sessions \in 0..rooms
    /\ penalised \in [Parties -> Nat]
    /\ requeued \subseteq Parties \cup {"nil"}

(* "delete pending + shadow and cancel expiry task before starting the     *)
(* match to prevent double-processing" (queue.go:304-306): whichever       *)
(* acceptors race, the match is started at most once.                      *)
StartedOnce == rooms <= 1

(* The second of two acceptors sees both flags: a match both players       *)
(* accepted is started, unless a command fails (queue.go:288-314).         *)
BothAcceptedStarts == accepted = Parties ~> (sessions > 0 \/ aborts > 0)

(* Nobody who accepted is left behind: the match starts or they go back to *)
(* the queue, unless a command fails, or their acceptance came between the *)
(* read and the DEL of the partner's Decline (queue.go:318, 354).          *)
Missed(p) == \E r \in Reqs : r[1] # p /\ outcome = r[1] /\ p \notin seen[r]
AcceptorReturns == \A p \in Parties :
    p \in accepted ~> (sessions > 0 \/ p \in requeued \/ Missed(p) \/ aborts > 0)

(* The requests and the expiry task together keep the promise of           *)
(* MatchPromise (queue.go:11-13).                                          *)
Promise == INSTANCE MatchPromise WITH requeued <- requeued \cap Parties
PromiseKept == Promise!Spec

(* What an acceptance leads to (queue.go, Accept and HandleMatchExpiry):   *)
(* the match if both accept, and the queue again if the other does not.    *)
MatchSettles == BothAcceptedStarts /\ AcceptorReturns
=============================================================================
