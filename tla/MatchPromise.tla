---------------------------- MODULE MatchPromise ----------------------------
(***************************************************************************)
(* What the ranked queue promises the two players of a proposed match      *)
(* (services/match-service/internal/queue/queue.go:11-13): the match ends  *)
(* at most once, started, declined or expired; only an undeclined match    *)
(* both players accepted is started, once; only the player who declined or *)
(* let the window pass is penalised, once; only a player who accepted goes *)
(* back to the queue.                                                      *)
(***************************************************************************)
EXTENDS Integers

CONSTANT Parties

VARIABLES
    outcome,    \* "open", "started", "expired", or the player who declined
    accepted,   \* players whose acceptance was recorded
    sessions,   \* sessions started for the match
    penalised,  \* per player, penalties for this match
    requeued    \* players put back in the queue because of this match

vars == <<outcome, accepted, sessions, penalised, requeued>>

Init ==
    /\ outcome = "open"
    /\ accepted = {}
    /\ sessions = 0
    /\ penalised = [p \in Parties |-> 0]
    /\ requeued = {}

Accept(p) ==
    /\ accepted' = accepted \cup {p}
    /\ UNCHANGED <<outcome, sessions, penalised, requeued>>

Resolve(how) ==
    /\ outcome = "open"
    /\ how = "started" => accepted = Parties
    /\ outcome' = how
    /\ UNCHANGED <<accepted, sessions, penalised, requeued>>

Start ==
    /\ outcome = "started"
    /\ sessions = 0
    /\ sessions' = 1
    /\ UNCHANGED <<outcome, accepted, penalised, requeued>>

Requeue(p) ==
    /\ outcome \notin {"open", "started", p}
    /\ p \in accepted
    /\ requeued' = requeued \cup {p}
    /\ UNCHANGED <<outcome, accepted, sessions, penalised>>

Penalise(p) ==
    /\ \/ outcome = p
       \/ outcome = "expired" /\ p \notin accepted
    /\ penalised[p] = 0
    /\ penalised' = [penalised EXCEPT ![p] = 1]
    /\ UNCHANGED <<outcome, accepted, sessions, requeued>>

Next ==
    \/ \E how \in {"started", "expired"} \cup Parties : Resolve(how)
    \/ Start
    \/ \E p \in Parties : Accept(p) \/ Requeue(p) \/ Penalise(p)

Spec == Init /\ [][Next]_vars
=============================================================================
