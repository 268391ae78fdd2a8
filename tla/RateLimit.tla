----------------------------- MODULE RateLimit -----------------------------
(***************************************************************************)
(* The sliding-window limiter of game-server, for one address.             *)
(*                                                                         *)
(* A request reads the clock first and runs the Lua script afterwards; the *)
(* script is atomic.  The set of Redis is keyed by the reading, so two     *)
(* requests of one instant are one member.                                 *)
(***************************************************************************)
EXTENDS Integers, Sequences, FiniteSets

CONSTANTS
    Requests,
    Limit,
    WindowLength,
    MaxInstant     \* bound: readings of the clock

ASSUME RateAssumption == Limit \in Nat /\ WindowLength \in Nat /\ MaxInstant \in Nat

VARIABLES
    instant,       \* the clock
    request,       \* the reading of each request, and what became of it
    window,        \* members of the sorted set
    expires,       \* when the key expires
    overtaken      \* history: a script ran after one with a later reading, or after the
                   \* key with members of its window had expired

rateVars == <<instant, request, window, expires, overtaken>>

RateTypeOK ==
    /\ instant \in 0 .. MaxInstant
    /\ request \in [Requests -> [at : 0 .. MaxInstant, state : {"new", "running", "allowed", "refused", "open"}]]
    /\ window \subseteq 0 .. MaxInstant /\ Cardinality(window) <= Limit

RateInit ==
    /\ instant = 0 /\ window = {} /\ expires = 0 /\ overtaken = FALSE
    /\ request = [r \in Requests |-> [at |-> 0, state |-> "new"]]

Elapse ==
    /\ instant < MaxInstant /\ instant' = instant + 1
    /\ window' = IF expires <= instant' THEN {} ELSE window
    /\ overtaken' = (overtaken \/ \E r \in Requests, m \in window \ window' :
           request[r].state = "running" /\ m > request[r].at - WindowLength)
    /\ UNCHANGED <<request, expires>>

Arrive(r) ==
    /\ request[r].state = "new"
    /\ request' = [request EXCEPT ![r] = [at |-> instant, state |-> "running"]]
    /\ UNCHANGED <<instant, window, expires, overtaken>>

Script_ShortWindow(r) ==
    LET now  == request[r].at
        kept == {m \in window : m > now - WindowLength + 1}
    IN IF Cardinality(kept) < Limit
       THEN /\ window' = kept \cup {now} /\ expires' = instant + WindowLength
            /\ request' = [request EXCEPT ![r].state = "allowed"]
       ELSE /\ window' = kept /\ UNCHANGED expires
            /\ request' = [request EXCEPT ![r].state = "refused"]

Script(r) ==
    LET now  == request[r].at
        kept == {m \in window : m > now - WindowLength}
    IN IF Cardinality(kept) < Limit
       THEN /\ window' = kept \cup {now} /\ expires' = instant + WindowLength
            /\ request' = [request EXCEPT ![r].state = "allowed"]
       ELSE /\ window' = kept /\ UNCHANGED expires
            /\ request' = [request EXCEPT ![r].state = "refused"]

\* Without Redis the request is let through.
allow(r) ==
    /\ request[r].state = "running"
    /\ \/ Script(r)
       \/ /\ request' = [request EXCEPT ![r].state = "open"]
          /\ UNCHANGED <<window, expires>>
    /\ overtaken' = (overtaken \/ \E q \in Requests :
           request[q].state \in {"allowed", "refused"} /\ request[q].at > request[r].at)
    /\ UNCHANGED instant

Admitted == {r \in Requests : request[r].state = "allowed"}

\* However requests and scripts interleave, and though the key may expire, requests of
\* no more than Limit instants of any window are admitted, unless a script ran so
\* late that a later request, or the key's expiry, had come before it.
WindowHolds == ~overtaken => \A t \in 0 .. MaxInstant :
    Cardinality({request[r].at : r \in Admitted} \cap (t - WindowLength + 1 .. t)) <= Limit

\* A request is refused only when Limit others were admitted in the window before it.
RefusedForCause == ~overtaken => \A r \in Requests : request[r].state = "refused" =>
    Cardinality({request[q].at : q \in Admitted}
                \cap (request[r].at - WindowLength + 1 .. request[r].at)) = Limit

\* The limiter admits no more than Limit and refuses nobody without cause
\* (middleware.go).
LimitSound == WindowHolds /\ RefusedForCause
=============================================================================
