----------------------------- MODULE MatchQueue -----------------------------
(***************************************************************************)
(* match-service/internal/queue: the ranked queue (sorted set and meta      *)
(* hashes), the players who join and leave it, the tickers of all          *)
(* instances that pair them under queue:lock, and the player.banned        *)
(* consumer.  What happens to a proposed match is MatchConfirm's subject;  *)
(* Enqueue, by the player or by MatchConfirm's handlers, may follow at any *)
(* time, since nothing in it asks for pending matches.                     *)
(*                                                                         *)
(* Enqueue is two steps: its checks (ban, ZSCORE, rating lookup) and its   *)
(* pipeline.  Which pairs the matchmaker finds in a snapshot is left open: *)
(* any set of disjoint pairs.                                              *)
(***************************************************************************)
EXTENDS Integers, FiniteSets

CONSTANTS
    Players,
    Instances,   \* match-service instances, each with a ticker
    SlowTick,    \* whether a tick may outlast lockTTL
    MaxJoins,    \* bound: times a player enters the queue
    MaxEnqueues, \* bound: Enqueue calls of one player under way at once
    MaxCrashes,  \* bound: instances that die inside a tick
    Bannable,    \* players an administrator bans
    MaxBanFails  \* bound: failed deliveries of a ban event

ASSUME QueueAssumption ==
    /\ SlowTick \in BOOLEAN
    /\ MaxJoins \in Nat
    /\ MaxEnqueues \in Nat \ {0}
    /\ MaxCrashes \in Nat
    /\ Bannable \subseteq Players
    /\ MaxBanFails \in Nat

VARIABLES
    queue,       \* members of the sorted set queue:ranked
    meta,        \* players with a live queue:meta hash
    leaving,     \* players whose Dequeue has yet to delete the meta hash
    adding,      \* per player: Enqueue calls between checks and pipeline
    lock,        \* queue:lock exists
    tick,          \* per instance: where its tick is
    snap,        \* per instance: pairs still to propose
    crashes,
    joined,      \* history: per player, times it became a queue member
    proposed,    \* history: per player, proposals that name it
    banEvent,    \* per player: its player.banned entry in the stream
    banFails,
    dedup        \* players whose ban event id is in the dedupe keys

queueVars == <<queue, meta, leaving, adding, joined>>
tickVars  == <<lock, tick, snap, crashes>>
banVars   == <<banEvent, banFails, dedup>>
matchVars == <<queueVars, tickVars, proposed, banVars>>

Pairs == {m \in SUBSET Players : Cardinality(m) = 2}

QueueInit ==
    /\ queue = {}
    /\ meta = {}
    /\ leaving = {}
    /\ adding = [p \in Players |-> 0]
    /\ lock = FALSE
    /\ tick = [n \in Instances |-> "idle"]
    /\ snap = [n \in Instances |-> {}]
    /\ crashes = 0
    /\ joined = [p \in Players |-> 0]
    /\ proposed = [p \in Players |-> 0]
    /\ banEvent = [p \in Players |-> "none"]
    /\ banFails = 0
    /\ dedup = {}

-----------------------------------------------------------------------------
(* Enqueue up to its pipeline: not banned, not in the sorted set.          *)
EnqueueCheck(p) ==
    /\ p \notin queue
    /\ adding[p] < MaxEnqueues
    /\ adding' = [adding EXCEPT ![p] = @ + 1]
    /\ UNCHANGED <<queue, meta, leaving, joined, tickVars, proposed, banVars>>

(* Enqueue's pipeline: HSET and EXPIRE of the meta hash, ZADD; or it fails.*)
EnqueueAdd(p) ==
    /\ adding[p] > 0
    /\ adding' = [adding EXCEPT ![p] = @ - 1]
    /\ \/ /\ joined[p] < MaxJoins
          /\ queue' = queue \cup {p}
          /\ meta' = meta \cup {p}
          /\ joined' = IF p \in queue THEN joined
                                      ELSE [joined EXCEPT ![p] = @ + 1]
       \/ UNCHANGED <<queue, meta, joined>>
    /\ UNCHANGED <<leaving, tickVars, proposed, banVars>>

(* Dequeue: ZREM and, if that removed a member, DEL of the meta hash.      *)
Remove(p) ==
    /\ queue' = queue \ {p}
    /\ leaving' = IF p \in queue THEN leaving \cup {p} ELSE leaving
    /\ UNCHANGED <<meta, adding, joined>>

Dequeue(p) ==
    /\ p \in queue
    /\ Remove(p)
    /\ UNCHANGED <<tickVars, proposed, banVars>>

DeleteMeta(p) ==
    /\ p \in leaving
    /\ leaving' = leaving \ {p}
    /\ meta' = meta \ {p}
    /\ UNCHANGED <<queue, adding, joined, tickVars, proposed, banVars>>

(* QueueMetaTTL: ten minutes in the queue and the meta hash is gone.       *)
MetaExpires(p) ==
    /\ p \in meta
    /\ meta' = meta \ {p}
    /\ UNCHANGED <<queue, leaving, adding, joined, tickVars, proposed, banVars>>

-----------------------------------------------------------------------------
AcquireLock_NoCheck(n) ==
    /\ tick[n] = "idle"
    /\ lock' = TRUE
    /\ tick' = [tick EXCEPT ![n] = "locked"]
    /\ UNCHANGED <<queueVars, snap, crashes, proposed, banVars>>

(* FindAndPropose: SET NX of queue:lock with its TTL; otherwise return.    *)
AcquireLock(n) ==
    /\ tick[n] = "idle"
    /\ ~lock
    /\ lock' = TRUE
    /\ tick' = [tick EXCEPT ![n] = "locked"]
    /\ UNCHANGED <<queueVars, snap, crashes, proposed, banVars>>

(* ZRANGE of the queue and FindMatches on it; a match of another shape     *)
(* than one against one is skipped.                                        *)
Snapshot(n) ==
    /\ tick[n] = "locked"
    /\ \E found \in SUBSET {m \in Pairs : m \subseteq queue} :
          /\ \A a, b \in found : a = b \/ a \cap b = {}
          /\ snap' = [snap EXCEPT ![n] = found]
    /\ tick' = [tick EXCEPT ![n] = "propose"]
    /\ UNCHANGED <<queueVars, lock, crashes, proposed, banVars>>

Propose_KeepQueued(n) ==
    /\ tick[n] = "propose"
    /\ \E m \in snap[n] :
          /\ snap' = [snap EXCEPT ![n] = @ \ {m}]
          /\ meta' = meta \ m
          /\ proposed' = [p \in Players |-> IF p \in m THEN proposed[p] + 1
                                                       ELSE proposed[p]]
    /\ UNCHANGED <<queue, leaving, adding, joined, lock, tick, crashes, banVars>>

(* The pipeline for one pair: pending and shadow records, ZREM, DEL meta.  *)
(* A pipeline that fails is logged and skipped.                            *)
Propose(n) ==
    /\ tick[n] = "propose"
    /\ \E m \in snap[n] :
          /\ snap' = [snap EXCEPT ![n] = @ \ {m}]
          /\ \/ /\ queue' = queue \ m
                /\ meta' = meta \ m
                /\ proposed' = [p \in Players |-> IF p \in m THEN proposed[p] + 1
                                                             ELSE proposed[p]]
             \/ UNCHANGED <<queue, meta, proposed>>
    /\ UNCHANGED <<leaving, adding, joined, lock, tick, crashes, banVars>>

(* The deferred DEL of the lock, whoever holds it by now.                  *)
ReleaseLock(n) ==
    /\ tick[n] = "propose" /\ snap[n] = {}
    /\ lock' = FALSE
    /\ tick' = [tick EXCEPT ![n] = "idle"]
    /\ UNCHANGED <<queueVars, snap, crashes, proposed, banVars>>

LockExpires_NoTTL ==
    /\ lock
    /\ SlowTick
    /\ lock' = FALSE
    /\ UNCHANGED <<queueVars, tick, snap, crashes, proposed, banVars>>

(* lockTTL ends: after a crash, or under a tick that is slower than that.  *)
LockExpires ==
    /\ lock
    /\ SlowTick \/ \A n \in Instances : tick[n] = "idle"
    /\ lock' = FALSE
    /\ UNCHANGED <<queueVars, tick, snap, crashes, proposed, banVars>>

(* The instance dies, or its context is cancelled, inside a tick.          *)
Crash(n) ==
    /\ crashes < MaxCrashes
    /\ tick[n] # "idle"
    /\ crashes' = crashes + 1
    /\ tick' = [tick EXCEPT ![n] = "idle"]
    /\ snap' = [snap EXCEPT ![n] = {}]
    /\ UNCHANGED <<queueVars, lock, proposed, banVars>>

-----------------------------------------------------------------------------
(* player.banned reaches the stream.                                       *)
Ban(p) ==
    /\ p \in Bannable
    /\ banEvent[p] = "none"
    /\ banEvent' = [banEvent EXCEPT ![p] = "pending"]
    /\ UNCHANGED <<queueVars, tickVars, proposed, banFails, dedup>>

(* consumer.handle: SETNX of the dedupe key; an event already seen returns *)
(* nil and is acked.                                                       *)
SeenEvent(p) ==
    /\ banEvent[p] = "pending"
    /\ banEvent' = [banEvent EXCEPT ![p] = IF p \in dedup THEN "acked" ELSE "handling"]
    /\ dedup' = dedup \cup {p}
    /\ UNCHANGED <<queueVars, tickVars, proposed, banFails>>

HandleBan_SkipDequeue(p) ==
    /\ banEvent[p] = "handling"
    /\ banEvent' = [banEvent EXCEPT ![p] = "acked"]
    /\ UNCHANGED <<queueVars, tickVars, proposed, banFails, dedup>>

(* Then Dequeue, and XACK.                                                 *)
HandleBan(p) ==
    /\ banEvent[p] = "handling"
    /\ banEvent' = [banEvent EXCEPT ![p] = "acked"]
    /\ Remove(p)
    /\ UNCHANGED <<tickVars, proposed, banFails, dedup>>

(* Dequeue fails or the instance dies: the stream delivers the entry again.*)
BanFails(p) ==
    /\ banEvent[p] = "handling"
    /\ banFails < MaxBanFails
    /\ banFails' = banFails + 1
    /\ banEvent' = [banEvent EXCEPT ![p] = "pending"]
    /\ UNCHANGED <<queueVars, tickVars, proposed, dedup>>

Tick(n) == AcquireLock(n) \/ Snapshot(n) \/ Propose(n) \/ ReleaseLock(n)
BanConsumer(p) == SeenEvent(p) \/ HandleBan(p)

QueueNext ==
    \/ \E p \in Players : EnqueueCheck(p) \/ EnqueueAdd(p) \/ Dequeue(p)
                          \/ DeleteMeta(p) \/ MetaExpires(p)
                          \/ Ban(p) \/ BanConsumer(p) \/ BanFails(p)
    \/ \E n \in Instances : Tick(n) \/ Crash(n)
    \/ LockExpires

QueueSpec == QueueInit /\ [][QueueNext]_matchVars

(* Every instance keeps ticking and Redis expires the lock.                *)
QueueFairSpec == QueueSpec /\ WF_matchVars(LockExpires)
                 /\ \A n \in Instances : WF_matchVars(tick[n] # "idle" /\ Tick(n))

-----------------------------------------------------------------------------
QueueTypeOK ==
    /\ queue \subseteq Players
    /\ meta \subseteq Players
    /\ leaving \subseteq Players
    /\ adding \in [Players -> 0..MaxEnqueues]
    /\ lock \in BOOLEAN
    /\ tick \in [Instances -> {"idle", "locked", "propose"}]
    /\ snap \in [Instances -> SUBSET Pairs]
    /\ crashes \in 0..MaxCrashes
    /\ joined \in [Players -> 0..MaxJoins]
    /\ proposed \in [Players -> Nat]
    /\ banEvent \in [Players -> {"none", "pending", "handling", "acked"}]
    /\ banFails \in 0..MaxBanFails
    /\ dedup \subseteq Players

(* "It is safe to call concurrently from multiple instances — only the     *)
(* instance that acquires the lock does work" (queue.go:383-384): one      *)
(* entry of the queue leads to at most one proposed match, whatever joins, *)
(* leaves and crashes come between snapshot and pipeline.                  *)
OneProposalPerEntry == \A p \in Players : proposed[p] <= joined[p]

(* The lock of a tick that died is free again after its TTL, so no crash   *)
(* stops matchmaking (queue.go:75-78, 387-391).                            *)
LockFreed == lock ~> ~lock

(* The consumer "removes the banned player from the matchmaking queue"     *)
(* (consumer.go:1-2): once the event is acked the player is out, if no     *)
(* delivery failed.  (After a failure the dedupe key, set before Dequeue,  *)
(* makes the next delivery skip it.)                                       *)
BannedLeavesQueue ==
    [][\A p \in Players : banEvent[p] # "acked" /\ banEvent'[p] = "acked"
            => p \notin queue' \/ banFails > 0]_matchVars
=============================================================================
