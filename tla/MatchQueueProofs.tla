-------------------------- MODULE MatchQueueProofs --------------------------
(***************************************************************************)
(* The queue of ranked matches and the bots that fill it, for any number   *)
(* of players, instances and bots.                                         *)
(*                                                                         *)
(* The queue: one entry leads to at most one proposed match, as long as no *)
(* tick outlasts the TTL of the lock.  OneProposalPerEntry is not          *)
(* inductive.  What makes it so: at most one instance is inside a tick and *)
(* it holds the lock, its remaining pairs are disjoint, and every player   *)
(* who is queued or in one of those pairs has an entry that no proposal    *)
(* has used.                                                               *)
(*                                                                         *)
(* The claims of bot backfill: a bot is taken out of bot:available by one  *)
(* SREM only and comes back when its activation is over, so it is always   *)
(* in one place: available, claimed by one scan, in one task, or playing   *)
(* (Once).                                                                 *)
(***************************************************************************)
EXTENDS MatchQueue, BotBackfill, TLAPS

\* The time a leaf that names no prover may take.
USE SMTT(60), ZenonT(20)

Unused(p) == proposed[p] < joined[p]

TickInv ==
    /\ \A n \in Instances : tick[n] # "idle" => lock
    /\ \A n, k \in Instances : tick[n] # "idle" /\ tick[k] # "idle" => n = k
    /\ \A n \in Instances : snap[n] # {} => tick[n] # "idle"
    /\ \A n \in Instances : \A a, b \in snap[n] : a = b \/ a \cap b = {}

EntryInv ==
    /\ OneProposalPerEntry
    /\ \A p \in queue : Unused(p)
    /\ \A n \in Instances : \A m \in snap[n] : \A p \in m : Unused(p)

Inv == QueueTypeOK /\ TickInv /\ EntryInv

USE DEF queueVars, tickVars, banVars

(* Every step of MatchQueue keeps the type invariant (all of queue.go's    *)
(* queue state, and consumer.go's).                                        *)
LEMMA TypeStep == QueueTypeOK /\ [QueueNext]_matchVars => QueueTypeOK'
<1> SUFFICES ASSUME QueueTypeOK, [QueueNext]_matchVars PROVE QueueTypeOK'
    OBVIOUS
<1> USE QueueAssumption DEF QueueTypeOK
<1>1. ASSUME NEW p \in Players, EnqueueCheck(p) PROVE QueueTypeOK'
      BY <1>1 DEF EnqueueCheck
<1>2. ASSUME NEW p \in Players, EnqueueAdd(p) PROVE QueueTypeOK'
      BY <1>2 DEF EnqueueAdd
<1>3. ASSUME NEW p \in Players, Dequeue(p) PROVE QueueTypeOK'
      BY <1>3 DEF Dequeue, Remove
<1>4. ASSUME NEW p \in Players, DeleteMeta(p) \/ MetaExpires(p) PROVE QueueTypeOK'
      BY <1>4 DEF DeleteMeta, MetaExpires
<1>5. ASSUME NEW p \in Players, Ban(p) \/ SeenEvent(p) \/ BanFails(p) PROVE QueueTypeOK'
      BY <1>5 DEF Ban, SeenEvent, BanFails
<1>6. ASSUME NEW p \in Players, HandleBan(p) PROVE QueueTypeOK'
      BY <1>6 DEF HandleBan, Remove
<1>7. ASSUME NEW n \in Instances, AcquireLock(n) \/ ReleaseLock(n) PROVE QueueTypeOK'
      BY <1>7, Zenon DEF AcquireLock, ReleaseLock
<1>13. ASSUME NEW n \in Instances, Crash(n) PROVE QueueTypeOK'
  <2>1. crashes' \in 0..MaxCrashes
        BY <1>13 DEF Crash
  <2>2. {} \in SUBSET Pairs
        OBVIOUS
  <2>3. QED
        BY <1>13, <2>1, <2>2 DEF Crash
<1>8. ASSUME NEW n \in Instances, Snapshot(n) PROVE QueueTypeOK'
      BY <1>8 DEF Snapshot
<1>9. ASSUME NEW n \in Instances, Propose(n) PROVE QueueTypeOK'
      BY <1>9 DEF Propose
<1>10. CASE LockExpires
      BY <1>10, Zenon DEF LockExpires
<1>11. CASE UNCHANGED matchVars
      BY <1>11, Zenon DEF matchVars
<1>12. QED
      BY <1>1, <1>2, <1>3, <1>4, <1>5, <1>6, <1>7, <1>8, <1>9, <1>10, <1>11, <1>13, Zenon
      DEF QueueNext, Tick, BanConsumer

(* Without slow ticks, the lock keeps two instances from ever being inside *)
(* FindAndPropose at once, and matches of one tick never share a player.   *)
LEMMA TickStep == ~SlowTick /\ QueueTypeOK /\ TickInv /\ [QueueNext]_matchVars => TickInv'
<1> SUFFICES ASSUME ~SlowTick, QueueTypeOK, TickInv, [QueueNext]_matchVars PROVE TickInv'
    OBVIOUS
<1> USE DEF QueueTypeOK, TickInv
<1>1. CASE UNCHANGED <<lock, tick, snap>>
      BY <1>1
<1>2. ASSUME NEW n \in Instances, AcquireLock(n) PROVE TickInv'
      BY <1>2 DEF AcquireLock
<1>3. ASSUME NEW n \in Instances, Snapshot(n) PROVE TickInv'
      BY <1>3 DEF Snapshot
<1>4. ASSUME NEW n \in Instances, Propose(n) PROVE TickInv'
      BY <1>4 DEF Propose
<1>5. ASSUME NEW n \in Instances, ReleaseLock(n) \/ Crash(n) PROVE TickInv'
      BY <1>5 DEF ReleaseLock, Crash
<1>6. CASE LockExpires
      BY <1>6, Zenon DEF LockExpires
<1>7. QED
      BY <1>1, <1>2, <1>3, <1>4, <1>5, <1>6
      DEF QueueNext, matchVars, Tick, BanConsumer, EnqueueCheck, EnqueueAdd, Dequeue,
          DeleteMeta, MetaExpires, Ban, SeenEvent, HandleBan, BanFails

(* Every entry is used at most once.                                       *)
LEMMA EntryStep == QueueTypeOK /\ TickInv /\ EntryInv /\ [QueueNext]_matchVars => EntryInv'
<1> SUFFICES ASSUME QueueTypeOK, TickInv, EntryInv, [QueueNext]_matchVars PROVE EntryInv'
    OBVIOUS
<1> USE DEF QueueTypeOK, EntryInv, OneProposalPerEntry, Unused, Pairs
<1>1. CASE UNCHANGED <<queue, snap, joined, proposed>>
      BY <1>1
<1>2. ASSUME NEW p \in Players, EnqueueAdd(p) PROVE EntryInv'
      BY <1>2 DEF EnqueueAdd
<1>3. ASSUME NEW p \in Players, Remove(p), UNCHANGED <<tickVars, proposed>>
      PROVE EntryInv'
      BY <1>3 DEF Remove
<1>4. ASSUME NEW n \in Instances, Snapshot(n) PROVE EntryInv'
  <2>1. PICK pairs \in SUBSET {m \in Pairs : m \subseteq queue} :
            snap' = [snap EXCEPT ![n] = pairs]
        BY <1>4, Zenon DEF Snapshot
  <2>2. UNCHANGED <<queue, joined, proposed>>
        BY <1>4 DEF Snapshot
  <2>3. QED
        BY <2>1, <2>2
<1>5. ASSUME NEW n \in Instances, Propose(n) PROVE EntryInv'
  <2>1. PICK m \in snap[n] :
            /\ snap' = [snap EXCEPT ![n] = @ \ {m}]
            /\ \/ /\ queue' = queue \ m
                  /\ proposed' = [p \in Players |-> IF p \in m THEN proposed[p] + 1
                                                               ELSE proposed[p]]
               \/ UNCHANGED <<queue, proposed>>
        BY <1>5, Zenon DEF Propose
  <2>2. UNCHANGED joined
        BY <1>5 DEF Propose
  <2>3. CASE UNCHANGED <<queue, proposed>>
        BY <2>1, <2>2, <2>3
  <2>4. CASE /\ queue' = queue \ m
             /\ proposed' = [p \in Players |-> IF p \in m THEN proposed[p] + 1
                                                          ELSE proposed[p]]
    <3>1. \A p \in Players : proposed'[p] <= joined'[p]
          BY <2>2, <2>4
    <3>2. \A p \in queue' : proposed'[p] < joined'[p]
          BY <2>2, <2>4
    <3>3. \A k \in Instances : \A a \in snap'[k] : a \in snap[k] /\ a \cap m = {}
          BY <1>5, <2>1 DEF Propose, TickInv
    <3>4. \A k \in Instances : \A a \in snap'[k] : \A p \in a :
              proposed'[p] < joined'[p]
          BY <2>2, <2>4, <3>3
    <3>5. QED
          BY <3>1, <3>2, <3>4
  <2>5. QED
        BY <2>1, <2>3, <2>4
<1>6. ASSUME NEW n \in Instances, Crash(n) PROVE EntryInv'
      BY <1>6 DEF Crash
<1>7. QED
      BY <1>1, <1>2, <1>3, <1>4, <1>5, <1>6
      DEF QueueNext, matchVars, Tick, BanConsumer, EnqueueCheck, Dequeue, DeleteMeta,
          MetaExpires, Ban, SeenEvent, HandleBan, BanFails, AcquireLock,
          ReleaseLock, LockExpires

(* The sorted set, its metadata, the lock, the instances' snapshots and the *)
(* ban events stay well typed, slow ticks included.                        *)
THEOREM QueueTypes == QueueSpec => []QueueTypeOK
<1>1. QueueInit => QueueTypeOK
  <2> SUFFICES ASSUME QueueInit PROVE QueueTypeOK
      OBVIOUS
  <2>1. 0 \in 0..MaxEnqueues /\ 0 \in 0..MaxCrashes /\ 0 \in 0..MaxJoins
        /\ 0 \in 0..MaxBanFails
        BY QueueAssumption
  <2>2. QED
        BY <2>1, Zenon DEF QueueInit, QueueTypeOK
<1>2. QED
      BY <1>1, TypeStep, PTL DEF QueueSpec

(* FindAndPropose (queue.go:385-493): if no tick outlasts lockTTL, no       *)
(* queue entry is proposed twice.                                          *)
THEOREM OneProposal == ~SlowTick /\ QueueSpec => []OneProposalPerEntry
<1> SUFFICES ASSUME ~SlowTick PROVE QueueSpec => []OneProposalPerEntry
    OBVIOUS
<1>1. QueueInit => Inv
  <2> SUFFICES ASSUME QueueInit PROVE Inv
      OBVIOUS
  <2>1. 0 \in 0..MaxEnqueues /\ 0 \in 0..MaxCrashes /\ 0 \in 0..MaxJoins
        /\ 0 \in 0..MaxBanFails
        BY QueueAssumption
  <2>2. QueueTypeOK
        BY <2>1, Zenon DEF QueueInit, QueueTypeOK
  <2>3. TickInv
        BY DEF QueueInit, TickInv
  <2>4. EntryInv
        BY DEF QueueInit, EntryInv, OneProposalPerEntry, Unused
  <2>5. QED
        BY <2>2, <2>3, <2>4 DEF Inv
<1>2. Inv /\ [QueueNext]_matchVars => Inv'
      BY TypeStep, TickStep, EntryStep DEF Inv
<1>3. Inv => OneProposalPerEntry
      BY Zenon DEF Inv, EntryInv
<1>4. QED
      BY <1>1, <1>2, <1>3, PTL DEF QueueSpec

-----------------------------------------------------------------------------

\* While no delivery has failed, a dedupe key means that the one delivery is being
\* handled or is done.
DedupInv == banFails = 0 => \A p \in dedup : banEvent[p] \in {"handling", "acked"}

(* The dedupe key and the state of the entry change together, but for a    *)
(* failure.                                                                *)
LEMMA DedupStep == QueueTypeOK /\ DedupInv /\ [QueueNext]_matchVars => DedupInv'
<1> SUFFICES ASSUME QueueTypeOK, DedupInv, [QueueNext]_matchVars PROVE DedupInv'
    OBVIOUS
<1> USE QueueAssumption DEF QueueTypeOK, DedupInv
<1>1. ASSUME NEW p \in Players, Ban(p) PROVE DedupInv'
      BY <1>1 DEF Ban
<1>2. ASSUME NEW p \in Players, SeenEvent(p) PROVE DedupInv'
      BY <1>2 DEF SeenEvent
<1>3. ASSUME NEW p \in Players, HandleBan(p) PROVE DedupInv'
      BY <1>3 DEF HandleBan
<1>4. ASSUME NEW p \in Players, BanFails(p) PROVE DedupInv'
  <2>1. banFails' # 0
        BY <1>4 DEF BanFails
  <2>2. QED
        BY <2>1
<1>5. CASE UNCHANGED banVars
      BY <1>5
<1>6. QED
      BY <1>1, <1>2, <1>3, <1>4, <1>5
      DEF QueueNext, matchVars, BanConsumer, EnqueueCheck, EnqueueAdd, Dequeue, DeleteMeta, MetaExpires, Tick,
          AcquireLock, Snapshot, Propose, ReleaseLock, Crash, LockExpires

(* consumer.go: a ban whose event is acked has taken the player out of the *)
(* queue, however joins, leaves and ticks come between, unless a delivery  *)
(* failed.                                                                 *)
THEOREM BannedLeave == QueueSpec => BannedLeavesQueue
<1>1. QueueInit => DedupInv
  <2>1. QueueInit => dedup = {}
        BY Zenon DEF QueueInit
  <2>2. QED
        BY <2>1, Zenon DEF DedupInv
<1>2. QueueTypeOK /\ DedupInv /\ [QueueNext]_matchVars
      => [\A p \in Players : banEvent[p] # "acked" /\ banEvent'[p] = "acked"
              => p \notin queue' \/ banFails > 0]_matchVars
  <2> SUFFICES ASSUME QueueTypeOK, DedupInv, [QueueNext]_matchVars, NEW p \in Players,
                      banEvent[p] # "acked", banEvent'[p] = "acked"
               PROVE  p \notin queue' \/ banFails > 0
      OBVIOUS
  <2>1. ASSUME NEW q \in Players, HandleBan(q) PROVE p \notin queue'
        BY <2>1 DEF HandleBan, Remove, QueueTypeOK
  <2>2. ASSUME NEW q \in Players, SeenEvent(q) PROVE banFails > 0
        BY <2>2, QueueAssumption DEF SeenEvent, QueueTypeOK, DedupInv
  <2>3. ASSUME NEW q \in Players, Ban(q) \/ BanFails(q) PROVE FALSE
        BY <2>3 DEF Ban, BanFails, QueueTypeOK
  <2>4. CASE UNCHANGED banVars
        BY <2>4
  <2>5. QED
        BY <2>1, <2>2, <2>3, <2>4
        DEF QueueNext, matchVars, BanConsumer, EnqueueCheck, EnqueueAdd, Dequeue, DeleteMeta, MetaExpires, Tick,
            AcquireLock, Snapshot, Propose, ReleaseLock, Crash, LockExpires
<1>3. QED
      BY <1>1, <1>2, DedupStep, QueueTypes, PTL DEF QueueSpec, BannedLeavesQueue


(***************************************************************************)
(* The claims of bot backfill.                                             *)
(***************************************************************************)
\* Where a bot whose runner was never restarted can be.
Once(b) == restarts = 0 =>
    /\ \A m, n \in Activating(b) : m = n
    /\ Activating(b) # {} => tasks[b] = 0 /\ ~Activated(b)
    /\ tasks[b] <= 1 /\ (tasks[b] = 1 => ~Activated(b))
    /\ b \in available \/ phase[b] = "off" =>
          Activating(b) = {} /\ tasks[b] = 0 /\ ~Activated(b)
    /\ phase[b] = "off" => b \notin available

\* The detector can reach an idle bot again.
Reachable(b) == phase[b] = "idle" => b \in available \/ tasks[b] > 0 \/ Activating(b) # {}

BackfillInv ==
    /\ BackfillTypeOK
    /\ \A b \in Bots : Once(b)
    /\ ~SharedPickup => \A b \in Bots : Reachable(b)

-----------------------------------------------------------------------------

\* A step of one scan leaves the others where they are.
LEMMA ScanStepMoves ==
    ASSUME BackfillTypeOK, NEW n \in Scanners, NEW at \in {"idle", "pick", "claim", "enqueue"},
           NEW bot \in {{}} \cup {{b} : b \in Bots}, ScanStep(n, at, bot)
    PROVE  /\ scan' \in [Scanners -> {"idle", "pick", "claim", "enqueue"}]
           /\ pick' \in [Scanners -> {{}} \cup {{b} : b \in Bots}]
           /\ \A b \in Bots : Activating(b)' =
                 IF at = "enqueue" /\ bot = {b} THEN Activating(b) \cup {n}
                 ELSE Activating(b) \ {n}
<1>1. /\ scan \in [Scanners -> {"idle", "pick", "claim", "enqueue"}]
      /\ pick \in [Scanners -> {{}} \cup {{b} : b \in Bots}]
      /\ scan' = [scan EXCEPT ![n] = at] /\ pick' = [pick EXCEPT ![n] = bot]
  BY Zenon DEF BackfillTypeOK, ScanStep
<1>2. \A m \in Scanners : scan'[m] = IF m = n THEN at ELSE scan[m]
  BY <1>1, Zenon
<1>3. \A m \in Scanners : pick'[m] = IF m = n THEN bot ELSE pick[m]
  BY <1>1, Zenon
<1>4. ASSUME NEW b \in Bots
      PROVE  Activating(b)' = IF at = "enqueue" /\ bot = {b} THEN Activating(b) \cup {n}
                              ELSE Activating(b) \ {n}
  BY <1>2, <1>3 DEF Activating
<1>5. /\ scan' \in [Scanners -> {"idle", "pick", "claim", "enqueue"}]
      /\ pick' \in [Scanners -> {{}} \cup {{b} : b \in Bots}]
  BY <1>1, Zenon
<1> QED
  BY <1>4, <1>5, Zenon

\* Taking out what is not there.
LEMMA NothingToRemove == ASSUME NEW S, NEW x, x \notin S PROVE S \ {x} = S
OBVIOUS

\* A step that leaves every bot where it is keeps the invariant.
LEMMA SameBots ==
    ASSUME BackfillInv, BackfillTypeOK', UNCHANGED <<available, tasks, phase, restarts>>,
           \A b \in Bots : Activating(b)' = Activating(b)
    PROVE  BackfillInv'
<1>1. ASSUME NEW b \in Bots PROVE Activating(b)' = Activating(b) /\ Activated(b)' = Activated(b)
  BY Zenon DEF Activated
<1>2. ASSUME NEW b \in Bots PROVE Once(b)' = Once(b) /\ Reachable(b)' = Reachable(b)
  BY <1>1, Zenon DEF Once, Reachable
<1> QED
  BY <1>2, Zenon DEF BackfillInv

\* The types of the variables a scan leaves alone.
LEMMA ScanTyped ==
    ASSUME BackfillTypeOK, NEW n \in Scanners, NEW at \in {"idle", "pick", "claim", "enqueue"},
           NEW bot \in {{}} \cup {{b} : b \in Bots}, ScanStep(n, at, bot),
           UNCHANGED <<ranked, known, botVars>>, available' \subseteq Bots, tasks' \in [Bots -> Nat]
    PROVE  BackfillTypeOK'
<1>1. UNCHANGED <<ranked, known, phase, inMatch, restarts>>
  BY Zenon DEF botVars
<1> QED
  BY <1>1, ScanStepMoves, Zenon DEF BackfillTypeOK

\* The claim is the SREM: a scan that removed nothing goes no further.
LEMMA ClaimKeeps == ASSUME BackfillInv, NEW n \in Scanners, ScanClaim(n) PROVE BackfillInv'
<1>1. /\ BackfillTypeOK /\ \A b \in Bots : Once(b)
      /\ ~SharedPickup => \A b \in Bots : Reachable(b)
  BY Zenon DEF BackfillInv
<1>2. /\ UNCHANGED <<ranked, known, tasks, botVars>> /\ UNCHANGED <<tasks, phase, restarts>>
      /\ available' = available \ pick[n] /\ scan[n] = "claim"
  BY Zenon DEF ScanClaim, botVars
<1>3. pick[n] \in {{}} \cup {{b} : b \in Bots} /\ {} \in {{}} \cup {{b} : b \in Bots}
      /\ available \subseteq Bots /\ tasks \in [Bots -> Nat]
  BY <1>1, Zenon DEF BackfillTypeOK
<1>4. ASSUME NEW b \in Bots PROVE n \notin Activating(b)
  BY <1>2, Zenon DEF Activating
<1>5. CASE pick[n] \subseteq available
  <2>1. ScanStep(n, "enqueue", pick[n])
    BY <1>5, Zenon DEF ScanClaim
  <2>2. BackfillTypeOK'
    BY <1>1, <1>2, <1>3, <2>1, ScanTyped
  <2>3. ASSUME NEW b \in Bots
        PROVE  Activating(b)' = IF pick[n] = {b} THEN Activating(b) \cup {n} ELSE Activating(b)
    <3>1. Activating(b)' = IF "enqueue" = "enqueue" /\ pick[n] = {b} THEN Activating(b) \cup {n}
                           ELSE Activating(b) \ {n}
      BY <1>1, <1>3, <2>1, ScanStepMoves
    <3>2. Activating(b) \ {n} = Activating(b)
      BY <1>4, NothingToRemove, Zenon
    <3> QED
      BY <3>1, <3>2, Zenon
  <2>4. ASSUME NEW b \in Bots PROVE b \in available' <=> b \in available /\ pick[n] # {b}
    BY <1>2, <1>3
  <2>5. ASSUME NEW b \in Bots PROVE Activated(b)' = Activated(b)
    BY <1>2, Zenon DEF Activated
  <2>6. ASSUME NEW b \in Bots PROVE Once(b)' /\ (Reachable(b) => Reachable(b)')
    <3>1. CASE pick[n] = {b}
      <4>1. b \in available /\ Activating(b)' = Activating(b) \cup {n} /\ b \notin available'
        BY <1>5, <2>3, <2>4, <3>1
      <4> QED
        BY <1>1, <1>2, <2>5, <4>1 DEF Once, Reachable
    <3>2. CASE pick[n] # {b}
      <4>1. Activating(b)' = Activating(b) /\ (b \in available' <=> b \in available)
        BY <2>3, <2>4, <3>2
      <4> QED
        BY <1>1, <1>2, <2>5, <4>1 DEF Once, Reachable
    <3> QED
      BY <3>1, <3>2
  <2> QED
    BY <1>1, <2>2, <2>6, Zenon DEF BackfillInv
<1>6. CASE ~(pick[n] \subseteq available)
  <2>1. ScanStep(n, "idle", {})
    BY <1>6, Zenon DEF ScanClaim
  <2>2. UNCHANGED available
    BY <1>2, <1>3, <1>6
  <2>3. BackfillTypeOK'
    BY <1>1, <1>2, <1>3, <2>1, ScanTyped
  <2>4. ASSUME NEW b \in Bots PROVE Activating(b)' = Activating(b)
    <3>1. Activating(b)' = Activating(b) \ {n}
      BY <1>1, <1>3, <2>1, ScanStepMoves
    <3> QED
      BY <1>4, <3>1, NothingToRemove, Zenon
  <2> QED
    BY <1>2, <2>2, <2>3, <2>4, SameBots
<1> QED
  BY <1>5, <1>6

\* The claimed bot gets its task, or goes back to bot:available.
LEMMA EnqueueKeeps == ASSUME BackfillInv, NEW n \in Scanners, ScanEnqueue(n) PROVE BackfillInv'
<1>1. /\ BackfillTypeOK /\ \A b \in Bots : Once(b)
      /\ ~SharedPickup => \A b \in Bots : Reachable(b)
  BY Zenon DEF BackfillInv
<1>2. /\ ScanStep(n, "idle", {}) /\ scan[n] = "enqueue"
      /\ UNCHANGED <<ranked, known, botVars>> /\ UNCHANGED <<phase, restarts>>
  BY Zenon DEF ScanEnqueue, botVars
<1>3. pick[n] \in {{}} \cup {{b} : b \in Bots} /\ {} \in {{}} \cup {{b} : b \in Bots}
      /\ available \subseteq Bots /\ tasks \in [Bots -> Nat]
  BY <1>1, Zenon DEF BackfillTypeOK
<1>4. ASSUME NEW b \in Bots PROVE /\ Activating(b)' = Activating(b) \ {n}
                                  /\ n \in Activating(b) <=> pick[n] = {b}
  BY <1>1, <1>2, <1>3, ScanStepMoves DEF Activating
<1>5. ASSUME NEW b \in Bots PROVE Activated(b)' = Activated(b)
  BY <1>2, Zenon DEF Activated
<1>6. CASE /\ tasks' = [b \in Bots |-> IF b \in pick[n] THEN tasks[b] + 1 ELSE tasks[b]]
           /\ UNCHANGED available
  <2>1. tasks' \in [Bots -> Nat] /\ available' \subseteq Bots
    BY <1>3, <1>6
  <2>2. BackfillTypeOK'
    BY <1>1, <1>2, <1>3, <2>1, ScanTyped
  <2>3. ASSUME NEW b \in Bots PROVE tasks'[b] = IF pick[n] = {b} THEN tasks[b] + 1 ELSE tasks[b]
    BY <1>3, <1>6
  <2>4. ASSUME NEW b \in Bots PROVE Once(b)' /\ (Reachable(b) => Reachable(b)')
    <3>1. tasks[b] \in Nat
      BY <1>3, Zenon
    <3>2. CASE pick[n] = {b}
      BY <1>1, <1>2, <1>4, <1>5, <1>6, <2>3, <3>1, <3>2 DEF Once, Reachable
    <3>3. CASE pick[n] # {b}
      <4>1. Activating(b)' = Activating(b) /\ tasks'[b] = tasks[b]
        BY <1>4, <2>3, <3>3, NothingToRemove, Zenon
      <4> QED
        BY <1>1, <1>2, <1>5, <1>6, <4>1 DEF Once, Reachable
    <3> QED
      BY <3>2, <3>3
  <2> QED
    BY <1>1, <2>2, <2>4, Zenon DEF BackfillInv
<1>7. CASE available' = available \cup pick[n] /\ UNCHANGED tasks
  <2>1. tasks' \in [Bots -> Nat] /\ available' \subseteq Bots
    BY <1>3, <1>7
  <2>2. BackfillTypeOK'
    BY <1>1, <1>2, <1>3, <2>1, ScanTyped
  <2>3. ASSUME NEW b \in Bots PROVE b \in available' <=> b \in available \/ pick[n] = {b}
    BY <1>3, <1>7, Zenon
  <2>4. ASSUME NEW b \in Bots PROVE Once(b)' /\ (Reachable(b) => Reachable(b)')
    BY <1>1, <1>2, <1>4, <1>5, <1>7, <2>3 DEF Once, Reachable
  <2> QED
    BY <1>1, <2>2, <2>4, Zenon DEF BackfillInv
<1> QED
  BY <1>6, <1>7, Zenon DEF ScanEnqueue

\* Every step of a scan keeps the invariant.
LEMMA ScanKeeps == ASSUME BackfillInv, NEW n \in Scanners, Scan(n) PROVE BackfillInv'
<1>1. CASE ScanGates(n) \/ ScanPick(n)
  <2>1. /\ BackfillTypeOK /\ scan[n] # "enqueue"
        /\ UNCHANGED <<ranked, known, available, tasks, botVars>>
    BY <1>1 DEF ScanGates, ScanPick, BackfillInv
  <2>2. PICK at \in {"idle", "pick", "claim"}, bot \in {{}} \cup {{b} : b \in Bots} :
            ScanStep(n, at, bot)
    BY <1>1, <2>1, Zenon DEF ScanGates, ScanPick, BackfillTypeOK
  <2>3. available \subseteq Bots /\ tasks \in [Bots -> Nat]
    BY <2>1, Zenon DEF BackfillTypeOK
  <2>4. BackfillTypeOK'
    BY <2>1, <2>2, <2>3, ScanTyped
  <2>5. ASSUME NEW b \in Bots PROVE n \notin Activating(b) /\ at # "enqueue"
    BY <2>1 DEF Activating
  <2>6. \A b \in Bots : Activating(b)' = Activating(b)
    BY <2>1, <2>2, <2>5, ScanStepMoves
  <2>7. UNCHANGED <<available, tasks, phase, restarts>>
    BY <2>1, Zenon DEF botVars
  <2> QED
    BY <2>4, <2>6, <2>7, SameBots
<1> QED
  BY <1>1, ClaimKeeps, EnqueueKeeps, Zenon DEF Scan

\* A step that moves one bot, and no scan.
LEMMA OneBotMoves ==
    ASSUME BackfillInv, BackfillTypeOK', UNCHANGED scanVars, restarts' = 0 => restarts = 0,
           NEW b \in Bots, Once(b)', ~SharedPickup => Reachable(b)',
           \A c \in Bots : c # b => /\ tasks'[c] = tasks[c] /\ phase'[c] = phase[c]
                                    /\ c \in available' <=> c \in available
    PROVE  BackfillInv'
<1>1. ASSUME NEW c \in Bots PROVE Activating(c)' = Activating(c)
  BY Zenon DEF scanVars, Activating
<1>2. ASSUME NEW c \in Bots, c # b PROVE Activated(c)' = Activated(c)
  BY <1>2, Zenon DEF Activated
<1>3. ASSUME NEW c \in Bots, c # b PROVE (Once(c) => Once(c)') /\ (Reachable(c) => Reachable(c)')
  BY <1>1, <1>2, <1>3 DEF Once, Reachable
<1> QED
  BY <1>3, Zenon DEF BackfillInv

\* The runner's steps: a bot is available again only when its activation is over.
LEMMA RunnerKeeps ==
    ASSUME BackfillInv, NEW b \in Bots,
           \/ Register(b) \/ Stop(b) \/ handleActivate(b) \/ MatchOver(b)
           \/ MatchOverWithout(b) \/ WsLost(b) \/ JoinTimeout(b)
    PROVE  BackfillInv'
<1> DEFINE Phases == {"off", "idle", "dial", "waiting", "matched"}
<1>1. /\ BackfillTypeOK /\ Once(b) /\ (~SharedPickup => Reachable(b))
      /\ available \subseteq Bots /\ phase \in [Bots -> Phases] /\ tasks \in [Bots -> Nat]
      /\ restarts \in Nat
  BY DEF BackfillInv, BackfillTypeOK
<1>2. UNCHANGED scanVars /\ UNCHANGED tasks
  BY Zenon DEF Register, Stop, handleActivate, MatchOver, MatchOverWithout, WsLost, JoinTimeout
<1>3. Activating(b)' = Activating(b)
  BY <1>2, Zenon DEF scanVars, Activating
<1>4. ASSUME NEW at \in Phases, phase' = [phase EXCEPT ![b] = at],
             available' \in {available, available \cup {b}, available \ {b}},
             restarts' = 0 => restarts = 0, BackfillTypeOK',
             Once(b)', ~SharedPickup => Reachable(b)'
      PROVE  BackfillInv'
  <2>1. ASSUME NEW c \in Bots, c # b
        PROVE  /\ tasks'[c] = tasks[c] /\ phase'[c] = phase[c]
               /\ c \in available' <=> c \in available
    BY <1>1, <1>2, <1>4, <2>1
  <2> QED
    BY <1>2, <1>4, <2>1, OneBotMoves
<1>5. CASE Register(b)
  <2>1. /\ phase[b] = "off" /\ phase' = [phase EXCEPT ![b] = "idle"]
        /\ available' = available \cup {b} /\ restarts' = restarts
    BY <1>5, Zenon DEF Register
  <2>2. phase'[b] = "idle" /\ b \in available'
    BY <1>1, <2>1
  <2>3. BackfillTypeOK'
    BY <1>1, <1>5 DEF Register, BackfillTypeOK, scanVars
  <2>4. Once(b)' /\ Reachable(b)'
    BY <1>1, <1>2, <1>3, <2>1, <2>2 DEF Once, Reachable, Activated
  <2> QED
    BY <1>4, <2>1, <2>3, <2>4
<1>6. CASE Stop(b)
  <2>1. /\ phase' = [phase EXCEPT ![b] = "off"] /\ restarts' = restarts + 1
        /\ available' \in {available, available \ {b}}
    BY <1>6, Zenon DEF Stop
  <2>2. phase'[b] = "off" /\ restarts' # 0
    BY <1>1, <2>1
  <2>3. BackfillTypeOK'
    BY <1>1, <1>6, BackfillAssumption DEF Stop, BackfillTypeOK, scanVars
  <2>4. Once(b)' /\ Reachable(b)'
    BY <2>2 DEF Once, Reachable
  <2> QED
    BY <1>4, <2>1, <2>2, <2>3, <2>4
<1>7. CASE Done(b) /\ phase[b] \in {"dial", "waiting", "matched"} /\ restarts' = restarts /\ BackfillTypeOK'
  <2>1. phase' = [phase EXCEPT ![b] = "idle"] /\ available' = available \cup {b}
    BY <1>7, Zenon DEF Done
  <2>2. phase'[b] = "idle" /\ b \in available'
    BY <1>1, <2>1
  <2>3. Once(b)' /\ Reachable(b)'
    BY <1>1, <1>2, <1>3, <1>7, <2>2 DEF Once, Reachable, Activated
  <2> QED
    BY <1>4, <1>7, <2>1, <2>3
<1>8. CASE handleActivate(b)
  <2>1. BackfillTypeOK' /\ restarts' = restarts /\ phase[b] = "dial"
    BY <1>1, <1>8 DEF handleActivate, Done, BackfillTypeOK, scanVars
  <2>2. CASE phase' = [phase EXCEPT ![b] = "waiting"] /\ UNCHANGED available
    <3>1. phase'[b] = "waiting"
      BY <1>1, <2>2
    <3>2. Once(b)' /\ Reachable(b)'
      BY <1>1, <1>2, <1>3, <2>1, <2>2, <3>1 DEF Once, Reachable, Activated
    <3> QED
      BY <1>4, <2>1, <2>2, <3>2
  <2> QED
    BY <1>7, <1>8, <2>1, <2>2, Zenon DEF handleActivate
<1>9. CASE MatchOver(b) \/ WsLost(b) \/ JoinTimeout(b)
  <2>1. Done(b) /\ phase[b] \in {"dial", "waiting", "matched"} /\ restarts' = restarts
    BY <1>9, Zenon DEF MatchOver, WsLost, JoinTimeout
  <2>2. BackfillTypeOK'
    BY <1>1, <1>9 DEF MatchOver, WsLost, JoinTimeout, Done, BackfillTypeOK, scanVars
  <2> QED
    BY <1>7, <2>1, <2>2
<1>10. CASE MatchOverWithout(b)
  <2>1. UNCHANGED <<available, tasks, phase, restarts>>
    BY <1>10, Zenon DEF MatchOverWithout
  <2>2. BackfillTypeOK'
    BY <1>1, <1>10 DEF MatchOverWithout, BackfillTypeOK, scanVars
  <2>3. ASSUME NEW c \in Bots PROVE Activating(c)' = Activating(c)
    BY <1>2, Zenon DEF scanVars, Activating
  <2> QED
    BY <2>1, <2>2, <2>3, SameBots
<1> QED
  BY <1>5, <1>6, <1>8, <1>9, <1>10

\* Asynq hands a task to the server of its bot, or of another one.
LEMMA DeliverKeeps ==
    ASSUME BackfillInv, NEW s \in Bots, NEW b \in Bots, Deliver(s, b)
    PROVE  BackfillInv'
<1>1. /\ BackfillTypeOK /\ Once(b) /\ (~SharedPickup => Reachable(b)) /\ tasks[b] \in Nat
      /\ phase \in [Bots -> {"off", "idle", "dial", "waiting", "matched"}] /\ tasks \in [Bots -> Nat]
  BY DEF BackfillInv, BackfillTypeOK
<1>2. /\ (s = b \/ SharedPickup) /\ phase[s] = "idle" /\ tasks[b] > 0
      /\ tasks' = [tasks EXCEPT ![b] = tasks[b] - 1]
      /\ phase' = [phase EXCEPT ![s] = IF s = b THEN "dial" ELSE "idle"]
      /\ UNCHANGED scanVars /\ UNCHANGED <<available, restarts>>
  BY Zenon DEF Deliver
<1>3. /\ tasks'[b] = tasks[b] - 1 /\ phase'[b] = IF s = b THEN "dial" ELSE phase[b]
      /\ \A c \in Bots : c # b => tasks'[c] = tasks[c] /\ phase'[c] = phase[c]
  BY <1>1, <1>2
<1>4. BackfillTypeOK'
  BY <1>1 DEF Deliver, BackfillTypeOK, scanVars
<1>5. Activating(b)' = Activating(b)
  BY <1>2, Zenon DEF scanVars, Activating
<1>6. Once(b)'
  BY <1>1, <1>2, <1>3, <1>5 DEF Once, Activated
<1>7. ~SharedPickup => Reachable(b)'
  BY <1>2, <1>3 DEF Reachable
<1> QED
  BY <1>2, <1>3, <1>4, <1>6, <1>7, OneBotMoves

\* Humans come, go and are paired; a bot that waits becomes one that is matched.
LEMMA HumanKeeps ==
    ASSUME BackfillInv, NEW h \in Humans,
           HumanJoins(h) \/ HumanLeaves(h) \/ \E x \in Humans \cup Bots : Pair(h, x)
    PROVE  BackfillInv'
<1>1. BackfillTypeOK /\ (\A c \in Bots : Once(c)) /\ (~SharedPickup => \A c \in Bots : Reachable(c))
  BY Zenon DEF BackfillInv
<1>2. /\ UNCHANGED <<available, tasks, restarts>> /\ UNCHANGED scanVars
      /\ \/ UNCHANGED phase
         \/ \E x : phase' = [b \in Bots |-> IF b = x /\ phase[b] = "waiting" THEN "matched" ELSE phase[b]]
  BY Zenon DEF HumanJoins, HumanLeaves, Pair, botVars
<1>3. ASSUME NEW c \in Bots
      PROVE  /\ Activating(c)' = Activating(c)
             /\ phase'[c] = phase[c] \/ (phase[c] = "waiting" /\ phase'[c] = "matched")
  BY <1>2, Zenon DEF scanVars, Activating
<1>4. BackfillTypeOK'
  BY <1>1 DEF HumanJoins, HumanLeaves, Pair, BackfillTypeOK, scanVars, botVars
<1>5. ASSUME NEW c \in Bots PROVE /\ Activated(c)' = Activated(c)
                                  /\ phase'[c] = "off" <=> phase[c] = "off"
                                  /\ phase'[c] = "idle" <=> phase[c] = "idle"
  BY <1>3 DEF Activated
<1>6. ASSUME NEW c \in Bots PROVE (Once(c) => Once(c)') /\ (Reachable(c) => Reachable(c)')
  BY <1>2, <1>3, <1>5 DEF Once, Reachable
<1> QED
  BY <1>1, <1>4, <1>6, Zenon DEF BackfillInv

\* The invariant holds throughout.
LEMMA BackfillInvariant == BackfillSpec => []BackfillInv
<1>1. BackfillInit => BackfillInv
  BY BackfillAssumption
     DEF BackfillInit, BackfillInv, BackfillTypeOK, Once, Reachable, Activating, Activated
<1>2. BackfillInv /\ [BackfillNext]_backfillVars => BackfillInv'
  <2> SUFFICES ASSUME BackfillInv, [BackfillNext]_backfillVars PROVE BackfillInv'
    OBVIOUS
  <2>1. CASE UNCHANGED backfillVars
    <3>1. UNCHANGED <<ranked, known, available, scan, pick, tasks, phase, inMatch, restarts>>
      BY <2>1, Zenon DEF backfillVars, scanVars, botVars
    <3>2. BackfillTypeOK'
      BY <3>1, Zenon DEF BackfillInv, BackfillTypeOK
    <3> QED
      BY <3>1, <3>2, SameBots, Zenon DEF Activating
  <2> QED
    BY <2>1, HumanKeeps, ScanKeeps, RunnerKeeps, DeliverKeeps DEF BackfillNext
<1> QED
  BY <1>1, <1>2, PTL DEF BackfillSpec

\* The variables keep their types: a scan holds at most one bot.
THEOREM BackfillTyped == BackfillSpec => []BackfillTypeOK
<1>1. BackfillInv => BackfillTypeOK
  BY DEF BackfillInv
<1> QED
  BY <1>1, BackfillInvariant, PTL

\* However the scans of the instances interleave, a bot whose runner was not restarted
\* has one activation at a time: claimed by one scan, or one task, or one match.
THEOREM ClaimIsExclusive == BackfillSpec => []NoDoubleActivation
<1>1. BackfillInv => NoDoubleActivation
  <2> SUFFICES ASSUME BackfillInv, restarts = 0, NEW b \in Bots
               PROVE  /\ \A m, n \in Activating(b) : m = n
                      /\ tasks[b] + (IF Activating(b) # {} THEN 1 ELSE 0)
                             + (IF Activated(b) THEN 1 ELSE 0) <= 1
    BY DEF NoDoubleActivation
  <2>1. tasks[b] \in Nat /\ Once(b)
    BY DEF BackfillInv, BackfillTypeOK
  <2> QED
    BY <2>1 DEF Once
<1> QED
  BY <1>1, BackfillInvariant, PTL

\* When each bot's server takes its own tasks only, no failed task, lost connection,
\* timeout or restart leaves an idle bot where the detector cannot reach it.
THEOREM IdleBotsReachable == ~SharedPickup => (BackfillSpec => []IdleBotReachable)
<1> SUFFICES ASSUME ~SharedPickup PROVE BackfillSpec => []IdleBotReachable
  OBVIOUS
<1>1. BackfillInv => IdleBotReachable
  BY DEF BackfillInv, Reachable, IdleBotReachable
<1> QED
  BY <1>1, BackfillInvariant, PTL
=============================================================================
