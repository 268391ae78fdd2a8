---------------------------- MODULE StreamWorker ----------------------------
(***************************************************************************)
(* shared/streams: one Redis stream, one consumer group, and the Workers   *)
(* (one per service instance) that drain it.  Every Worker runs two loops  *)
(* at once, consumeLoop (XREADGROUP >) and claimLoop (XAUTOCLAIM), and both *)
(* feed processMessage.                                                    *)
(*                                                                         *)
(* Entry ids are 1, 2, ... in XADD order.  The group's state is its        *)
(* last-delivered-id (cursor) and its pending-entries list (pel, with the  *)
(* delivery count Redis keeps for every entry).  Delivery counts saturate  *)
(* at MaxRetries, the only number the code compares them with.             *)
(***************************************************************************)
EXTENDS Integers, FiniteSets

CONSTANTS
    Instances,   \* service instances that run a Worker of this group
    MaxRetries,  \* Worker.maxRetries
    Batch,       \* Worker.batch
    MaxLen,      \* Producer.maxLen
    Malformed,   \* ids whose entry carries no payload field
    MaxId,       \* bound: entries published
    MaxSkips,    \* bound: deliveries of an entry that end in ErrSkipAck
    MaxCrashes   \* bound: instance crashes

ASSUME StreamAssumption ==
    /\ MaxRetries \in Nat \ {0}
    /\ Batch \in Nat \ {0}
    /\ MaxLen \in Nat \ {0}
    /\ Malformed \subseteq 1..MaxId
    /\ MaxId \in Nat
    /\ MaxSkips \in Nat
    /\ MaxCrashes \in Nat

VARIABLES
    lastId,      \* id of the newest entry ever added
    stream,      \* ids still stored; the others were trimmed by MAXLEN
    groupStart,  \* the "$" the group was created at, -1 before that
    cursor,      \* last-delivered-id of the group
    pel,         \* delivered and not acked
    count,       \* delivery count of every entry, saturating
    idle,        \* pending entries idle for at least claimMinIdle
    pc,          \* per loop: what it does with cur
    cur,         \* per loop: the entry in processMessage
    todo,        \* per loop: the rest of the batch
    claimNext,   \* per instance: claimLoop's nextID
    crashes,
    dlq,         \* entries copied to the dead-letter stream
    handled,     \* history: entries the Handler returned nil for
    skips        \* history: per entry, deliveries that ended in ErrSkipAck

groupVars == <<groupStart, cursor, pel, count, idle>>
loopVars  == <<pc, cur, todo>>
vars == <<lastId, stream, groupVars, loopVars, claimNext, crashes, dlq,
          handled, skips>>

Loops == Instances \X {"consume", "claim"}
EntryIds == 1..MaxId

Added == 1..lastId
CountCap == MaxRetries
Cap(n) == IF n > CountCap THEN CountCap ELSE n
IsLeast(i, S) == i \in S /\ \A j \in S : i <= j

Init ==
    /\ lastId = 0
    /\ stream = {}
    /\ groupStart = -1
    /\ cursor = 0
    /\ pel = {}
    /\ count = [i \in EntryIds |-> 0]
    /\ idle = {}
    /\ pc = [l \in Loops |-> "next"]
    /\ cur = [l \in Loops |-> 0]
    /\ todo = [l \in Loops |-> {}]
    /\ claimNext = [n \in Instances |-> 0]
    /\ crashes = 0
    /\ dlq = {}
    /\ handled = {}
    /\ skips = [i \in EntryIds |-> 0]

-----------------------------------------------------------------------------
(* Producer.Publish: XADD with MAXLEN ~ maxLen.  The approximate trim may  *)
(* keep more than maxLen entries, never fewer.                             *)
ProducerPublish ==
    /\ lastId < MaxId
    /\ lastId' = lastId + 1
    /\ LET added == stream \cup {lastId + 1}
       IN  stream' \in {added, {i \in added : i > lastId + 1 - MaxLen}}
    /\ UNCHANGED <<groupVars, loopVars, claimNext, crashes, dlq, handled, skips>>

(* Worker.ensureGroup: XGROUP CREATE at "$"; BUSYGROUP is success.         *)
EnsureGroup ==
    /\ groupStart = -1
    /\ groupStart' = lastId
    /\ cursor' = lastId
    /\ UNCHANGED <<lastId, stream, pel, count, idle, loopVars, claimNext,
                   crashes, dlq, handled, skips>>

Goto(l, at, i) == /\ pc' = [pc EXCEPT ![l] = at]
                  /\ cur' = [cur EXCEPT ![l] = i]
Return(l) == Goto(l, "next", 0)
LoopFree(l) == pc[l] = "next" /\ todo[l] = {}

(* consumeLoop: XREADGROUP > returns the oldest undelivered entries, at    *)
(* most a batch, adds them to the pending list and moves the cursor.       *)
ConsumeLoop(n) ==
    LET l == <<n, "consume">>
        fresh == {i \in stream : i > cursor}
    IN
    /\ groupStart # -1
    /\ LoopFree(l)
    /\ \E last \in fresh :
          LET got == {i \in fresh : i <= last}
          IN  /\ Cardinality(got) <= Batch
              /\ got = fresh \/ Cardinality(got) = Batch
              /\ todo' = [todo EXCEPT ![l] = got]
              /\ pel' = pel \cup got
              /\ count' = [i \in EntryIds |-> IF i \in got THEN 1 ELSE count[i]]
              /\ cursor' = last
    /\ UNCHANGED <<lastId, stream, groupStart, idle, pc, cur, claimNext,
                   crashes, dlq, handled, skips>>

(* The id XAUTOCLAIM returns to go on from: the entry after the batch, 0-0 *)
(* once the whole pending list was scanned.                                *)
NextID_NoWrap(taken, next) ==
    LET rest == {i \in pel : \A j \in taken : i > j}
    IN  IF taken # {} /\ rest # {} THEN IsLeast(next, rest) ELSE next = MaxId

NextID(taken, next) ==
    LET rest == {i \in pel : \A j \in taken : i > j}
    IN  IF Cardinality(taken) = Batch /\ rest # {} THEN IsLeast(next, rest)
                                                  ELSE next = 0

(* claimLoop: XAUTOCLAIM from nextID takes idle entries, at most a batch,   *)
(* whoever they were delivered to; it charges one delivery to each.        *)
(* Entries that were trimmed meanwhile leave the pending list undelivered. *)
ClaimLoop(n) ==
    LET l == <<n, "claim">>
        ready == {i \in pel : i >= claimNext[n] /\ (i \in idle \/ i \notin stream)}
    IN
    /\ groupStart # -1
    /\ LoopFree(l)
    /\ \E taken \in SUBSET ready, next \in 0..MaxId :
          LET claimed == taken \cap stream
          IN  /\ \A i \in taken, j \in ready \ taken : i < j
              /\ Cardinality(taken) <= Batch
              /\ taken = ready \/ Cardinality(taken) = Batch
              /\ todo' = [todo EXCEPT ![l] = claimed]
              /\ pel' = pel \ (taken \ stream)
              /\ count' = [i \in EntryIds |-> IF i \in claimed THEN Cap(count[i] + 1) ELSE count[i]]
              /\ idle' = idle \ taken
              /\ NextID(taken, next)
              /\ claimNext' = [claimNext EXCEPT ![n] = next]
    /\ UNCHANGED <<lastId, stream, groupStart, cursor, pc, cur, crashes, dlq,
                   handled, skips>>

(* Time passes: an unacked entry crosses claimMinIdle.                     *)
CrossMinIdle(i) ==
    /\ i \in pel \ idle
    /\ idle' = idle \cup {i}
    /\ UNCHANGED <<lastId, stream, groupStart, cursor, pel, count, loopVars,
                   claimNext, crashes, dlq, handled, skips>>

-----------------------------------------------------------------------------
(* processMessage: the next entry of the batch, up to the return of the    *)
(* Handler.  A malformed entry goes straight to XACK.                      *)
Handle(l) ==
    /\ pc[l] = "next"
    /\ \E i \in todo[l] :
           /\ IsLeast(i, todo[l])
           /\ todo' = [todo EXCEPT ![l] = @ \ {i}]
           /\ \/ /\ i \in Malformed
                 /\ Goto(l, "ack", i)
                 /\ UNCHANGED <<handled, skips>>
              \/ /\ i \notin Malformed
                 /\ Goto(l, "ack", i)
                 /\ handled' = handled \cup {i}
                 /\ UNCHANGED skips
              \/ /\ i \notin Malformed
                 /\ Goto(l, "count", i)
                 /\ UNCHANGED <<handled, skips>>
              \/ /\ i \notin Malformed
                 /\ skips[i] < MaxSkips
                 /\ Return(l)
                 /\ skips' = [skips EXCEPT ![i] = @ + 1]
                 /\ UNCHANGED handled
    /\ UNCHANGED <<lastId, stream, groupVars, claimNext, crashes, dlq>>

(* XACK, after success, after a malformed entry, or after the DLQ copy.    *)
Ack(l) ==
    /\ pc[l] \in {"ack", "ackdlq"}
    /\ Return(l)
    /\ pel' = pel \ {cur[l]}
    /\ idle' = idle \ {cur[l]}
    /\ UNCHANGED <<lastId, stream, groupStart, cursor, count, todo,
                   claimNext, crashes, dlq, handled, skips>>

(* deliveryCount: XPENDING of the one id; an entry no longer pending        *)
(* counts 0.                                                               *)
DeliveryCount_OffByOne(i) == IF i \in pel THEN count[i] + 1 ELSE 0

DeliveryCount(i) == IF i \in pel THEN count[i] ELSE 0

CheckRetries(l) ==
    /\ pc[l] = "count"
    /\ IF DeliveryCount(cur[l]) >= MaxRetries THEN Goto(l, "dlq", cur[l])
                                             ELSE Return(l)
    /\ UNCHANGED <<lastId, stream, groupVars, todo, claimNext, crashes,
                   dlq, handled, skips>>

ToDLQ_AckFirst(l) ==
    /\ pc[l] = "dlq"
    /\ dlq' \in {dlq, dlq \cup {cur[l]}}
    /\ pel' = pel \ {cur[l]}
    /\ idle' = idle \ {cur[l]}
    /\ Return(l)
    /\ UNCHANGED <<lastId, stream, groupStart, cursor, count, todo, claimNext,
                   crashes, handled, skips>>

(* toDLQ: XADD to the dead-letter stream first, XACK of the original next. *)
ToDLQ(l) ==
    /\ pc[l] = "dlq"
    /\ dlq' = dlq \cup {cur[l]}
    /\ Goto(l, "ackdlq", cur[l])
    /\ UNCHANGED <<lastId, stream, groupVars, todo, claimNext, crashes,
                   handled, skips>>

(* Any of those Redis commands fails: the code logs and leaves the entry   *)
(* pending.                                                                *)
RedisError(l) ==
    /\ pc[l] # "next"
    /\ Return(l)
    /\ UNCHANGED <<lastId, stream, groupVars, todo, claimNext, crashes,
                   dlq, handled, skips>>

(* The process dies and restarts: both loops forget their batch.           *)
WorkerCrash(n) ==
    /\ crashes < MaxCrashes
    /\ crashes' = crashes + 1
    /\ pc' = [l \in Loops |-> IF l[1] = n THEN "next" ELSE pc[l]]
    /\ cur' = [l \in Loops |-> IF l[1] = n THEN 0 ELSE cur[l]]
    /\ todo' = [l \in Loops |-> IF l[1] = n THEN {} ELSE todo[l]]
    /\ claimNext' = [claimNext EXCEPT ![n] = 0]
    /\ UNCHANGED <<lastId, stream, groupVars, dlq, handled, skips>>

ProcessMessage(l) == Handle(l) \/ Ack(l) \/ CheckRetries(l) \/ ToDLQ(l)

Next ==
    \/ ProducerPublish
    \/ EnsureGroup
    \/ \E n \in Instances : ConsumeLoop(n) \/ ClaimLoop(n) \/ WorkerCrash(n)
    \/ \E l \in Loops : ProcessMessage(l) \/ RedisError(l)
    \/ \E i \in EntryIds : CrossMinIdle(i)

Spec == Init /\ [][Next]_vars

(* Both loops run until the context is cancelled, time passes, and Redis   *)
(* does not fail every time a command is retried.                          *)
Fairness ==
    /\ \A n \in Instances : WF_vars(ConsumeLoop(n)) /\ WF_vars(ClaimLoop(n))
    /\ \A l \in Loops : /\ WF_vars(ProcessMessage(l))
                        /\ SF_vars(Ack(l))
                        /\ SF_vars(CheckRetries(l))
                        /\ SF_vars(ToDLQ(l))
    /\ \A i \in EntryIds : WF_vars(CrossMinIdle(i))

FairSpec == Spec /\ Fairness

-----------------------------------------------------------------------------
TypeOK ==
    /\ lastId \in 0..MaxId
    /\ stream \subseteq Added
    /\ groupStart \in -1..MaxId
    /\ cursor \in 0..MaxId
    /\ pel \subseteq EntryIds
    /\ count \in [EntryIds -> 0..CountCap]
    /\ idle \subseteq pel
    /\ pc \in [Loops -> {"next", "ack", "count", "dlq", "ackdlq"}]
    /\ cur \in [Loops -> 0..MaxId]
    /\ \A l \in Loops : pc[l] # "next" => cur[l] \in EntryIds
    /\ todo \in [Loops -> SUBSET EntryIds]
    /\ claimNext \in [Instances -> 0..MaxId]
    /\ crashes \in 0..MaxCrashes
    /\ dlq \subseteq EntryIds
    /\ handled \subseteq EntryIds
    /\ skips \in [EntryIds -> 0..MaxSkips]

(* "Better duplicate DLQ entries than losing a message entirely"           *)
(* (worker.go:297): an entry added after the group was created and not     *)
(* trimmed is still to be delivered, pending, handled, or dead-lettered,   *)
(* whatever crashes, failed commands and overlapping loops do.             *)
NoSilentLoss ==
    groupStart # -1 =>
        \A i \in stream \ Malformed :
            i > groupStart => i > cursor \/ i \in pel \cup handled \cup dlq

(* No entry is dead-lettered before it was delivered MaxRetries times      *)
(* (worker.go:248-262), although the count is read in a step of its own    *)
(* while other loops claim and ack.  Deliveries that end in ErrSkipAck are *)
(* among the MaxRetries.                                                   *)
BudgetRespected == \A i \in dlq : count[i] >= MaxRetries

(* Every delivered entry eventually leaves the pending list: the claim     *)
(* loop retries what a crash, a failed command or a failing Handler left   *)
(* behind until it is acked or dead-lettered (streams.go:32-35).           *)
PendingDrains == \A i \in EntryIds : i \in pel ~> i \notin pel
=============================================================================
