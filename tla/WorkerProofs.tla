---------------------------- MODULE WorkerProofs ----------------------------
(***************************************************************************)
(* Work done in the background.  The consumer group of a stream: its       *)
(* types, NoSilentLoss and BudgetRespected, for any number of instances,   *)
(* entries, retries and crashes.                                           *)
(*                                                                         *)
(* One activation of a bot, from the queue to its last move, whatever      *)
(* order the events reach it in, and the rules of tic-tac-toe it plays by, *)
(* under moves and timeouts in any order.                                  *)
(***************************************************************************)
EXTENDS StreamWorker, TicTacToe, BotRunner, TLAPS

\* The time a leaf that names no prover may take.
USE SMTT(60), ZenonT(20)

(***************************************************************************)
(* The consumer group of a stream.                                         *)
(***************************************************************************)
(* What makes NoSilentLoss inductive: a loop about to ack an entry has      *)
(* seen its Handler succeed (or the entry is malformed), and one about to   *)
(* ack after toDLQ has already copied it.                                  *)
AckJustified ==
    \A l \in Loops :
        /\ pc[l] = "ack" => cur[l] \in handled \cup Malformed
        /\ pc[l] = "ackdlq" => cur[l] \in dlq

(* The cursor never runs ahead of what was added, so an entry added later   *)
(* is still to be delivered.                                               *)
CursorBehind == cursor <= lastId

LossInv == TypeOK /\ AckJustified /\ CursorBehind /\ NoSilentLoss

-----------------------------------------------------------------------------

(* Every step keeps the variables in their types (for the members of vars   *)
(* see StreamWorker).                                                      *)
LEMMA TypeStep == TypeOK /\ [Next]_vars => TypeOK'
<1> SUFFICES ASSUME TypeOK, [Next]_vars PROVE TypeOK'
  OBVIOUS
<1> USE StreamAssumption
<1>1. CASE ProducerPublish
  <2>1. lastId' \in 0..MaxId /\ lastId' = lastId + 1
    BY <1>1 DEF TypeOK, ProducerPublish
  <2>2. stream' \subseteq stream \cup {lastId + 1}
    BY <1>1 DEF ProducerPublish
  <2>3. stream' \subseteq 1..lastId'
    BY <2>1, <2>2 DEF TypeOK, Added
  <2> QED
    BY <1>1, <2>1, <2>3 DEF TypeOK, ProducerPublish, Added, groupVars, loopVars
<1>2. CASE EnsureGroup
  BY <1>2 DEF TypeOK, EnsureGroup, Added, loopVars
<1>3. ASSUME NEW n \in Instances, ConsumeLoop(n) PROVE TypeOK'
  <2> DEFINE l == <<n, "consume">>
             fresh == {i \in stream : i > cursor}
  <2>1. PICK last \in fresh, got \in SUBSET fresh :
            /\ todo' = [todo EXCEPT ![l] = got]
            /\ pel' = pel \cup got
            /\ count' = [i \in EntryIds |-> IF i \in got THEN 1 ELSE count[i]]
            /\ cursor' = last
    BY <1>3, Zenon DEF ConsumeLoop
  <2>2. got \subseteq EntryIds /\ last \in EntryIds /\ l \in Loops
    BY DEF TypeOK, Added, EntryIds, Loops
  <2>3. todo' \in [Loops -> SUBSET EntryIds] /\ pel' \subseteq EntryIds /\ cursor' \in 0..MaxId
    BY <2>1, <2>2 DEF TypeOK, EntryIds
  <2>4. count' \in [EntryIds -> 0..CountCap]
    <3>1. 1 \in 0..CountCap
      BY DEF CountCap
    <3> QED BY <2>1, <3>1 DEF TypeOK
  <2>5. idle' \subseteq pel'
    BY <1>3, <2>1 DEF TypeOK, ConsumeLoop
  <2> QED
    BY <1>3, <2>3, <2>4, <2>5 DEF TypeOK, ConsumeLoop, Added
<1>4. ASSUME NEW n \in Instances, ClaimLoop(n) PROVE TypeOK'
  <2> DEFINE l == <<n, "claim">>
             ready == {i \in pel : i >= claimNext[n] /\ (i \in idle \/ i \notin stream)}
  <2>1. PICK taken \in SUBSET ready, next \in 0..MaxId :
            /\ todo' = [todo EXCEPT ![l] = taken \cap stream]
            /\ pel' = pel \ (taken \ stream)
            /\ count' = [i \in EntryIds |-> IF i \in taken \cap stream
                                        THEN Cap(count[i] + 1) ELSE count[i]]
            /\ idle' = idle \ taken
            /\ claimNext' = [claimNext EXCEPT ![n] = next]
    BY <1>4, Zenon DEF ClaimLoop
  <2>2. taken \subseteq EntryIds /\ l \in Loops
    BY DEF TypeOK, Loops
  <2>3. todo' \in [Loops -> SUBSET EntryIds] /\ pel' \subseteq EntryIds /\ idle' \subseteq pel'
    BY <2>1, <2>2 DEF TypeOK
  <2>4. count' \in [EntryIds -> 0..CountCap]
    BY <2>1 DEF TypeOK, Cap, CountCap
  <2>5. claimNext' \in [Instances -> 0..MaxId]
    BY <2>1 DEF TypeOK
  <2> QED
    BY <1>4, <2>3, <2>4, <2>5 DEF TypeOK, ClaimLoop, Added
<1>5. ASSUME NEW n \in Instances, WorkerCrash(n) PROVE TypeOK'
  BY <1>5 DEF TypeOK, WorkerCrash, Added, groupVars
<1>6. ASSUME NEW l \in Loops, Handle(l) PROVE TypeOK'
  <2>1. PICK i \in todo[l] :
            /\ todo' = [todo EXCEPT ![l] = @ \ {i}]
            /\ \/ Goto(l, "ack", i) /\ handled' \subseteq handled \cup {i} /\ skips' = skips
               \/ Goto(l, "count", i) /\ handled' = handled /\ skips' = skips
               \/ /\ Goto(l, "next", 0) /\ handled' = handled
                  /\ skips[i] < MaxSkips /\ skips' = [skips EXCEPT ![i] = @ + 1]
    BY <1>6, Zenon DEF Handle, Return
  <2>2. i \in EntryIds /\ i \in 0..MaxId
    BY DEF TypeOK, EntryIds
  <2>3. todo' \in [Loops -> SUBSET EntryIds] /\ handled' \subseteq EntryIds
    BY <2>1, <2>2, Zenon DEF TypeOK
  <2>4. skips' \in [EntryIds -> 0..MaxSkips]
    BY <2>1, <2>2 DEF TypeOK
  <2>5. /\ pc' \in [Loops -> {"next", "ack", "count", "dlq", "ackdlq"}]
        /\ cur' \in [Loops -> 0..MaxId]
        /\ \A k \in Loops : pc'[k] # "next" => cur'[k] \in EntryIds
    BY <2>1, <2>2 DEF TypeOK, Goto
  <2> QED
    BY <1>6, <2>3, <2>4, <2>5 DEF TypeOK, Handle, Added, groupVars
<1>7. ASSUME NEW l \in Loops, Ack(l) PROVE TypeOK'
  BY <1>7 DEF TypeOK, Ack, Goto, Return, Added
<1>8. ASSUME NEW l \in Loops, CheckRetries(l) PROVE TypeOK'
  BY <1>8 DEF TypeOK, CheckRetries, Goto, Return, Added, groupVars
<1>9. ASSUME NEW l \in Loops, ToDLQ(l) PROVE TypeOK'
  BY <1>9 DEF TypeOK, ToDLQ, Goto, Added, groupVars
<1>10. ASSUME NEW l \in Loops, RedisError(l) PROVE TypeOK'
  BY <1>10 DEF TypeOK, RedisError, Goto, Return, Added, groupVars
<1>11. ASSUME NEW i \in EntryIds, CrossMinIdle(i) PROVE TypeOK'
  BY <1>11 DEF TypeOK, CrossMinIdle, Added, loopVars
<1>12. CASE UNCHANGED vars
  BY <1>12 DEF TypeOK, vars, groupVars, loopVars, Added
<1> QED
  BY <1>1, <1>2, <1>3, <1>4, <1>5, <1>6, <1>7, <1>8, <1>9, <1>10, <1>11, <1>12
  DEF Next, ProcessMessage

(* StreamWorker is type correct.                                           *)
THEOREM TypeCorrect == Spec => []TypeOK
<1>1. Init => TypeOK
  BY StreamAssumption DEF Init, TypeOK, Added, EntryIds, CountCap
<1> QED
  BY <1>1, TypeStep, PTL DEF Spec

-----------------------------------------------------------------------------

(* The strengthened invariant is preserved by every step.                  *)
LEMMA LossStep == LossInv /\ [Next]_vars => LossInv'
<1> SUFFICES ASSUME LossInv, [Next]_vars
             PROVE  AckJustified' /\ CursorBehind' /\ NoSilentLoss'
  BY TypeStep DEF LossInv
<1> USE StreamAssumption DEF LossInv
<1>1. CASE ProducerPublish
  <2>1. AckJustified'
    BY <1>1 DEF ProducerPublish, AckJustified, loopVars
  <2>2. CursorBehind' /\ lastId' = lastId + 1 /\ UNCHANGED <<groupVars, dlq, handled>>
    BY <1>1 DEF ProducerPublish, CursorBehind, groupVars, TypeOK
  <2>3. stream' \subseteq stream \cup {lastId + 1}
    BY <1>1 DEF ProducerPublish
  <2>4. NoSilentLoss'
    BY <2>2, <2>3 DEF NoSilentLoss, CursorBehind, groupVars, TypeOK
  <2> QED BY <2>1, <2>2, <2>4
<1>2. CASE EnsureGroup
  <2>1. AckJustified'
    BY <1>2 DEF EnsureGroup, AckJustified, loopVars
  <2>2. CursorBehind' /\ NoSilentLoss'
    BY <1>2 DEF EnsureGroup, CursorBehind, NoSilentLoss, TypeOK, Added
  <2> QED BY <2>1, <2>2
<1>3. ASSUME NEW n \in Instances, ConsumeLoop(n)
      PROVE  AckJustified' /\ CursorBehind' /\ NoSilentLoss'
  <2> DEFINE fresh == {i \in stream : i > cursor}
  <2>1. PICK last \in fresh :
            /\ pel' = pel \cup {i \in fresh : i <= last}
            /\ cursor' = last
    BY <1>3 DEF ConsumeLoop
  <2>2. AckJustified'
    BY <1>3 DEF ConsumeLoop, AckJustified
  <2>3. CursorBehind'
    BY <1>3, <2>1 DEF ConsumeLoop, CursorBehind, TypeOK, Added
  <2>4. NoSilentLoss'
    BY <1>3, <2>1 DEF ConsumeLoop, NoSilentLoss, TypeOK, Added
  <2> QED BY <2>2, <2>3, <2>4
<1>4. ASSUME NEW n \in Instances, ClaimLoop(n)
      PROVE  AckJustified' /\ CursorBehind' /\ NoSilentLoss'
  <2>1. PICK taken : pel' = pel \ (taken \ stream)
    BY <1>4 DEF ClaimLoop
  <2>2. AckJustified' /\ CursorBehind'
    BY <1>4 DEF ClaimLoop, AckJustified, CursorBehind
  <2>3. NoSilentLoss'
    BY <1>4, <2>1 DEF ClaimLoop, NoSilentLoss
  <2> QED BY <2>2, <2>3
<1>5. ASSUME NEW n \in Instances, WorkerCrash(n)
      PROVE  AckJustified' /\ CursorBehind' /\ NoSilentLoss'
  <2>1. AckJustified'
    BY <1>5 DEF WorkerCrash, AckJustified
  <2>2. CursorBehind' /\ NoSilentLoss'
    BY <1>5 DEF WorkerCrash, CursorBehind, NoSilentLoss, groupVars
  <2> QED BY <2>1, <2>2
<1>6. ASSUME NEW l \in Loops, Handle(l)
      PROVE  AckJustified' /\ CursorBehind' /\ NoSilentLoss'
  <2>1. PICK i : \/ Goto(l, "ack", i) /\ (i \in Malformed \/ i \in handled')
                 \/ Goto(l, "count", i)
                 \/ Goto(l, "next", 0)
    BY <1>6 DEF Handle, Return
  <2>2. handled \subseteq handled'
    BY <1>6 DEF Handle
  <2>3. AckJustified'
    BY <1>6, <2>1, <2>2 DEF Handle, Goto, AckJustified, TypeOK
  <2>4. CursorBehind' /\ NoSilentLoss'
    BY <1>6, <2>2, Zenon DEF Handle, CursorBehind, NoSilentLoss, groupVars
  <2> QED BY <2>3, <2>4
<1>7. ASSUME NEW l \in Loops, Ack(l)
      PROVE  AckJustified' /\ CursorBehind' /\ NoSilentLoss'
  <2>1. cur[l] \in handled \cup Malformed \cup dlq
    BY <1>7 DEF Ack, AckJustified
  <2>2. AckJustified'
    BY <1>7 DEF Ack, Return, Goto, AckJustified, TypeOK
  <2>3. CursorBehind' /\ NoSilentLoss'
    BY <1>7, <2>1 DEF Ack, CursorBehind, NoSilentLoss
  <2> QED BY <2>2, <2>3
<1>8. ASSUME NEW l \in Loops, CheckRetries(l)
      PROVE  AckJustified' /\ CursorBehind' /\ NoSilentLoss'
  <2>1. AckJustified'
    BY <1>8 DEF CheckRetries, Return, Goto, AckJustified, TypeOK
  <2>2. CursorBehind' /\ NoSilentLoss'
    BY <1>8 DEF CheckRetries, CursorBehind, NoSilentLoss, groupVars
  <2> QED BY <2>1, <2>2
<1>9. ASSUME NEW l \in Loops, ToDLQ(l)
      PROVE  AckJustified' /\ CursorBehind' /\ NoSilentLoss'
  <2>1. AckJustified'
    BY <1>9 DEF ToDLQ, Goto, AckJustified, TypeOK
  <2>2. CursorBehind' /\ NoSilentLoss'
    BY <1>9 DEF ToDLQ, CursorBehind, NoSilentLoss, groupVars
  <2> QED BY <2>1, <2>2
<1>10. ASSUME NEW l \in Loops, RedisError(l)
       PROVE  AckJustified' /\ CursorBehind' /\ NoSilentLoss'
  <2>1. AckJustified'
    BY <1>10 DEF RedisError, Return, Goto, AckJustified, TypeOK
  <2>2. CursorBehind' /\ NoSilentLoss'
    BY <1>10 DEF RedisError, CursorBehind, NoSilentLoss, groupVars
  <2> QED BY <2>1, <2>2
<1>11. ASSUME NEW i \in EntryIds, CrossMinIdle(i)
       PROVE  AckJustified' /\ CursorBehind' /\ NoSilentLoss'
  BY <1>11 DEF CrossMinIdle, AckJustified, CursorBehind, NoSilentLoss, loopVars
<1>12. CASE UNCHANGED vars
  BY <1>12 DEF vars, groupVars, loopVars, AckJustified, CursorBehind, NoSilentLoss
<1> QED
  BY <1>1, <1>2, <1>3, <1>4, <1>5, <1>6, <1>7, <1>8, <1>9, <1>10, <1>11, <1>12
  DEF Next, ProcessMessage

(* An entry published after the group exists is never lost by the Worker:   *)
(* until MAXLEN trims it, it is undelivered, pending, handled or in the     *)
(* dead-letter stream (processMessage and toDLQ, worker.go:222-308).        *)
THEOREM NoSilentLossHolds == Spec => []NoSilentLoss
<1>1. Init => LossInv
  BY StreamAssumption DEF Init, LossInv, TypeOK, AckJustified, CursorBehind,
                          NoSilentLoss, Added, EntryIds, CountCap
<1>2. LossInv => NoSilentLoss
  BY Zenon DEF LossInv
<1> QED
  BY <1>1, <1>2, LossStep, PTL DEF Spec

-----------------------------------------------------------------------------

(* What makes BudgetRespected inductive: only entries behind the cursor are *)
(* pending, and only a first delivery, ahead of it, resets a count.         *)
Spent(i) == i <= cursor /\ count[i] >= MaxRetries

BudgetInv ==
    /\ \A i \in pel : i <= cursor
    /\ \A i \in dlq : Spent(i)
    /\ \A l \in Loops : pc[l] = "dlq" => Spent(cur[l])

(* Every step keeps it.                                                    *)
LEMMA BudgetStep == LossInv /\ BudgetInv /\ [Next]_vars => BudgetInv'
<1> SUFFICES ASSUME LossInv, BudgetInv, [Next]_vars PROVE BudgetInv'
  BY Zenon
<1> USE StreamAssumption DEF LossInv, BudgetInv, Spent
<1>1. CASE ProducerPublish
  BY <1>1 DEF ProducerPublish, loopVars, groupVars
<1>2. CASE EnsureGroup
  BY <1>2 DEF EnsureGroup, TypeOK, CursorBehind, loopVars, EntryIds
<1>3. ASSUME NEW n \in Instances, ConsumeLoop(n) PROVE BudgetInv'
  <2>1. PICK last \in {i \in stream : i > cursor} :
          LET got == {i \in stream : i > cursor /\ i <= last}
          IN  /\ pel' = pel \cup got /\ cursor' = last
              /\ count' = [i \in EntryIds |-> IF i \in got THEN 1 ELSE count[i]]
    BY <1>3 DEF ConsumeLoop
  <2>2. cursor <= cursor' /\ \A i \in pel' : i <= cursor'
    BY <2>1 DEF TypeOK, Added, EntryIds
  <2>3. ASSUME NEW i \in EntryIds, Spent(i) PROVE Spent(i)'
    BY <2>1, <2>2, <2>3 DEF TypeOK, Added, EntryIds
  <2>4. UNCHANGED <<dlq, pc, cur>>
    BY <1>3 DEF ConsumeLoop
  <2> QED
    BY <2>2, <2>3, <2>4 DEF TypeOK
<1>4. ASSUME NEW n \in Instances, ClaimLoop(n) PROVE BudgetInv'
  <2>1. PICK claimed : /\ pel' \subseteq pel
                       /\ count' = [i \in EntryIds |-> IF i \in claimed THEN Cap(count[i] + 1)
                                                                  ELSE count[i]]
    BY <1>4, Zenon DEF ClaimLoop
  <2>2. UNCHANGED <<cursor, dlq, pc, cur>>
    BY <1>4 DEF ClaimLoop
  <2>3. ASSUME NEW i \in EntryIds, Spent(i) PROVE Spent(i)'
    BY <2>1, <2>2, <2>3 DEF TypeOK, Cap, CountCap
  <2> QED
    BY <2>1, <2>2, <2>3 DEF TypeOK
<1>5. ASSUME NEW n \in Instances, WorkerCrash(n) PROVE BudgetInv'
  BY <1>5, Zenon DEF WorkerCrash, TypeOK, groupVars
<1>6. ASSUME NEW l \in Loops, Handle(l) PROVE BudgetInv'
  <2>1. \A k \in Loops : pc'[k] = "dlq" => pc[k] = "dlq" /\ cur'[k] = cur[k]
    BY <1>6 DEF Handle, Goto, Return, TypeOK
  <2>2. UNCHANGED <<cursor, pel, count, dlq>>
    BY <1>6 DEF Handle, groupVars
  <2> QED
    BY <2>1, <2>2
<1>7. ASSUME NEW l \in Loops, Ack(l) PROVE BudgetInv'
  BY <1>7 DEF Ack, Goto, Return, TypeOK
<1>8. ASSUME NEW l \in Loops, CheckRetries(l) PROVE BudgetInv'
  BY <1>8 DEF CheckRetries, DeliveryCount, Goto, Return, TypeOK, groupVars
<1>9. ASSUME NEW l \in Loops, ToDLQ(l) PROVE BudgetInv'
  BY <1>9 DEF ToDLQ, Goto, TypeOK, groupVars
<1>10. ASSUME NEW l \in Loops, RedisError(l) PROVE BudgetInv'
  BY <1>10, Zenon DEF RedisError, Goto, Return, TypeOK, groupVars
<1>11. ASSUME NEW i \in EntryIds, CrossMinIdle(i) PROVE BudgetInv'
  BY <1>11 DEF CrossMinIdle, loopVars
<1>12. CASE UNCHANGED vars
  BY <1>12 DEF vars, loopVars, groupVars
<1> QED
  BY <1>1, <1>2, <1>3, <1>4, <1>5, <1>6, <1>7, <1>8, <1>9, <1>10, <1>11, <1>12
  DEF Next, ProcessMessage

(* processMessage dead-letters an entry only after MaxRetries deliveries,   *)
(* whichever loops and instances delivered it and whatever was acked since  *)
(* the count was read (worker.go:248-262).                                 *)
THEOREM BudgetHolds == Spec => []BudgetRespected
<1>1. Init => LossInv /\ BudgetInv
  BY StreamAssumption DEF Init, LossInv, TypeOK, Added, EntryIds, CountCap, AckJustified,
     CursorBehind, NoSilentLoss, BudgetInv
<1>2. LossInv /\ BudgetInv /\ [Next]_vars => LossInv' /\ BudgetInv'
  BY LossStep, BudgetStep
<1>3. BudgetInv => BudgetRespected
  BY DEF BudgetInv, Spent, BudgetRespected
<1> QED
  BY <1>1, <1>2, <1>3, PTL DEF Spec


(***************************************************************************)
(* Tic-tac-toe, whatever the players and their timers do.                  *)
(***************************************************************************)
TTSpec == TTInit /\ [][TTNext]_ttVars

TTTyped ==
    ttt \in [board : [Cells -> {X, O, Nobody}], current : {X, O}, forfeit : {X, O, Nobody}]

TTInv == TTTyped /\ LastMoverWins

LEMMA NotOver ==
    ASSUME TTTyped, ~TTIsOver(ttt)
    PROVE  /\ ttt.forfeit = Nobody /\ Lines(ttt, X) = {} /\ Lines(ttt, O) = {}
           /\ \E c \in Cells : ttt.board[c] = Nobody
<1>1. TTWinner(ttt) = Nobody
      BY DEF TTIsOver
<1>2. ttt.forfeit = Nobody
      BY <1>1, TTTAssumption DEF TTWinner, Other, TTTyped
<1>3. Lines(ttt, X) = {} /\ Lines(ttt, O) = {}
      BY <1>1, <1>2, TTTAssumption DEF TTWinner
<1> QED
      BY <1>2, <1>3 DEF TTIsOver

LEMMA PlayKeeps == ASSUME TTInv, TTPlay PROVE TTInv'
<1>1. PICK c \in Cells : ttt.board[c] = Nobody /\ ttt' = TTApplyMove(ttt, c) /\ ~TTIsOver(ttt)
      BY DEF TTPlay, TTValidateMove
<1>2. TTTyped
      BY DEF TTInv
<1> DEFINE p == ttt.current
<1>3. p \in {X, O} /\ Other(p) \in {X, O} /\ Other(p) # p
      BY <1>2, TTTAssumption DEF TTTyped, Other
<1>4. /\ ttt'.board = [ttt.board EXCEPT ![c] = p] /\ ttt'.current = Other(p) /\ ttt'.forfeit = ttt.forfeit
      /\ ttt' = [board |-> ttt'.board, current |-> ttt'.current, forfeit |-> ttt'.forfeit]
      BY <1>1, <1>2, Zenon DEF TTApplyMove, TTTyped
<1>5. ttt.board \in [Cells -> {X, O, Nobody}] /\ ttt.forfeit \in {X, O, Nobody}
      BY <1>2 DEF TTTyped
<1>6. ttt'.board \in [Cells -> {X, O, Nobody}]
      BY <1>3, <1>4, <1>5
<1>7. TTTyped'
      BY <1>3, <1>4, <1>5, <1>6, Zenon DEF TTTyped
<1>8. Lines(ttt, Other(p)) = {}
      BY <1>1, <1>2, <1>3, NotOver, Zenon
<1>9. ASSUME NEW l \in Lines(ttt', Other(p))
      PROVE  l \in Lines(ttt, Other(p))
  <2>1. l \in winLines /\ \A d \in l : ttt'.board[d] = Other(p)
        BY DEF Lines
  <2>2. l \subseteq Cells
        BY <2>1 DEF winLines, Cells
  <2>3. \A d \in l : ttt.board[d] = Other(p)
        BY <1>3, <1>4, <1>5, <2>1, <2>2
  <2> QED
        BY <2>1, <2>3 DEF Lines
<1>10. LastMoverWins'
      BY <1>4, <1>8, <1>9 DEF LastMoverWins
<1> QED
      BY <1>7, <1>10 DEF TTInv

LEMMA TimeoutKeeps == ASSUME TTInv, TTTimeout PROVE TTInv'
<1>1. TTTyped /\ Lines(ttt, X) = {} /\ Lines(ttt, O) = {}
      BY NotOver DEF TTInv, TTTimeout
<1>2. \/ ttt' = [ttt EXCEPT !.forfeit = ttt.current]
      \/ ttt' = [ttt EXCEPT !.current = Other(@)]
      BY DEF TTTimeout, applyTimeout
<1>3. TTTyped' /\ ttt'.board = ttt.board
      BY <1>1, <1>2 DEF TTTyped, Other
<1>4. ttt'.current \in {X, O} /\ \A q : Lines(ttt', q) = Lines(ttt, q)
      BY <1>3 DEF TTTyped, Lines
<1>5. LastMoverWins'
      BY <1>1, <1>4 DEF LastMoverWins
<1> QED
      BY <1>3, <1>5 DEF TTInv

LEMMA TTPromises == TTInv => TicTacToeSound
<1> SUFFICES ASSUME TTInv PROVE TicTacToeSound
      OBVIOUS
<1>1. TTValidMoves(ttt) = {} <=> TTIsOver(ttt)
      BY NotOver DEF TTInv, TTValidMoves
<1>2. \A c \in TTValidMoves(ttt) : TTValidateMove(ttt, ttt.current, c)
      BY DEF TTValidMoves, TTValidateMove
<1> QED
      BY <1>1, <1>2 DEF TTInv, TicTacToeSound, TTBotHasMove

(* tictactoe.go and adapter.go, with any penalty: only whoever moved last  *)
(* can own a line, and the adapter has a legal move to offer exactly while *)
(* the game goes on.                                                       *)
THEOREM TicTacToeIsSound == TTSpec => []TicTacToeSound
<1>1. TTInit => TTInv
  <2> SUFFICES ASSUME TTInit PROVE TTInv
        OBVIOUS
  <2>1. TTTyped
        BY DEF TTInit, TTStart, TTTyped
  <2>2. \A l \in winLines : \E c \in Cells : c \in l
        BY DEF winLines, Cells
  <2>3. \A c \in Cells : ttt.board[c] = Nobody
        BY DEF TTInit, TTStart
  <2>4. LastMoverWins
        BY <2>1, <2>2, <2>3, TTTAssumption DEF LastMoverWins, Lines, TTTyped
  <2> QED
        BY <2>1, <2>4 DEF TTInv
<1>2. TTInv /\ [TTNext]_ttVars => TTInv'
  <2>1. ASSUME TTInv, UNCHANGED ttVars
        PROVE  TTInv'
        BY <2>1 DEF ttVars, TTInv, TTTyped, LastMoverWins, Lines
  <2> QED
        BY <2>1, PlayKeeps, TimeoutKeeps DEF TTNext
<1> QED
      BY <1>1, <1>2, TTPromises, PTL DEF TTSpec

(***************************************************************************)
(* One activation of a bot, whatever the match service, the opponent, the  *)
(* timers, the sockets and the deadline do, for a session of any length.   *)
(***************************************************************************)
RunnerSpec == RunnerInit /\ [][RunnerSteps]_runnerVars

Mails == {"match_found", "match_ready"}

Says == {"game_ready", "game_over"} \cup Sides

RunnerTyped ==
    /\ step \in InRoom \cup {"idle", "found", "paired", "done"}
    /\ place \in {"out", "queued", "proposed", "accepted", "paired"}
    /\ mail \in Seq(Mails)
    /\ match \in [stage : {"none", "ready", "playing", "over"}, turn : Sides,
                  ply : Nat, ready : SUBSET Sides]
    /\ owed \subseteq [ply : Nat, says : Says]
    /\ frames \in Seq(Says)
    /\ expired \in BOOLEAN /\ outpaced \in BOOLEAN
    /\ excused \in {"no", "skipped", "lost"}

Begun == match.stage \in {"playing", "over"}

\* Where the match service has the bot, and what that says of the session.
PlaceInv ==
    /\ step = "idle" => place = "out" /\ mail = <<>>
    /\ step \in InRoom => place = "paired"
    /\ "match_ready" \in Range(mail) => place = "paired"
    /\ place # "paired" => match.stage = "none" /\ match.ready = {} /\ owed = {} /\ frames = <<>>
    /\ place = "paired" => match.stage # "none"
    /\ step = "done" /\ excused # "lost" => place \notin {"queued", "accepted"}

\* game_ready is the session's first word, and takes the bot's vote.
StageInv ==
    /\ step \in {"first", "loop", "fetch", "think", "refused"} => Begun
    /\ Coming("game_ready") => Begun
    /\ match.ready = Sides => Begun
    /\ match.stage = "playing" => match.ready = Sides
    /\ step \in {"idle", "found", "paired", "vote"} => "bot" \notin match.ready

\* What the bot still has to hear at each step of playGame.
HearInv ==
    /\ excused # "lost" /\ step = "await" /\ match.stage = "playing" => Coming("game_ready")
    /\ excused # "lost" /\ step \in {"loop", "fetch", "think", "refused"} /\ match.stage = "over"
          => Coming("game_over")
    /\ (step = "loop" \/ (step = "think" /\ outpaced))
          => (excused = "no" /\ match.stage = "playing" /\ match.turn = "bot" => Coming("bot"))

TurnInv ==
    /\ step = "think" /\ ~outpaced => match.stage = "playing" /\ match.turn = "bot"
    /\ step = "refused" => outpaced

RunnerInv == RunnerTyped /\ PlaceInv /\ StageInv /\ HearInv /\ TurnInv

LEMMA RunnerBegins == RunnerInit => RunnerInv
<1> SUFFICES ASSUME RunnerInit PROVE RunnerInv
      OBVIOUS
<1>1. Range(<<>>) = {}
      BY DEF Range
<1>2. RunnerTyped
  <2>1. match \in [stage : {"none", "ready", "playing", "over"}, turn : Sides,
                   ply : Nat, ready : SUBSET Sides]
        BY DEF RunnerInit, Sides
  <2>2. mail \in Seq(Mails) /\ frames \in Seq(Says)
        BY DEF RunnerInit
  <2> QED
        BY <2>1, <2>2, Zenon DEF RunnerInit, RunnerTyped
<1>3. \A s : ~Coming(s)
      BY <1>1 DEF RunnerInit, Coming
<1>4. PlaceInv
      BY <1>1 DEF RunnerInit, PlaceInv, InRoom
<1>5. StageInv /\ HearInv /\ TurnInv
  <2>1. match.stage = "none" /\ match.ready = {} /\ step = "idle" /\ {} # Sides
        BY DEF RunnerInit, Sides
  <2> QED
        BY <1>3, <2>1 DEF StageInv, HearInv, TurnInv
<1> QED
      BY <1>2, <1>4, <1>5 DEF RunnerInv

LEMMA RunnerPromises == RunnerInv => ActivationSound
<1> SUFFICES ASSUME RunnerInv PROVE ActivationSound
      OBVIOUS
<1>1. EventIsComing
      BY DEF RunnerInv, StageInv, HearInv, Begun, EventIsComing
<1>2. RefusedOnlyLate
      BY DEF RunnerInv, TurnInv, RefusedOnlyLate
<1>3. NotLeftQueued
      BY DEF RunnerInv, PlaceInv, NotLeftQueued
<1> QED
      BY <1>1, <1>2, <1>3 DEF ActivationSound

\* What a queue of events holds after one arrives or the first is read.
LEMMA QueueRange ==
    ASSUME NEW S, NEW q \in Seq(S)
    PROVE  /\ \A e \in S : Append(q, e) \in Seq(S) /\ Range(Append(q, e)) = Range(q) \cup {e}
           /\ q # <<>> => /\ Head(q) \in Range(q) /\ Head(q) \in S /\ Tail(q) \in Seq(S)
                          /\ Range(Tail(q)) \subseteq Range(q)
                          /\ \A e \in Range(q) : e # Head(q) => e \in Range(Tail(q))
<1>1. ASSUME NEW e \in S
      PROVE  Append(q, e) \in Seq(S) /\ Range(Append(q, e)) = Range(q) \cup {e}
  <2>1. /\ Append(q, e) \in Seq(S) /\ Len(Append(q, e)) = Len(q) + 1
        /\ \A i \in 1 .. Len(q) : Append(q, e)[i] = q[i]
        /\ Append(q, e)[Len(q) + 1] = e
        OBVIOUS
  <2>2. DOMAIN Append(q, e) = 1 .. Len(q) + 1 /\ DOMAIN q = 1 .. Len(q) /\ Len(q) \in Nat
        BY <2>1
  <2>3. \A i \in 1 .. Len(q) + 1 : i \in 1 .. Len(q) \/ i = Len(q) + 1
        BY <2>2
  <2>4. ASSUME NEW x \in Range(Append(q, e))
        PROVE  x \in Range(q) \cup {e}
    <3>1. PICK i \in 1 .. Len(q) + 1 : x = Append(q, e)[i]
          BY <2>2 DEF Range
    <3> QED
          BY <2>1, <2>2, <2>3, <3>1 DEF Range
  <2>5. ASSUME NEW x \in Range(q)
        PROVE  x \in Range(Append(q, e))
    <3>1. PICK i \in 1 .. Len(q) : x = q[i]
          BY <2>2 DEF Range
    <3>2. i \in 1 .. Len(q) + 1 /\ x = Append(q, e)[i]
          BY <2>1, <2>2, <3>1
    <3> QED
          BY <2>2, <3>2 DEF Range
  <2>6. e \in Range(Append(q, e))
        BY <2>1, <2>2 DEF Range
  <2> QED
        BY <2>1, <2>4, <2>5, <2>6
<1>2. ASSUME q # <<>>
      PROVE  /\ Head(q) \in Range(q) /\ Head(q) \in S /\ Tail(q) \in Seq(S)
             /\ Range(Tail(q)) \subseteq Range(q)
             /\ \A e \in Range(q) : e # Head(q) => e \in Range(Tail(q))
  <2>1. /\ Len(q) \in Nat \ {0} /\ DOMAIN q = 1 .. Len(q) /\ Head(q) = q[1]
        /\ Tail(q) \in Seq(S) /\ Len(Tail(q)) = Len(q) - 1
        /\ \A i \in 1 .. Len(q) - 1 : Tail(q)[i] = q[i + 1]
        BY <1>2
  <2>2. DOMAIN Tail(q) = 1 .. Len(q) - 1
        BY <2>1
  <2>3. Head(q) \in Range(q) /\ Head(q) \in S
        BY <2>1 DEF Range
  <2>4. Range(Tail(q)) \subseteq Range(q)
        BY <2>1, <2>2 DEF Range
  <2>5. ASSUME NEW e \in Range(q), e # Head(q)
        PROVE  e \in Range(Tail(q))
    <3>1. PICK i \in 1 .. Len(q) : e = q[i]
          BY <2>1 DEF Range
    <3>2. i # 1 /\ i - 1 \in 1 .. Len(q) - 1 /\ Tail(q)[i - 1] = e
          BY <2>1, <2>5, <3>1
    <3> QED
          BY <2>2, <3>2, Zenon DEF Range
  <2> QED
        BY <2>1, <2>3, <2>4, <2>5
<1> QED
      BY <1>1, <1>2

\* Once the activation is over nothing is left to hear.
LEMMA OverKeeps ==
    ASSUME RunnerInv, NEW at \in {"out", "queued", "proposed", "accepted", "paired"}, Over(at),
           match' = match, owed' = owed, expired' \in BOOLEAN, outpaced' \in BOOLEAN,
           excused' \in {"no", "skipped", "lost"},
           excused' # "lost" => at \notin {"queued", "accepted"},
           place = "paired" <=> at = "paired"
    PROVE  RunnerInv'
<1>1. Range(<<>>) = {}
      BY DEF Range
<1>2. step' = "done" /\ place' = at /\ mail' = <<>> /\ frames' = <<>>
      BY DEF Over
<1>3. RunnerTyped'
      BY <1>2 DEF RunnerInv, RunnerTyped
<1>4. PlaceInv'
      BY <1>1, <1>2 DEF RunnerInv, PlaceInv, InRoom
<1>5. Coming("game_ready")' => Coming("game_ready")
      BY <1>1, <1>2, Zenon DEF Coming
<1>6. StageInv' /\ HearInv' /\ TurnInv'
      BY <1>2, <1>5 DEF RunnerInv, StageInv, HearInv, TurnInv, Begun
<1> QED
      BY <1>3, <1>4, <1>6 DEF RunnerInv

LEMMA FailKeeps ==
    ASSUME RunnerInv, NEW at \in {"out", "queued", "proposed", "accepted", "paired"}, Fail(at),
           match' = match, place = "paired" <=> at = "paired"
    PROVE  RunnerInv'
<1>1. owed' = owed /\ expired' \in BOOLEAN /\ outpaced' \in BOOLEAN
      BY DEF Fail, RunnerInv, RunnerTyped
<1>2. CASE playOneBackfill(at) /\ excused' = IF expired /\ at # "accepted" THEN excused ELSE "lost"
  <2> DEFINE to == IF expired THEN LeaveQueue(at) ELSE at
  <2>1. /\ to \in {"out", "queued", "proposed", "accepted", "paired"} /\ (place = "paired" <=> to = "paired")
        /\ excused' # "lost" => to \notin {"queued", "accepted"}
        BY <1>2 DEF LeaveQueue
  <2>2. excused' \in {"no", "skipped", "lost"}
        BY <1>2 DEF RunnerInv, RunnerTyped
  <2>3. Over(to)
        BY <1>2 DEF playOneBackfill
  <2> HIDE DEF to
  <2> QED
        BY <1>1, <2>1, <2>2, <2>3, OverKeeps
<1>3. CASE Over(at) /\ excused' = "lost"
      BY <1>1, <1>3, OverKeeps
<1> QED
      BY <1>2, <1>3 DEF Fail

\* Leaving the room with the bot paired.
LEMMA EndKeeps ==
    ASSUME RunnerInv, place = "paired", playOneBackfill(place), match' = match,
           UNCHANGED <<owed, expired, excused, outpaced>>
    PROVE  RunnerInv'
<1>1. Over("paired")
      BY DEF playOneBackfill, LeaveQueue
<1>2. expired' \in BOOLEAN /\ outpaced' \in BOOLEAN /\ excused' \in {"no", "skipped", "lost"}
      BY Zenon DEF RunnerInv, RunnerTyped
<1> QED
      BY <1>1, <1>2, OverKeeps

LEMMA StayKeeps == ASSUME RunnerInv, UNCHANGED runnerVars PROVE RunnerInv'
<1>1. UNCHANGED <<step, place, mail, match, owed, frames, expired, excused, outpaced>>
      BY Zenon DEF runnerVars
<1> QED
      BY <1>1 DEF RunnerInv, RunnerTyped, PlaceInv, StageInv, HearInv, TurnInv, Begun, Coming

LEMMA DeadlineKeeps == ASSUME RunnerInv, Deadline PROVE RunnerInv'
<1>1. UNCHANGED <<step, place, mail, match, owed, frames, excused, outpaced>> /\ expired' = TRUE
      BY Zenon DEF Deadline
<1> QED
      BY <1>1 DEF RunnerInv, RunnerTyped, PlaceInv, StageInv, HearInv, TurnInv, Begun, Coming

\* The bot before it enters a room: nothing of the session is heard yet.
LEMMA OutsideKeeps ==
    ASSUME RunnerInv, RunnerTyped', PlaceInv',
           step' \in {"idle", "found", "paired", "vote"}, step \in {"idle", "found", "paired", "vote"},
           UNCHANGED <<match, owed, frames>>
    PROVE  RunnerInv'
      BY DEF RunnerInv, StageInv, HearInv, TurnInv, Begun, Coming

LEMMA JoinKeeps == ASSUME RunnerInv, JoinQueue PROVE RunnerInv'
<1>1. step = "idle" /\ match' = match /\ place = "out" /\ mail = <<>>
      BY DEF JoinQueue, RunnerInv, PlaceInv
<1>2. CASE Call("found") /\ place' = "queued" /\ UNCHANGED <<mail, frames, excused>>
  <2>1. step' = "found" /\ place' = "queued" /\ UNCHANGED <<mail, match, owed, frames, expired, excused, outpaced>>
        BY <1>1, <1>2 DEF Call
  <2>2. RunnerTyped'
        BY <2>1 DEF RunnerInv, RunnerTyped
  <2>3. PlaceInv'
        BY <1>1, <2>1 DEF RunnerInv, PlaceInv, InRoom
  <2> QED
        BY <1>1, <2>1, <2>2, <2>3, OutsideKeeps
<1>3. CASE \E at \in {"out", "queued"} : Fail(at)
      BY <1>1, <1>3, FailKeeps
<1> QED
      BY <1>2, <1>3 DEF JoinQueue

LEMMA AcceptKeeps == ASSUME RunnerInv, AcceptMatch PROVE RunnerInv'
<1>1. step = "found" /\ mail # <<>> /\ mail \in Seq(Mails) /\ match' = match
      BY DEF AcceptMatch, readEventPayload, RunnerInv, RunnerTyped
<1>2. Tail(mail) \in Seq(Mails) /\ Range(Tail(mail)) \subseteq Range(mail)
      BY <1>1, QueueRange
<1>3. CASE readEventPayload("match_found")
  <2>1. mail' = Tail(mail) /\ UNCHANGED <<step, place, match, owed, frames, expired, excused, outpaced>>
        BY <1>3 DEF readEventPayload
  <2>2. RunnerTyped'
        BY <1>2, <2>1 DEF RunnerInv, RunnerTyped
  <2>3. PlaceInv'
        BY <1>1, <1>2, <2>1 DEF RunnerInv, PlaceInv
  <2> QED
        BY <1>1, <2>1, <2>2, <2>3, OutsideKeeps
<1>4. CASE /\ Call("paired") /\ place = "proposed" /\ place' = "accepted"
           /\ mail' = Tail(mail) /\ UNCHANGED <<frames, excused>>
  <2>1. /\ step' = "paired" /\ mail' = Tail(mail) /\ place = "proposed" /\ place' = "accepted"
        /\ UNCHANGED <<match, owed, frames, expired, excused, outpaced>>
        BY <1>1, <1>4 DEF Call
  <2>2. RunnerTyped'
        BY <1>2, <2>1, Zenon DEF RunnerInv, RunnerTyped
  <2>3. PlaceInv'
        BY <1>1, <1>2, <2>1 DEF RunnerInv, PlaceInv, InRoom
  <2> QED
        BY <1>1, <2>1, <2>2, <2>3, OutsideKeeps
<1>5. CASE \E at \in {place} \cup (IF place = "proposed" THEN {"accepted"} ELSE {}) : Fail(at)
  <2>1. PICK at \in {place} \cup (IF place = "proposed" THEN {"accepted"} ELSE {}) : Fail(at)
        BY <1>5
  <2>2. at \in {"out", "queued", "proposed", "accepted", "paired"} /\ (place = "paired" <=> at = "paired")
        BY DEF RunnerInv, RunnerTyped
  <2> QED
        BY <1>1, <2>1, <2>2, FailKeeps
<1> QED
      BY <1>3, <1>4, <1>5 DEF AcceptMatch

LEMMA DialKeeps == ASSUME RunnerInv, DialRoom PROVE RunnerInv'
<1>1. step = "paired" /\ mail # <<>> /\ mail \in Seq(Mails) /\ match' = match
      BY DEF DialRoom, readEventPayload, RunnerInv, RunnerTyped
<1>2. Tail(mail) \in Seq(Mails) /\ Range(Tail(mail)) \subseteq Range(mail) /\ Head(mail) \in Range(mail)
      BY <1>1, QueueRange
<1>3. CASE readEventPayload("match_ready")
  <2>1. mail' = Tail(mail) /\ UNCHANGED <<step, place, match, owed, frames, expired, excused, outpaced>>
        BY <1>3 DEF readEventPayload
  <2>2. RunnerTyped'
        BY <1>2, <2>1 DEF RunnerInv, RunnerTyped
  <2>3. PlaceInv'
        BY <1>1, <1>2, <2>1 DEF RunnerInv, PlaceInv
  <2> QED
        BY <1>1, <2>1, <2>2, <2>3, OutsideKeeps
<1>4. CASE /\ Head(mail) = "match_ready" /\ Call("vote")
           /\ mail' = Tail(mail) /\ UNCHANGED <<place, frames, excused>>
  <2>1. /\ step' = "vote" /\ mail' = Tail(mail) /\ place = "paired"
        /\ UNCHANGED <<place, match, owed, frames, expired, excused, outpaced>>
        BY <1>1, <1>2, <1>4, Zenon DEF Call, RunnerInv, PlaceInv
  <2>2. RunnerTyped'
        BY <1>2, <2>1, Zenon DEF RunnerInv, RunnerTyped, InRoom
  <2>3. PlaceInv'
        BY <1>1, <1>2, <2>1, Zenon DEF RunnerInv, PlaceInv
  <2> QED
        BY <1>1, <2>1, <2>2, <2>3, OutsideKeeps, Zenon
<1>5. CASE Fail(place)
      BY <1>1, <1>5, FailKeeps, Zenon DEF RunnerInv, RunnerTyped
<1> QED
      BY <1>3, <1>4, <1>5 DEF DialRoom

LEMMA ProposeKeeps == ASSUME RunnerInv, Propose PROVE RunnerInv'
<1>1. /\ place = "queued" /\ place' = "proposed"
      /\ mail' = (IF step \in {"found", "paired"} THEN Append(mail, "match_found") ELSE mail)
      /\ UNCHANGED <<step, match, owed, frames, expired, excused, outpaced>>
      BY DEF Propose
<1>2. mail' \in Seq(Mails) /\ Range(mail') \subseteq Range(mail) \cup {"match_found"}
      BY <1>1, QueueRange DEF RunnerInv, RunnerTyped, Mails
<1>3. RunnerTyped'
      BY <1>1, <1>2, Zenon DEF RunnerInv, RunnerTyped
<1>4. PlaceInv'
      BY <1>1, <1>2, Zenon DEF RunnerInv, PlaceInv, InRoom
<1> QED
      BY <1>1, <1>3, <1>4 DEF RunnerInv, StageInv, HearInv, TurnInv, Begun, Coming

LEMMA ProposalFailsKeeps == ASSUME RunnerInv, ProposalFails PROVE RunnerInv'
<1>1. /\ place \in {"proposed", "accepted"} /\ place' = (IF place = "accepted" THEN "queued" ELSE "out")
      /\ UNCHANGED <<step, mail, match, owed, frames, expired, excused, outpaced>>
      BY DEF ProposalFails
<1>3. RunnerTyped'
      BY <1>1, Zenon DEF RunnerInv, RunnerTyped
<1>4. PlaceInv'
      BY <1>1 DEF RunnerInv, PlaceInv, InRoom
<1> QED
      BY <1>1, <1>3, <1>4 DEF RunnerInv, StageInv, HearInv, TurnInv, Begun, Coming

LEMMA OpponentAcceptsKeeps == ASSUME RunnerInv, OpponentAccepts PROVE RunnerInv'
<1>1. PICK t \in Sides :
        /\ place = "accepted" /\ place' = "paired"
        /\ mail' = (IF step = "paired" THEN Append(mail, "match_ready") ELSE mail)
        /\ match' = [match EXCEPT !.stage = "ready", !.turn = t]
        /\ UNCHANGED <<step, owed, frames, expired, excused, outpaced>>
      BY Zenon DEF OpponentAccepts
<1>2. mail' \in Seq(Mails)
      BY <1>1, QueueRange DEF RunnerInv, RunnerTyped, Mails
<1>3. /\ match' \in [stage : {"none", "ready", "playing", "over"}, turn : Sides,
                     ply : Nat, ready : SUBSET Sides]
      /\ match'.stage = "ready" /\ match'.ready = match.ready
      BY <1>1, Zenon DEF RunnerInv, RunnerTyped
<1>4. RunnerTyped'
      BY <1>1, <1>2, <1>3 DEF RunnerInv, RunnerTyped
<1>5. step \notin InRoom /\ step # "idle" /\ match.ready = {} /\ owed = {} /\ frames = <<>>
      BY <1>1 DEF RunnerInv, PlaceInv
<1>6. PlaceInv'
      BY <1>1, <1>3, <1>5 DEF RunnerInv, PlaceInv
<1>7. ~Coming("game_ready")' /\ {} # Sides
  <2>1. Range(<<>>) = {}
        BY DEF Range
  <2> QED
        BY <1>1, <1>5, <2>1 DEF Coming, Sides
<1>8. StageInv' /\ HearInv' /\ TurnInv'
      BY <1>1, <1>3, <1>5, <1>7, Zenon DEF StageInv, HearInv, TurnInv, InRoom
<1> QED
      BY <1>4, <1>6, <1>8 DEF RunnerInv

LEMMA BreakKeeps == ASSUME RunnerInv, SocketBreaks PROVE RunnerInv'
<1>1. /\ Over(place) /\ excused' = "lost"
      /\ match' = match /\ owed' = owed /\ expired' = expired /\ outpaced' = outpaced
      BY DEF SocketBreaks, Over
<1> QED
      BY <1>1, OverKeeps DEF RunnerInv, RunnerTyped

LEMMA BroadcastKeeps == ASSUME RunnerInv, NEW e \in owed, Broadcast(e) PROVE RunnerInv'
<1>1. /\ owed' = owed \ {e} /\ UNCHANGED <<step, place, mail, match, expired, outpaced>>
      /\ \/ /\ frames' = (IF step \in InRoom THEN Append(frames, e.says) ELSE frames)
            /\ excused' = excused
         \/ excused' = "lost" /\ frames' = frames
      BY DEF Broadcast
<1>2. e.says \in Says /\ place = "paired"
      BY DEF RunnerInv, RunnerTyped, PlaceInv
<1>3. frames' \in Seq(Says) /\ (frames' # frames => Range(frames') = Range(frames) \cup {e.says})
  <2>1. frames \in Seq(Says)
        BY DEF RunnerInv, RunnerTyped
  <2>2. Append(frames, e.says) \in Seq(Says) /\ Range(Append(frames, e.says)) = Range(frames) \cup {e.says}
        BY <1>2, <2>1, QueueRange
  <2>3. frames' = frames \/ frames' = Append(frames, e.says)
        BY <1>1, Zenon
  <2> QED
        BY <2>1, <2>2, <2>3, Zenon
<1>4. RunnerTyped'
      BY <1>1, <1>3 DEF RunnerInv, RunnerTyped
<1>5. PlaceInv'
      BY <1>1, <1>2 DEF RunnerInv, PlaceInv
<1>6. ASSUME NEW s, Coming(s)'
      PROVE  Coming(s)
      BY <1>1, <1>3, <1>6 DEF Coming
<1>7. ASSUME NEW s, Coming(s), step \in InRoom, excused' # "lost"
      PROVE  Coming(s)'
  <2>1. frames' = Append(frames, e.says)
        BY <1>1, <1>7, Zenon
  <2>2. Range(frames') = Range(frames) \cup {e.says}
        BY <1>2, <2>1, QueueRange DEF RunnerInv, RunnerTyped
  <2> QED
        BY <1>1, <1>7, <2>2 DEF Coming
<1>8. StageInv' /\ TurnInv'
      BY <1>1, <1>6, Zenon DEF RunnerInv, StageInv, TurnInv, Begun
<1>9. HearInv'
  <2>1. CASE excused' = "lost"
        BY <2>1, Zenon DEF HearInv
  <2>2. CASE excused' # "lost"
        BY <1>1, <1>7, <2>2, Zenon DEF RunnerInv, HearInv, InRoom
  <2> QED
        BY <2>1, <2>2
<1> QED
      BY <1>4, <1>5, <1>8, <1>9, Zenon DEF RunnerInv

\* An event is read: whatever else is coming still is.
LEMMA ReadFacts ==
    ASSUME RunnerInv, frames # <<>>, frames' = Tail(frames), owed' = owed
    PROVE  /\ frames' \in Seq(Says) /\ Head(frames) \in Range(frames)
           /\ \A s : Coming(s)' => Coming(s)
           /\ \A s : Coming(s) /\ s # Head(frames) => Coming(s)'
<1>1. frames \in Seq(Says)
      BY DEF RunnerInv, RunnerTyped
<1> QED
      BY <1>1, QueueRange DEF Coming

LEMMA waitKeeps == ASSUME RunnerInv, waitForEvent PROVE RunnerInv'
<1>1. /\ step = "await" /\ frames # <<>> /\ frames' = Tail(frames)
      /\ step' = (IF Head(frames) = "game_ready" THEN "first" ELSE "await")
      /\ UNCHANGED <<place, mail, match, owed, expired, excused, outpaced>>
      BY DEF waitForEvent
<1>2. /\ frames' \in Seq(Says) /\ Head(frames) \in Range(frames)
      /\ \A s : Coming(s)' => Coming(s)
      /\ \A s : Coming(s) /\ s # Head(frames) => Coming(s)'
      BY <1>1, ReadFacts, Zenon
<1>3. RunnerTyped'
      BY <1>1, <1>2, Zenon DEF RunnerInv, RunnerTyped, InRoom
<1>4. PlaceInv'
      BY <1>1, Zenon DEF RunnerInv, PlaceInv, InRoom
<1>5. Head(frames) = "game_ready" => Begun
      BY <1>2, Zenon DEF RunnerInv, StageInv, Coming
<1>6. StageInv' /\ TurnInv'
      BY <1>1, <1>2, <1>5, Zenon DEF RunnerInv, StageInv, TurnInv, Begun
<1>7. HearInv'
      BY <1>1, <1>2 DEF RunnerInv, HearInv
<1> QED
      BY <1>3, <1>4, <1>6, <1>7 DEF RunnerInv

\* A step within the room that hears nothing.
LEMMA RoomKeeps ==
    ASSUME RunnerInv, step \in InRoom, step' \in InRoom, UNCHANGED <<place, mail, match, owed, frames>>,
           expired' \in BOOLEAN, outpaced' \in BOOLEAN, excused' \in {"no", "skipped", "lost"},
           StageInv', HearInv', TurnInv'
    PROVE  RunnerInv'
<1>1. RunnerTyped'
      BY Zenon DEF RunnerInv, RunnerTyped
<1>2. PlaceInv'
      BY Zenon DEF RunnerInv, PlaceInv, InRoom
<1> QED
      BY <1>1, <1>2 DEF RunnerInv

LEMMA playGameKeeps == ASSUME RunnerInv, playGame PROVE RunnerInv'
<1>1. step = "first" /\ match' = match /\ place = "paired"
      BY DEF playGame, RunnerInv, PlaceInv, InRoom
<1>2. CASE playOneBackfill(place) /\ UNCHANGED <<expired, owed, excused, outpaced>>
      BY <1>1, <1>2, EndKeeps, Zenon
<1>3. CASE /\ match.stage # "over" /\ Call(IF match.turn = "bot" THEN "fetch" ELSE "loop")
           /\ UNCHANGED <<place, mail, frames, excused>>
  <2>1. /\ step' = (IF match.turn = "bot" THEN "fetch" ELSE "loop")
        /\ UNCHANGED <<place, mail, match, owed, frames, expired, excused, outpaced>>
        BY <1>1, <1>3 DEF Call
  <2>2. StageInv' /\ HearInv' /\ TurnInv'
        BY <1>1, <1>3, <2>1, Zenon DEF RunnerInv, StageInv, HearInv, TurnInv, Begun, Coming
  <2> QED
        BY <1>1, <2>1, <2>2, RoomKeeps DEF RunnerInv, RunnerTyped, InRoom
<1>4. CASE Fail(place)
      BY <1>1, <1>4, FailKeeps
<1> QED
      BY <1>2, <1>3, <1>4, Zenon DEF playGame

LEMMA ReadRoomKeeps == ASSUME RunnerInv, ReadRoom PROVE RunnerInv'
<1>1. /\ step = "loop" /\ match' = match /\ place = "paired" /\ frames # <<>>
      /\ UNCHANGED <<match, expired, owed, excused, outpaced>>
      BY Zenon DEF ReadRoom, RunnerInv, PlaceInv, InRoom
<1>2. CASE playOneBackfill(place)
      BY <1>1, <1>2, EndKeeps, Zenon
<1>3. CASE /\ Head(frames) = "bot" \/ (Head(frames) # "game_over" /\ ~expired)
           /\ step' = (IF Head(frames) = "bot" THEN "fetch" ELSE "loop")
           /\ frames' = Tail(frames) /\ UNCHANGED <<place, mail>>
  <2>1. /\ frames' \in Seq(Says) /\ Head(frames) # "game_over"
        /\ \A s : Coming(s)' => Coming(s)
        /\ \A s : Coming(s) /\ s # Head(frames) => Coming(s)'
        BY <1>1, <1>3, ReadFacts, Zenon
  <2>2. RunnerTyped'
        BY <1>1, <1>3, <2>1, Zenon DEF RunnerInv, RunnerTyped, InRoom
  <2>3. PlaceInv'
        BY <1>1, <1>3, Zenon DEF RunnerInv, PlaceInv, InRoom
  <2>4. StageInv' /\ TurnInv'
        BY <1>1, <1>3, <2>1, Zenon DEF RunnerInv, StageInv, TurnInv, Begun
  <2>5. HearInv'
        BY <1>1, <1>3, <2>1 DEF RunnerInv, HearInv
  <2> QED
        BY <2>2, <2>3, <2>4, <2>5 DEF RunnerInv
<1> QED
      BY <1>2, <1>3 DEF ReadRoom

LEMMA takeTurnKeeps == ASSUME RunnerInv, takeTurn PROVE RunnerInv'
<1>1. step = "fetch" /\ match' = match /\ place = "paired" /\ Begun
      BY DEF takeTurn, RunnerInv, PlaceInv, StageInv, InRoom
<1>2. CASE /\ match.stage # "over" /\ match.turn = "bot" /\ step' = "think" /\ outpaced' = FALSE
           /\ UNCHANGED <<place, mail, frames, expired, owed, excused>>
  <2>1. StageInv' /\ HearInv' /\ TurnInv'
        BY <1>1, <1>2, Zenon DEF RunnerInv, StageInv, HearInv, TurnInv, Begun, Coming
  <2> QED
        BY <1>1, <1>2, <2>1, RoomKeeps, ZenonT(60) DEF RunnerInv, RunnerTyped, InRoom
<1>3. CASE /\ match.stage = "over" \/ match.turn # "bot"
           /\ Call("loop") /\ UNCHANGED <<place, mail, frames, excused>>
  <2>1. /\ step' = "loop" /\ UNCHANGED <<place, mail, match, owed, frames, expired, excused, outpaced>>
        BY <1>1, <1>3 DEF Call
  <2>2. StageInv' /\ HearInv' /\ TurnInv'
        BY <1>1, <1>3, <2>1, Zenon DEF RunnerInv, StageInv, HearInv, TurnInv, Begun, Coming
  <2> QED
        BY <1>1, <2>1, <2>2, RoomKeeps DEF RunnerInv, RunnerTyped, InRoom
<1>4. CASE Fail(place)
      BY <1>1, <1>4, FailKeeps, Zenon
<1> QED
      BY <1>2, <1>3, <1>4, Zenon DEF takeTurn

LEMMA NoMovesKeeps == ASSUME RunnerInv, NoMoves PROVE RunnerInv'
<1>1. /\ step = "think" /\ step' = "loop"
      /\ excused' = (IF excused = "no" /\ ~outpaced THEN "skipped" ELSE excused)
      /\ UNCHANGED <<place, mail, match, owed, frames, expired, outpaced>>
      BY DEF NoMoves
<1>2. StageInv' /\ HearInv' /\ TurnInv'
      BY <1>1, ZenonT(60) DEF RunnerInv, StageInv, HearInv, TurnInv, Begun, Coming
<1> QED
      BY <1>1, <1>2, RoomKeeps DEF RunnerInv, RunnerTyped, InRoom

Matches == [stage : {"none", "ready", "playing", "over"}, turn : Sides, ply : Nat, ready : SUBSET Sides]

\* A vote: the last one begins the game and owes the room game_ready.
LEMMA VoteFacts ==
    ASSUME RunnerTyped, NEW side \in Sides, Vote(side)
    PROVE  /\ match' \in Matches /\ match'.ready = match.ready \cup {side} /\ match'.turn = match.turn
           /\ match'.stage = IF match.stage = "ready" /\ match'.ready = Sides THEN "playing" ELSE match.stage
           /\ excused' = excused /\ owed' \subseteq [ply : Nat, says : Says] /\ owed \subseteq owed'
           /\ match'.stage # match.stage => \E e \in owed' : e.says = "game_ready"
           /\ match'.stage = match.stage => owed' = owed
<1> DEFINE t == [match EXCEPT !.ready = @ \cup {side},
                              !.stage = IF @ = "ready" /\ match.ready \cup {side} = Sides
                                        THEN "playing" ELSE @]
<1>1. match \in Matches
      BY DEF RunnerTyped, Matches
<1>2. /\ t \in Matches /\ t.ready = match.ready \cup {side} /\ t.turn = match.turn /\ t.ply = match.ply
      /\ t.stage = IF match.stage = "ready" /\ t.ready = Sides THEN "playing" ELSE match.stage
      BY <1>1, Zenon DEF Matches
<1>3. IF t.stage # match.stage THEN Committed(t, "game_ready")
                               ELSE match' = t /\ UNCHANGED <<owed, excused>>
      BY DEF Vote
<1> HIDE DEF t
<1>4. CASE t.stage = match.stage
      BY <1>2, <1>3, <1>4, ZenonT(60) DEF RunnerTyped
<1>5. CASE t.stage # match.stage
  <2> DEFINE e == [ply |-> t.ply, says |-> "game_ready"]
  <2>1. match' = t /\ owed' = owed \cup {e} /\ excused' = excused
        BY <1>2, <1>3, <1>5, Zenon DEF Committed
  <2>2. e \in [ply : Nat, says : Says] /\ e.says = "game_ready"
        BY <1>2 DEF Says, Matches
  <2> HIDE DEF e
  <2> QED
        BY <1>2, <1>5, <2>1, <2>2, ZenonT(60) DEF RunnerTyped
<1> QED
      BY <1>4, <1>5, Zenon

\* A step of the session owes the room who is on turn now, or that the game is over.
LEMMA StepFacts ==
    ASSUME RunnerTyped, Step
    PROVE  /\ match' \in Matches /\ match'.ready = match.ready
           /\ excused' \in {"no", "skipped", "lost"} /\ (excused' = "lost" <=> excused = "lost")
           /\ owed' \subseteq [ply : Nat, says : Says] /\ owed \subseteq owed'
           /\ \A e \in owed' : e.says = "game_ready" => e \in owed
           /\ \/ /\ match'.stage = match.stage
                 /\ match'.turn = "bot" => \E e \in owed' : e.says = "bot"
              \/ match'.stage = "over" /\ \E e \in owed' : e.says = "game_over"
<1>1. match \in Matches
      BY Zenon DEF RunnerTyped, Matches
<1>2. ASSUME NEW t \in Matches, NEW s \in Says, Committed(t, s), s # "game_ready", t.ready = match.ready,
             \/ t.stage = match.stage /\ t.turn = s
             \/ t.stage = "over" /\ s = "game_over"
      PROVE  /\ match' \in Matches /\ match'.ready = match.ready
             /\ excused' \in {"no", "skipped", "lost"} /\ (excused' = "lost" <=> excused = "lost")
             /\ owed' \subseteq [ply : Nat, says : Says] /\ owed \subseteq owed'
             /\ \A e \in owed' : e.says = "game_ready" => e \in owed
             /\ \/ /\ match'.stage = match.stage
                   /\ match'.turn = "bot" => \E e \in owed' : e.says = "bot"
                \/ match'.stage = "over" /\ \E e \in owed' : e.says = "game_over"
  <2> DEFINE e == [ply |-> t.ply, says |-> s]
  <2>1. match' = t /\ owed' = owed \cup {e} /\ excused' \in {excused, "no"}
           /\ (excused' # excused => excused = "skipped")
        BY <1>2 DEF Committed
  <2>2. e \in [ply : Nat, says : Says] /\ e.says = s
        BY Zenon DEF Matches
  <2> HIDE DEF e
  <2>3. owed' \subseteq [ply : Nat, says : Says] /\ \A f \in owed' : f.says = "game_ready" => f \in owed
        BY <1>2, <2>1, <2>2 DEF RunnerTyped
  <2>4. excused' \in {"no", "skipped", "lost"} /\ (excused' = "lost" <=> excused = "lost")
        BY <2>1, Zenon DEF RunnerTyped
  <2> QED
        BY <1>2, <2>1, <2>2, <2>3, <2>4, Zenon
<1>3. CASE \E s \in Sides : Committed([match EXCEPT !.ply = @ + 1, !.turn = s], s)
  <2>1. PICK s \in Sides : Committed([match EXCEPT !.ply = @ + 1, !.turn = s], s)
        BY <1>3, Zenon
  <2> DEFINE t == [match EXCEPT !.ply = @ + 1, !.turn = s]
  <2>2. t \in Matches /\ t.stage = match.stage /\ t.turn = s /\ t.ready = match.ready
    <3>1. PICK n \in Nat : n = match.ply + 1
          BY <1>1 DEF Matches
    <3>2. t = [match EXCEPT !.ply = n, !.turn = s]
          BY <3>1, Zenon
    <3> HIDE DEF t
    <3> QED
          BY <1>1, <3>2, Zenon DEF Matches
  <2>3. s \in Says /\ s # "game_ready"
        BY DEF Says, Sides
  <2>4. Committed(t, s)
        BY <2>1
  <2> HIDE DEF t
  <2> QED
        BY <1>2, <2>2, <2>3, <2>4
<1>4. CASE Committed([match EXCEPT !.ply = @ + 1, !.stage = "over"], "game_over")
  <2> DEFINE t == [match EXCEPT !.ply = @ + 1, !.stage = "over"]
  <2>2. t \in Matches /\ t.stage = "over" /\ t.ready = match.ready
    <3>1. PICK n \in Nat : n = match.ply + 1
          BY <1>1 DEF Matches
    <3>2. t = [match EXCEPT !.ply = n, !.stage = "over"]
          BY <3>1, Zenon
    <3> HIDE DEF t
    <3> QED
          BY <1>1, <3>2, ZenonT(60) DEF Matches
  <2>3. "game_over" \in Says /\ "game_over" # "game_ready"
        BY DEF Says
  <2>4. Committed(t, "game_over")
        BY <1>4
  <2> HIDE DEF t
  <2> QED
        BY <1>2, <2>2, <2>3, <2>4, Zenon
<1> QED
      BY <1>3, <1>4, Zenon DEF Step

LEMMA StepKeeps ==
    ASSUME RunnerInv, Step, match.stage \in {"ready", "playing"},
           UNCHANGED <<place, mail, frames, expired>>, outpaced' \in BOOLEAN,
           \/ step' = step /\ (step = "think" => outpaced') /\ (outpaced => outpaced')
           \/ step = "think" /\ step' = "loop"
    PROVE  RunnerInv'
<1>1. /\ match' \in Matches /\ match'.ready = match.ready
      /\ excused' \in {"no", "skipped", "lost"} /\ (excused' = "lost" <=> excused = "lost")
      /\ owed' \subseteq [ply : Nat, says : Says] /\ owed \subseteq owed'
      /\ \A e \in owed' : e.says = "game_ready" => e \in owed
      /\ \/ /\ match'.stage = match.stage
            /\ match'.turn = "bot" => \E e \in owed' : e.says = "bot"
         \/ match'.stage = "over" /\ \E e \in owed' : e.says = "game_over"
      BY StepFacts DEF RunnerInv
<1>2. step' = step \/ (step' = "loop" /\ step = "think")
      BY Zenon
<1>3. RunnerTyped'
      BY <1>1, <1>2, Zenon DEF RunnerInv, RunnerTyped, Matches, InRoom
<1>4. place = "paired" /\ match'.stage # "none"
      BY <1>1, Zenon DEF RunnerInv, PlaceInv
<1>5. PlaceInv'
      BY <1>1, <1>2, <1>4, Zenon DEF RunnerInv, PlaceInv
<1>6. \A s : Coming(s) => Coming(s)'
      BY <1>1, Zenon DEF Coming
<1>7. Coming("game_ready")' => Coming("game_ready")
      BY <1>1 DEF Coming
<1>8. StageInv'
      BY <1>1, <1>2, <1>7, ZenonT(60) DEF RunnerInv, StageInv, Begun
<1>9. /\ match'.stage = "over" => Coming("game_over")'
      /\ match'.stage = "playing" => match.stage = "playing" /\ (match'.turn = "bot" => Coming("bot")')
      BY <1>1, Zenon DEF Coming
<1>10. HearInv'
      BY <1>1, <1>2, <1>6, <1>9 DEF RunnerInv, HearInv
<1>11. TurnInv'
      BY <1>2 DEF RunnerInv, TurnInv
<1> QED
      BY <1>3, <1>5, <1>8, <1>10, <1>11, Zenon DEF RunnerInv

LEMMA OpponentVotesKeeps == ASSUME RunnerInv, OpponentVotes PROVE RunnerInv'
<1>1. /\ match.stage = "ready" /\ Vote("other") /\ "other" \in Sides
      /\ UNCHANGED <<step, place, mail, frames, expired, outpaced>>
      BY Zenon DEF OpponentVotes, Sides
<1>2. /\ match' \in Matches /\ match'.ready = match.ready \cup {"other"}
      /\ match'.stage = IF match'.ready = Sides THEN "playing" ELSE "ready"
      /\ excused' = excused /\ owed' \subseteq [ply : Nat, says : Says] /\ owed \subseteq owed'
      /\ match'.stage # match.stage => \E e \in owed' : e.says = "game_ready"
      /\ match'.stage = match.stage => owed' = owed
      BY <1>1, VoteFacts, Zenon DEF RunnerInv
<1>3. RunnerTyped'
      BY <1>1, <1>2, Zenon DEF RunnerInv, RunnerTyped, Matches
<1>4. PlaceInv'
      BY <1>1, <1>2 DEF RunnerInv, PlaceInv
<1>5. match'.stage = "playing" => Coming("game_ready")'
      BY <1>1, <1>2, ZenonT(60) DEF Coming
<1>6. Coming("game_ready")' => Coming("game_ready") \/ match'.stage = "playing"
      BY <1>1, <1>2, Zenon DEF Coming
<1>7. step \notin {"first", "loop", "fetch", "think", "refused"} /\ ("bot" \in match'.ready <=> "bot" \in match.ready)
      BY <1>1, <1>2, Zenon DEF RunnerInv, StageInv, Begun
<1>8. StageInv'
      BY <1>1, <1>2, <1>6, <1>7, Zenon DEF RunnerInv, StageInv, Begun
<1>9. HearInv' /\ TurnInv'
      BY <1>1, <1>5, <1>7 DEF HearInv, TurnInv
<1> QED
      BY <1>3, <1>4, <1>8, <1>9, Zenon DEF RunnerInv

LEMMA MarkReadyKeeps == ASSUME RunnerInv, MarkReady PROVE RunnerInv'
<1>0. step = "vote" /\ place = "paired"
      BY DEF MarkReady, RunnerInv, PlaceInv, InRoom
<1>1. CASE Vote("bot") /\ step' = "await" /\ UNCHANGED <<place, mail, frames, expired, outpaced>>
  <2>1. "bot" \in Sides
        BY DEF Sides
  <2>2. /\ match' \in Matches /\ match'.ready = match.ready \cup {"bot"}
        /\ match'.stage = IF match.stage = "ready" /\ match'.ready = Sides THEN "playing" ELSE match.stage
        /\ excused' = excused /\ owed' \subseteq [ply : Nat, says : Says] /\ owed \subseteq owed'
        /\ match'.stage # match.stage => \E e \in owed' : e.says = "game_ready"
        /\ match'.stage = match.stage => owed' = owed
        BY <1>1, <2>1, VoteFacts, Zenon DEF RunnerInv
  <2>3. match.stage \in {"ready", "over"}
        BY <1>0, <2>1, Zenon DEF RunnerInv, RunnerTyped, PlaceInv, StageInv
  <2>4. RunnerTyped'
        BY <1>1, <2>2, Zenon DEF RunnerInv, RunnerTyped, Matches, InRoom
  <2>5. PlaceInv'
        BY <1>0, <1>1, <2>2, <2>3, Zenon DEF RunnerInv, PlaceInv
  <2>6. match'.stage = "playing" => Coming("game_ready")'
        BY <1>1, <2>2, <2>3, Zenon DEF Coming
  <2>7. Coming("game_ready")' => Coming("game_ready") \/ match'.stage = "playing"
        BY <1>1, <2>2, <2>3, Zenon DEF Coming
  <2>8. StageInv'
        BY <1>1, <2>2, <2>3, <2>7, Zenon DEF RunnerInv, StageInv, Begun
  <2>9. HearInv' /\ TurnInv'
        BY <1>1, <2>6 DEF HearInv, TurnInv
  <2> QED
        BY <2>4, <2>5, <2>8, <2>9 DEF RunnerInv
<1>2. CASE Fail(place) /\ UNCHANGED match
      BY <1>0, <1>2, FailKeeps
<1> QED
      BY <1>1, <1>2, Zenon DEF MarkReady

\* A session that waits for votes too long is over.
LEMMA ReadyTimeoutKeeps == ASSUME RunnerInv, ReadyTimeout PROVE RunnerInv'
<1>1. match.stage = "ready" /\ Step /\ UNCHANGED <<step, place, mail, frames, expired, outpaced>>
      BY Zenon DEF ReadyTimeout, Step
<1>2. step # "think" /\ outpaced' \in BOOLEAN
      BY <1>1 DEF RunnerInv, RunnerTyped, StageInv, Begun
<1> QED
      BY <1>1, <1>2, StepKeeps

LEMMA OpponentMovesKeeps == ASSUME RunnerInv, OpponentMoves PROVE RunnerInv'
<1>1. /\ match.stage \in {"ready", "playing"} /\ match.turn = "other" /\ Step
      /\ UNCHANGED <<step, place, mail, frames, expired, outpaced>>
      BY DEF OpponentMoves
<1>2. (step = "think" => outpaced) /\ outpaced' \in BOOLEAN
      BY <1>1 DEF RunnerInv, RunnerTyped, TurnInv
<1> QED
      BY <1>1, <1>2, StepKeeps

LEMMA TimerMovesKeeps == ASSUME RunnerInv, TimerMoves PROVE RunnerInv'
<1>1. /\ match.stage = "playing" /\ Step /\ UNCHANGED <<step, place, mail, frames, expired>>
      /\ outpaced' = (outpaced \/ step = "think")
      BY DEF TimerMoves, Thinking
<1>2. outpaced' \in BOOLEAN /\ (step = "think" => outpaced') /\ (outpaced => outpaced')
      BY <1>1, ZenonT(60)
<1> QED
      BY <1>1, <1>2, StepKeeps

LEMMA MoveKeepsRunner == ASSUME RunnerInv, Move PROVE RunnerInv'
<1>1. step = "think" /\ UNCHANGED <<expired, outpaced>> /\ place = "paired" /\ Begun
      BY Zenon DEF Move, RunnerInv, PlaceInv, StageInv, InRoom
<1>2. CASE match.stage # "over" /\ Step /\ step' = "loop" /\ UNCHANGED <<place, mail, frames>>
      BY <1>1, <1>2, StepKeeps DEF RunnerInv, RunnerTyped, Begun
<1>3. CASE match.stage # "over" /\ Step /\ playOneBackfill(place)
  <2>1. step' = "done" /\ place' = "paired" /\ mail' = <<>> /\ frames' = <<>>
        BY <1>1, <1>3, Zenon DEF playOneBackfill, LeaveQueue, Over
  <2>2. /\ match' \in Matches /\ match'.ready = match.ready
        /\ excused' \in {"no", "skipped", "lost"} /\ owed' \subseteq [ply : Nat, says : Says]
        /\ match'.stage \in {match.stage, "over"}
        BY <1>3, StepFacts, Zenon DEF RunnerInv
  <2>3. RunnerTyped'
        BY <1>1, <2>1, <2>2 DEF RunnerInv, RunnerTyped, Matches
  <2>4. Range(<<>>) = {} /\ match'.stage # "none" /\ Begun'
        BY <1>1, <2>2 DEF Range, Begun
  <2>5. PlaceInv'
        BY <2>1, <2>4, Zenon DEF PlaceInv, InRoom
  <2>6. StageInv' /\ HearInv' /\ TurnInv'
        BY <2>1, <2>2, <2>4, Zenon DEF RunnerInv, StageInv, HearInv, TurnInv, Begun
  <2> QED
        BY <2>3, <2>5, <2>6 DEF RunnerInv
<1>4. CASE /\ ~(match.stage # "over" /\ match.turn = "bot")
           /\ step' = "refused" /\ UNCHANGED <<place, mail, frames, match, owed, excused>>
  <2>1. outpaced
        BY <1>1, <1>4 DEF RunnerInv, TurnInv
  <2>2. StageInv' /\ HearInv' /\ TurnInv'
        BY <1>1, <1>4, <2>1, ZenonT(60) DEF RunnerInv, StageInv, HearInv, TurnInv, Begun, Coming
  <2> QED
        BY <1>1, <1>4, <2>2, RoomKeeps DEF RunnerInv, RunnerTyped, InRoom
<1> QED
      BY <1>2, <1>3, <1>4, Zenon DEF Move

LEMMA MoveFailsKeeps == ASSUME RunnerInv, MoveFails PROVE RunnerInv'
<1>1. Fail(place) /\ match' = match
      BY DEF MoveFails
<1> QED
      BY <1>1, FailKeeps DEF RunnerInv, RunnerTyped

(* runner.go: whatever overtakes what, a bot that waits on its room socket *)
(* waits for an event that comes, is refused a move only when the turn was *)
(* taken from it, and leaves the queue behind.                             *)
THEOREM ActivationsSound == RunnerSpec => []ActivationSound
<1>1. RunnerInv /\ [RunnerSteps]_runnerVars => RunnerInv'
      BY DeadlineKeeps, JoinKeeps, AcceptKeeps, DialKeeps, MarkReadyKeeps, waitKeeps, playGameKeeps,
         ReadRoomKeeps, takeTurnKeeps, NoMovesKeeps, MoveKeepsRunner, MoveFailsKeeps, BreakKeeps,
         ProposeKeeps, ProposalFailsKeeps, OpponentAcceptsKeeps, OpponentVotesKeeps,
         OpponentMovesKeeps, TimerMovesKeeps, ReadyTimeoutKeeps, BroadcastKeeps, StayKeeps, Zenon
      DEF RunnerSteps
<1> QED
      BY RunnerBegins, RunnerPromises, <1>1, PTL DEF RunnerSpec
=============================================================================
