------------------------ MODULE SessionRuntimeProofs ------------------------
(***************************************************************************)
(* Sessions, for any players, requests, restarts and moves.                *)
(*                                                                         *)
(* The move log of a session is one game.  The argument is optimistic      *)
(* concurrency control: a request about to commit knows a prefix of the    *)
(* log, and if the log has not grown since, its player is still the        *)
(* current one (ReadBehind).  And a session that ended is recorded: until  *)
(* then some request owes the result or the event (EndInv).                *)
(***************************************************************************)
EXTENDS SessionRuntime, TLAPS

\* The time a leaf that names no prover may take.
USE SMTT(60), ZenonT(20)

ReadBehind(q) ==
    q.pc = "tx" => /\ q.snap <= Len(log)
                   /\ q.snap = Len(log) => q.who = current

VoterKnown(q) ==
    q.pc \in {"storeReady", "storePause", "storeResume"} => q.who \in Players

ReqInv == \A r \in Requests : ReadBehind(req[r]) /\ VoterKnown(req[r])

SerialInv == TypeOK /\ ReqInv /\ MoveLogSerial

(* The ways a step changes a request keep it well typed.                   *)
LEMMA ReqTyped ==
  ASSUME TypeOK, NEW r \in Requests
  PROVE  /\ Idle \in ReqType /\ req[r] \in ReqType
         /\ \A new \in ReqType :
               Become(r, new) => req' \in [Requests -> ReqType]
         /\ \A pc \in Steps : Goto(r, pc) => req' \in [Requests -> ReqType]
         /\ End(r) => req' \in [Requests -> ReqType]
         /\ \A pc \in Steps, kind \in Kinds, p \in Players \cup {"none"} :
               Begin(r, pc, kind, p) => req' \in [Requests -> ReqType]
<1>1. Idle \in ReqType
  BY DEF Idle, ReqType, Steps, Kinds
<1>2. req[r] \in ReqType
  BY DEF TypeOK
<1>3. \A new \in ReqType : Become(r, new) => req' \in [Requests -> ReqType]
  BY DEF Become, TypeOK
<1>4. \A pc \in Steps : [req[r] EXCEPT !.pc = pc] \in ReqType
  BY <1>2 DEF ReqType
<1>5. \A pc \in Steps, kind \in Kinds, p \in Players \cup {"none"} :
        [Idle EXCEPT !.pc = pc, !.kind = kind, !.who = p] \in ReqType
  BY <1>1, ZenonT(60) DEF ReqType
<1> QED
  BY <1>1, <1>2, <1>3, <1>4, <1>5, Zenon DEF Goto, End, Begin

(* Every step keeps the requests well typed.                               *)
LEMMA ReqStep == TypeOK /\ [Next]_vars => req' \in [Requests -> ReqType]
<1> SUFFICES ASSUME TypeOK, [Next]_vars PROVE req' \in [Requests -> ReqType]
  OBVIOUS
<1> USE ReqTyped DEF Steps, Kinds
<1>0. CASE UNCHANGED vars
  BY <1>0 DEF vars, TypeOK
<1>1. ASSUME NEW r \in Requests, NEW p \in Players, HandleMove(r, p)
     PROVE  req' \in [Requests -> ReqType]
  <2>0. Len(log) \in Nat
    BY DEF TypeOK, StateOK
  <2>1. [Idle EXCEPT !.pc = "tx", !.kind = "http", !.who = p,
                     !.snap = Len(log)] \in ReqType
    BY <2>0, ZenonT(60) DEF ReqType, Idle
  <2> QED
    BY <1>1, <2>1 DEF HandleMove
<1>2. ASSUME NEW r \in Requests, NEW p \in Players, VoteReady(r, p)
     PROVE  req' \in [Requests -> ReqType]
  BY <1>2 DEF VoteReady
<1>3. ASSUME NEW r \in Requests, NEW p \in Humans, VotePause(r, p)
     PROVE  req' \in [Requests -> ReqType]
  BY <1>3 DEF Humans, VotePause
<1>4. ASSUME NEW r \in Requests, NEW p \in Humans, VoteResume(r, p)
     PROVE  req' \in [Requests -> ReqType]
  BY <1>4 DEF Humans, VoteResume
<1>5. ASSUME NEW r \in Requests, Surrender(r)
     PROVE  req' \in [Requests -> ReqType]
  BY <1>5 DEF Surrender
<1>6. ASSUME NEW r \in Requests, TurnFires(r)
     PROVE  req' \in [Requests -> ReqType]
  BY <1>6 DEF TurnFires
<1>7. ASSUME NEW r \in Requests, ReadyFires(r)
     PROVE  req' \in [Requests -> ReqType]
  BY <1>7 DEF ReadyFires
<1>8. ASSUME NEW r \in Requests, ApplyMoveRead(r)
     PROVE  req' \in [Requests -> ReqType]
  <2>0. Len(log) \in Nat
    BY DEF TypeOK, StateOK
  <2>1. [req[r] EXCEPT !.pc = "tx", !.snap = Len(log)] \in ReqType
    BY <2>0, ZenonT(60) DEF ReqType
  <2> QED
    BY <1>8, <2>1 DEF ApplyMoveRead, Return
<1>9. ASSUME NEW r \in Requests, MoveTx(r)
     PROVE  req' \in [Requests -> ReqType]
  <2>1. \A next \in Players :
          [req[r] EXCEPT !.pc = "schedule", !.who = next, !.snap = 0] \in ReqType
    BY ZenonT(60) DEF ReqType
  <2>2. [Idle EXCEPT !.pc = "cancel", !.kind = req[r].kind] \in ReqType
    BY ZenonT(60) DEF ReqType
  <2> QED
    BY <1>9, <2>1, <2>2, Zenon DEF MoveTx, PlayOn, PlayLast, Return
<1>10. ASSUME NEW r \in Requests, ScheduleTurn(r)
     PROVE  req' \in [Requests -> ReqType]
  BY <1>10 DEF ScheduleTurn
<1>11. ASSUME NEW r \in Requests, MaybeFireBot(r)
     PROVE  req' \in [Requests -> ReqType]
  <2>1. [Idle EXCEPT !.pc = "read", !.kind = "bot", !.who = req[r].who] \in ReqType
    BY <1>11, ZenonT(60) DEF MaybeFireBot, ReqType, TypeOK, StateOK
  <2> QED
    BY <1>11, <2>1 DEF MaybeFireBot
<1>12. ASSUME NEW r \in Requests, CancelTurn(r)
     PROVE  req' \in [Requests -> ReqType]
  BY <1>12 DEF CancelTurn
<1>13. ASSUME NEW r \in Requests, PublishGameFinished(r)
     PROVE  req' \in [Requests -> ReqType]
  BY <1>13 DEF PublishGameFinished
<1>14. ASSUME NEW r \in Requests, UpdateGameResultEndedBy(r)
     PROVE  req' \in [Requests -> ReqType]
  BY <1>14 DEF UpdateGameResultEndedBy, Return
<1>15. ASSUME NEW r \in Requests, OnTimeout(r)
     PROVE  req' \in [Requests -> ReqType]
  <2>1. [req[r] EXCEPT !.pc = "read", !.who = current] \in ReqType
    BY <1>15, ZenonT(60) DEF OnTimeout, ReqType, TypeOK, StateOK
  <2> QED
    BY <1>15, <2>1 DEF OnTimeout, Return
<1>16. ASSUME NEW r \in Requests, OnReadyTimeout(r)
     PROVE  req' \in [Requests -> ReqType]
  BY <1>16 DEF OnReadyTimeout, Return
<1>17. ASSUME NEW r \in Requests, FinishSession(r)
     PROVE  req' \in [Requests -> ReqType]
  BY <1>17 DEF FinishSession
<1>18. ASSUME NEW r \in Requests, CreateGameResult(r)
     PROVE  req' \in [Requests -> ReqType]
  BY <1>18 DEF CreateGameResult, Return
<1>19. ASSUME NEW r \in Requests, StoreReady(r)
     PROVE  req' \in [Requests -> ReqType]
  BY <1>19 DEF StoreReady
<1>20. ASSUME NEW r \in Requests, CountReady(r)
     PROVE  req' \in [Requests -> ReqType]
  <2>1. [req[r] EXCEPT !.pc = "allReady", !.who = current] \in ReqType
    BY <1>20, ZenonT(60) DEF CountReady, ReqType, TypeOK, StateOK
  <2> QED
    BY <1>20, <2>1 DEF CountReady
<1>21. ASSUME NEW r \in Requests, OnAllReady(r)
     PROVE  req' \in [Requests -> ReqType]
  BY <1>21 DEF OnAllReady
<1>22. ASSUME NEW r \in Requests, ClearReadyVotes(r)
     PROVE  req' \in [Requests -> ReqType]
  BY <1>22 DEF ClearReadyVotes
<1>23. ASSUME NEW r \in Requests, StorePause(r)
     PROVE  req' \in [Requests -> ReqType]
  <2>1. [req[r] EXCEPT !.pc = "countPause", !.who = "none"] \in ReqType
    BY <1>23, ZenonT(60) DEF StorePause, ReqType, TypeOK, StateOK
  <2> QED
    BY <1>23, <2>1 DEF StorePause
<1>24. ASSUME NEW r \in Requests, CountPause(r)
     PROVE  req' \in [Requests -> ReqType]
  BY <1>24 DEF CountPause
<1>25. ASSUME NEW r \in Requests, CancelPause(r)
     PROVE  req' \in [Requests -> ReqType]
  BY <1>25 DEF CancelPause
<1>26. ASSUME NEW r \in Requests, SuspendSession(r)
     PROVE  req' \in [Requests -> ReqType]
  BY <1>26 DEF SuspendSession
<1>27. ASSUME NEW r \in Requests, ClearPauseVotes(r)
     PROVE  req' \in [Requests -> ReqType]
  BY <1>27 DEF ClearPauseVotes
<1>28. ASSUME NEW r \in Requests, StoreResume(r)
     PROVE  req' \in [Requests -> ReqType]
  <2>1. [req[r] EXCEPT !.pc = "countResume", !.who = "none"] \in ReqType
    BY <1>28, ZenonT(60) DEF StoreResume, ReqType, TypeOK, StateOK
  <2> QED
    BY <1>28, <2>1 DEF StoreResume
<1>29. ASSUME NEW r \in Requests, CountResume(r)
     PROVE  req' \in [Requests -> ReqType]
  BY <1>29 DEF CountResume
<1>30. ASSUME NEW r \in Requests, ResumeSession(r)
     PROVE  req' \in [Requests -> ReqType]
  BY <1>30 DEF ResumeSession
<1>31. ASSUME NEW r \in Requests, ClearResumeVotes(r)
     PROVE  req' \in [Requests -> ReqType]
  BY <1>31 DEF ClearResumeVotes
<1>32. ASSUME NEW r \in Requests, ScheduleResumed(r)
     PROVE  req' \in [Requests -> ReqType]
  BY <1>32 DEF ScheduleResumed
<1>33. CASE ForceClose
  BY <1>33 DEF ForceClose, TypeOK
<1>34. CASE Restart
  <2>1. Idle \in ReqType
    BY ZenonT(60) DEF Idle, ReqType
  <2>2. [Idle EXCEPT !.pc = "timeout", !.kind = "pending"] \in ReqType
    BY <2>1, ZenonT(60) DEF ReqType
  <2> QED
    BY <1>34, <2>1, <2>2 DEF Restart
<1>35. QED
  BY <1>0, <1>1, <1>2, <1>3, <1>4, <1>5, <1>6, <1>7, <1>8, <1>9, <1>10,
     <1>11, <1>12, <1>13, <1>14, <1>15, <1>16, <1>17, <1>18, <1>19,
     <1>20, <1>21, <1>22, <1>23, <1>24, <1>25, <1>26, <1>27, <1>28,
     <1>29, <1>30, <1>31, <1>32, <1>33, <1>34
     DEF Next, Arrive, Continue

(* Every step keeps the session well typed; that voters and recorded       *)
(* movers are players is ReqInv.                                           *)
LEMMA StateStep == TypeOK /\ ReqInv /\ [Next]_vars => StateOK'
<1> SUFFICES ASSUME TypeOK, ReqInv, [Next]_vars PROVE StateOK'
  OBVIOUS
<1> USE SessionAssumption DEF TypeOK, StateOK, Tasks, session, endVars, votes,
        timers, history
<1>0. CASE UNCHANGED vars
  BY <1>0 DEF vars
<1>1. ASSUME NEW r \in Requests, NEW p \in Players, HandleMove(r, p)
     PROVE  StateOK'
  BY <1>1 DEF HandleMove
<1>2. ASSUME NEW r \in Requests, NEW p \in Players, VoteReady(r, p)
     PROVE  StateOK'
  BY <1>2 DEF VoteReady
<1>3. ASSUME NEW r \in Requests, NEW p \in Humans, VotePause(r, p)
     PROVE  StateOK'
  BY <1>3 DEF Humans, VotePause
<1>4. ASSUME NEW r \in Requests, NEW p \in Humans, VoteResume(r, p)
     PROVE  StateOK'
  BY <1>4 DEF Humans, VoteResume
<1>5. ASSUME NEW r \in Requests, Surrender(r)
     PROVE  StateOK'
  BY <1>5 DEF Surrender
<1>6. ASSUME NEW r \in Requests, TurnFires(r)
     PROVE  StateOK'
  BY <1>6 DEF TurnFires
<1>7. ASSUME NEW r \in Requests, ReadyFires(r)
     PROVE  StateOK'
  BY <1>7 DEF ReadyFires
<1>8. ASSUME NEW r \in Requests, ApplyMoveRead(r)
     PROVE  StateOK'
  BY <1>8 DEF ApplyMoveRead, Return, Completed
<1>9. ASSUME NEW r \in Requests, MoveTx(r)
     PROVE  StateOK'
  <2>1. CASE req[r].snap # Len(log)
    BY <1>9, <2>1 DEF MoveTx, Return, Completed
  <2>2. CASE req[r].snap = Len(log)
    <3>1. req[r].who \in Players
      BY <1>9, <2>2 DEF MoveTx, At, ReqInv, ReadBehind
    <3>2. \A next \in Players :
            Append(log, [by |-> req[r].who, next |-> next])
              \in Seq([by : Players, next : Players])
      BY <3>1
    <3>3. log' \in Seq([by : Players, next : Players]) /\ current' \in Players
      BY <1>9, <2>2, <3>1, <3>2, Zenon DEF MoveTx, PlayOn, PlayLast, RecordMove
    <3>4. Append(results, "game") \in
            Seq({"game", "forfeit", "timeout", "ready_timeout"})
      OBVIOUS
    <3>5. results' \in Seq({"game", "forfeit", "timeout", "ready_timeout"})
      BY <1>9, <2>2, <3>4, Zenon DEF MoveTx, PlayOn, PlayLast
    <3> QED
      BY <1>9, <2>2, <3>3, <3>5, ZenonT(60) DEF MoveTx, PlayOn, PlayLast
  <2> QED
    BY <2>1, <2>2
<1>10. ASSUME NEW r \in Requests, ScheduleTurn(r)
     PROVE  StateOK'
  BY <1>10 DEF ScheduleTurn, Armed
<1>11. ASSUME NEW r \in Requests, MaybeFireBot(r)
     PROVE  StateOK'
  BY <1>11 DEF MaybeFireBot, Completed
<1>12. ASSUME NEW r \in Requests, CancelTurn(r)
     PROVE  StateOK'
  BY <1>12 DEF CancelTurn, Deleted
<1>13. ASSUME NEW r \in Requests, PublishGameFinished(r)
     PROVE  StateOK'
  BY <1>13 DEF PublishGameFinished
<1>14. ASSUME NEW r \in Requests, UpdateGameResultEndedBy(r)
     PROVE  StateOK'
  BY <1>14 DEF UpdateGameResultEndedBy, Return, Completed
<1>15. ASSUME NEW r \in Requests, OnTimeout(r)
     PROVE  StateOK'
  BY <1>15 DEF OnTimeout, Return, Completed
<1>16. ASSUME NEW r \in Requests, OnReadyTimeout(r)
     PROVE  StateOK'
  BY <1>16 DEF OnReadyTimeout, Return, Completed
<1>17. ASSUME NEW r \in Requests, FinishSession(r)
     PROVE  StateOK'
  BY <1>17 DEF FinishSession
<1>18. ASSUME NEW r \in Requests, CreateGameResult(r)
     PROVE  StateOK'
  <2>1. /\ Append(results, "forfeit") \in
               Seq({"game", "forfeit", "timeout", "ready_timeout"})
        /\ Append(results, "ready_timeout") \in
               Seq({"game", "forfeit", "timeout", "ready_timeout"})
    OBVIOUS
  <2> QED
    BY <1>18, <2>1, ZenonT(60) DEF CreateGameResult, Return, Completed
<1>19. ASSUME NEW r \in Requests, StoreReady(r)
     PROVE  StateOK'
  BY <1>19 DEF StoreReady, ReqInv, VoterKnown, At
<1>20. ASSUME NEW r \in Requests, CountReady(r)
     PROVE  StateOK'
  BY <1>20 DEF CountReady
<1>21. ASSUME NEW r \in Requests, OnAllReady(r)
     PROVE  StateOK'
  BY <1>21 DEF OnAllReady, Armed, Deleted
<1>22. ASSUME NEW r \in Requests, ClearReadyVotes(r)
     PROVE  StateOK'
  BY <1>22 DEF ClearReadyVotes
<1>23. ASSUME NEW r \in Requests, StorePause(r)
     PROVE  StateOK'
  BY <1>23 DEF StorePause, ReqInv, VoterKnown, At
<1>24. ASSUME NEW r \in Requests, CountPause(r)
     PROVE  StateOK'
  BY <1>24 DEF CountPause
<1>25. ASSUME NEW r \in Requests, CancelPause(r)
     PROVE  StateOK'
  BY <1>25 DEF CancelPause, Deleted
<1>26. ASSUME NEW r \in Requests, SuspendSession(r)
     PROVE  StateOK'
  BY <1>26 DEF SuspendSession
<1>27. ASSUME NEW r \in Requests, ClearPauseVotes(r)
     PROVE  StateOK'
  BY <1>27 DEF ClearPauseVotes
<1>28. ASSUME NEW r \in Requests, StoreResume(r)
     PROVE  StateOK'
  BY <1>28 DEF StoreResume, ReqInv, VoterKnown, At
<1>29. ASSUME NEW r \in Requests, CountResume(r)
     PROVE  StateOK'
  BY <1>29 DEF CountResume
<1>30. ASSUME NEW r \in Requests, ResumeSession(r)
     PROVE  StateOK'
  BY <1>30, Zenon DEF ResumeSession
<1>31. ASSUME NEW r \in Requests, ClearResumeVotes(r)
     PROVE  StateOK'
  BY <1>31 DEF ClearResumeVotes
<1>32. ASSUME NEW r \in Requests, ScheduleResumed(r)
     PROVE  StateOK'
  BY <1>32 DEF ScheduleResumed, Armed
<1>33. CASE ForceClose
  BY <1>33, Zenon DEF ForceClose
<1>34. CASE Restart
  BY <1>34 DEF Restart, Interrupted
<1>35. QED
  BY <1>0, <1>1, <1>2, <1>3, <1>4, <1>5, <1>6, <1>7, <1>8, <1>9, <1>10,
     <1>11, <1>12, <1>13, <1>14, <1>15, <1>16, <1>17, <1>18, <1>19,
     <1>20, <1>21, <1>22, <1>23, <1>24, <1>25, <1>26, <1>27, <1>28,
     <1>29, <1>30, <1>31, <1>32, <1>33, <1>34, ZenonT(60)
     DEF Next, Arrive, Continue

(* A step that leaves the log and the turn alone keeps ReqInv when what    *)
(* the request becomes satisfies it.                                       *)
LEMMA ReqInvKept ==
  ASSUME TypeOK, ReqInv, NEW r \in Requests, UNCHANGED <<log, current>>
  PROVE  /\ \A new : Become(r, new) /\ ReadBehind(new) /\ VoterKnown(new)
                    => ReqInv'
         /\ End(r) => ReqInv'
         /\ \A pc \in Steps \ {"tx", "storeReady", "storePause", "storeResume"} :
               Goto(r, pc) => ReqInv'
         /\ \A pc \in Steps \ {"tx"}, kind \in Kinds, p \in Players :
               Begin(r, pc, kind, p) => ReqInv'
         /\ \A kind \in Kinds,
               pc \in Steps \ {"tx", "storeReady", "storePause", "storeResume"} :
               Begin(r, pc, kind, "none") => ReqInv'
<1>1. \A new : Become(r, new) /\ ReadBehind(new) /\ VoterKnown(new) => ReqInv'
  BY DEF Become, ReqInv, ReadBehind, VoterKnown, TypeOK
<1>2. ReadBehind(Idle) /\ VoterKnown(Idle)
  BY DEF Idle, ReadBehind, VoterKnown
<1>3. End(r) => ReqInv'
  BY <1>1, <1>2 DEF End
<1>4. ASSUME NEW pc \in Steps \ {"tx", "storeReady", "storePause", "storeResume"},
             Goto(r, pc)
      PROVE  ReqInv'
  <2>1. [req[r] EXCEPT !.pc = pc].pc = pc
    BY DEF TypeOK, ReqType
  <2> QED
    BY <1>1, <1>4, <2>1, Zenon DEF Goto, ReadBehind, VoterKnown
<1>5. ASSUME NEW pc \in Steps \ {"tx"}, NEW kind \in Kinds,
             NEW p \in Players \cup {"none"}, Begin(r, pc, kind, p),
             p \in Players \/ pc \notin {"storeReady", "storePause", "storeResume"}
      PROVE  ReqInv'
  <2> DEFINE new == [Idle EXCEPT !.pc = pc, !.kind = kind, !.who = p]
  <2>1. new.pc = pc /\ new.who = p
    BY DEF Idle
  <2>2. ReadBehind(new) /\ VoterKnown(new)
    BY <1>5, <2>1 DEF ReadBehind, VoterKnown
  <2> QED
    BY <1>1, <1>5, <2>2 DEF Begin
<1> QED
  BY <1>1, <1>3, <1>4, <1>5

(* Every step keeps what requests know: only reading makes a request ready *)
(* to commit, and only commits make the log grow.                          *)
LEMMA ReqInvStep == TypeOK /\ ReqInv /\ [Next]_vars => ReqInv'
<1> SUFFICES ASSUME TypeOK, ReqInv, [Next]_vars PROVE ReqInv'
  OBVIOUS
<1> USE ReqInvKept DEF session, Steps, Kinds
<1>0. CASE UNCHANGED vars
  BY <1>0, Zenon DEF vars, ReqInv, ReadBehind, VoterKnown
<1>1. ASSUME NEW r \in Requests, NEW p \in Players, HandleMove(r, p)
     PROVE  ReqInv'
  <2> DEFINE new == [Idle EXCEPT !.pc = "tx", !.kind = "http", !.who = p,
                                !.snap = Len(log)]
  <2>0. Len(log) \in Nat /\ req[r] \in ReqType
    BY DEF TypeOK, StateOK
  <2>1. new.pc = "tx" /\ new.snap = Len(log) /\ new.who = p
    BY <2>0 DEF ReqType, Idle
  <2>2. VoterKnown(new) /\ (current = p => ReadBehind(new))
    BY <2>0, <2>1 DEF ReadBehind, VoterKnown
  <2> QED
    BY <1>1, <2>2 DEF HandleMove
<1>2. ASSUME NEW r \in Requests, NEW p \in Players, VoteReady(r, p)
     PROVE  ReqInv'
  BY <1>2 DEF VoteReady
<1>3. ASSUME NEW r \in Requests, NEW p \in Humans, VotePause(r, p)
     PROVE  ReqInv'
  BY <1>3 DEF Humans, VotePause
<1>4. ASSUME NEW r \in Requests, NEW p \in Humans, VoteResume(r, p)
     PROVE  ReqInv'
  BY <1>4 DEF Humans, VoteResume
<1>5. ASSUME NEW r \in Requests, Surrender(r)
     PROVE  ReqInv'
  BY <1>5 DEF Surrender
<1>6. ASSUME NEW r \in Requests, TurnFires(r)
     PROVE  ReqInv'
  BY <1>6 DEF TurnFires
<1>7. ASSUME NEW r \in Requests, ReadyFires(r)
     PROVE  ReqInv'
  BY <1>7 DEF ReadyFires
<1>8. ASSUME NEW r \in Requests, ApplyMoveRead(r)
     PROVE  ReqInv'
  <2> DEFINE new == [req[r] EXCEPT !.pc = "tx", !.snap = Len(log)]
  <2>0. Len(log) \in Nat /\ req[r] \in ReqType
    BY DEF TypeOK, StateOK
  <2>1. new.pc = "tx" /\ new.snap = Len(log) /\ new.who = req[r].who
    BY <2>0 DEF ReqType, Idle
  <2>2. VoterKnown(new) /\ (current = req[r].who => ReadBehind(new))
    BY <2>0, <2>1 DEF ReadBehind, VoterKnown
  <2> QED
    BY <1>8, <2>2 DEF ApplyMoveRead, Return
<1>9. ASSUME NEW r \in Requests, MoveTx(r)
     PROVE  ReqInv'
  <2>1. CASE req[r].snap # Len(log)
    BY <1>9, <2>1 DEF MoveTx, Return
  <2>2. CASE req[r].snap = Len(log)
    <3>1. PICK next, new :
            /\ RecordMove(r, next) /\ Become(r, new)
            /\ new.pc \notin {"tx", "storeReady", "storePause", "storeResume"}
      <4>1. [req[r] EXCEPT !.pc = "schedule", !.who = current', !.snap = 0].pc
              = "schedule"
        BY ReqTyped DEF ReqType
      <4>2. [Idle EXCEPT !.pc = "cancel", !.kind = req[r].kind].pc = "cancel"
        BY DEF Idle
      <4> QED
        BY <1>9, <2>2, <4>1, <4>2, ZenonT(60) DEF MoveTx, PlayOn, PlayLast, RecordMove
    <3>2. /\ Len(log) \in Nat /\ Len(log') = Len(log) + 1
          /\ \A q \in Requests : req[q].snap \in Nat
      BY <3>1 DEF RecordMove, TypeOK, StateOK, ReqType
    <3>3. \A q \in Requests : req'[q] = IF q = r THEN new ELSE req[q]
      BY <3>1 DEF Become, TypeOK
    <3>4. ReadBehind(req[r])' /\ VoterKnown(req[r])'
      BY <3>1, <3>3, Zenon DEF ReadBehind, VoterKnown
    <3>5. ASSUME NEW q \in Requests, q # r
          PROVE  ReadBehind(req[q])' /\ VoterKnown(req[q])'
      BY <3>2, <3>3, <3>5 DEF ReqInv, ReadBehind, VoterKnown
    <3> QED
      BY <3>3, <3>4, <3>5, Zenon DEF ReqInv
  <2> QED
    BY <2>1, <2>2
<1>10. ASSUME NEW r \in Requests, ScheduleTurn(r)
     PROVE  ReqInv'
  BY <1>10 DEF ScheduleTurn
<1>11. ASSUME NEW r \in Requests, MaybeFireBot(r)
     PROVE  ReqInv'
  <2>1. ReadBehind([Idle EXCEPT !.pc = "read", !.kind = "bot",
                                   !.who = req[r].who])
        /\ VoterKnown([Idle EXCEPT !.pc = "read", !.kind = "bot",
                                   !.who = req[r].who])
    BY <1>11, ReqTyped, ZenonT(60) DEF MaybeFireBot, ReadBehind, VoterKnown, ReqType, Idle
  <2> QED
    BY <1>11, <2>1 DEF MaybeFireBot
<1>12. ASSUME NEW r \in Requests, CancelTurn(r)
     PROVE  ReqInv'
  BY <1>12 DEF CancelTurn
<1>13. ASSUME NEW r \in Requests, PublishGameFinished(r)
     PROVE  ReqInv'
  BY <1>13 DEF PublishGameFinished
<1>14. ASSUME NEW r \in Requests, UpdateGameResultEndedBy(r)
     PROVE  ReqInv'
  BY <1>14 DEF UpdateGameResultEndedBy, Return
<1>15. ASSUME NEW r \in Requests, OnTimeout(r)
     PROVE  ReqInv'
  <2>1. ReadBehind([req[r] EXCEPT !.pc = "read", !.who = current])
        /\ VoterKnown([req[r] EXCEPT !.pc = "read", !.who = current])
    BY <1>15, ReqTyped, ZenonT(60) DEF OnTimeout, ReadBehind, VoterKnown, ReqType, Idle
  <2> QED
    BY <1>15, <2>1 DEF OnTimeout, Return
<1>16. ASSUME NEW r \in Requests, OnReadyTimeout(r)
     PROVE  ReqInv'
  BY <1>16 DEF OnReadyTimeout, Return
<1>17. ASSUME NEW r \in Requests, FinishSession(r)
     PROVE  ReqInv'
  BY <1>17 DEF FinishSession
<1>18. ASSUME NEW r \in Requests, CreateGameResult(r)
     PROVE  ReqInv'
  BY <1>18 DEF CreateGameResult, Return
<1>19. ASSUME NEW r \in Requests, StoreReady(r)
     PROVE  ReqInv'
  BY <1>19 DEF StoreReady
<1>20. ASSUME NEW r \in Requests, CountReady(r)
     PROVE  ReqInv'
  <2>1. ReadBehind([req[r] EXCEPT !.pc = "allReady", !.who = current])
        /\ VoterKnown([req[r] EXCEPT !.pc = "allReady", !.who = current])
    BY <1>20, ReqTyped, ZenonT(60) DEF CountReady, ReadBehind, VoterKnown, ReqType, Idle
  <2> QED
    BY <1>20, <2>1 DEF CountReady
<1>21. ASSUME NEW r \in Requests, OnAllReady(r)
     PROVE  ReqInv'
  BY <1>21 DEF OnAllReady
<1>22. ASSUME NEW r \in Requests, ClearReadyVotes(r)
     PROVE  ReqInv'
  BY <1>22 DEF ClearReadyVotes
<1>23. ASSUME NEW r \in Requests, StorePause(r)
     PROVE  ReqInv'
  <2>1. ReadBehind([req[r] EXCEPT !.pc = "countPause", !.who = "none"])
        /\ VoterKnown([req[r] EXCEPT !.pc = "countPause", !.who = "none"])
    BY <1>23, ReqTyped, ZenonT(60) DEF StorePause, ReadBehind, VoterKnown, ReqType, Idle
  <2> QED
    BY <1>23, <2>1 DEF StorePause
<1>24. ASSUME NEW r \in Requests, CountPause(r)
     PROVE  ReqInv'
  BY <1>24 DEF CountPause
<1>25. ASSUME NEW r \in Requests, CancelPause(r)
     PROVE  ReqInv'
  BY <1>25 DEF CancelPause
<1>26. ASSUME NEW r \in Requests, SuspendSession(r)
     PROVE  ReqInv'
  BY <1>26 DEF SuspendSession
<1>27. ASSUME NEW r \in Requests, ClearPauseVotes(r)
     PROVE  ReqInv'
  BY <1>27 DEF ClearPauseVotes
<1>28. ASSUME NEW r \in Requests, StoreResume(r)
     PROVE  ReqInv'
  <2>1. ReadBehind([req[r] EXCEPT !.pc = "countResume", !.who = "none"])
        /\ VoterKnown([req[r] EXCEPT !.pc = "countResume", !.who = "none"])
    BY <1>28, ReqTyped, ZenonT(60) DEF StoreResume, ReadBehind, VoterKnown, ReqType, Idle
  <2> QED
    BY <1>28, <2>1 DEF StoreResume
<1>29. ASSUME NEW r \in Requests, CountResume(r)
     PROVE  ReqInv'
  BY <1>29 DEF CountResume
<1>30. ASSUME NEW r \in Requests, ResumeSession(r)
     PROVE  ReqInv'
  BY <1>30 DEF ResumeSession
<1>31. ASSUME NEW r \in Requests, ClearResumeVotes(r)
     PROVE  ReqInv'
  BY <1>31 DEF ClearResumeVotes
<1>32. ASSUME NEW r \in Requests, ScheduleResumed(r)
     PROVE  ReqInv'
  BY <1>32 DEF ScheduleResumed
<1>33. CASE ForceClose
  BY <1>33, ZenonT(60) DEF ForceClose, ReqInv, ReadBehind, VoterKnown
<1>34. CASE Restart
  <2>0. [Idle EXCEPT !.pc = "timeout", !.kind = "pending"].pc = "timeout"
        /\ Idle.pc = "idle"
    BY DEF Idle
  <2>1. \A q \in Requests : req'[q].pc \in {"idle", "timeout"}
    BY <1>34, <2>0, Zenon DEF Restart
  <2> QED
    BY <2>1 DEF ReqInv, ReadBehind, VoterKnown
<1>35. QED
  BY <1>0, <1>1, <1>2, <1>3, <1>4, <1>5, <1>6, <1>7, <1>8, <1>9, <1>10,
     <1>11, <1>12, <1>13, <1>14, <1>15, <1>16, <1>17, <1>18, <1>19,
     <1>20, <1>21, <1>22, <1>23, <1>24, <1>25, <1>26, <1>27, <1>28,
     <1>29, <1>30, <1>31, <1>32, <1>33, <1>34, ZenonT(60)
     DEF Next, Arrive, Continue

(* Only a commit extends the log, and it does so from its last state.      *)
LEMMA SerialStep ==
  TypeOK /\ ReqInv /\ MoveLogSerial /\ [Next]_vars => MoveLogSerial'
<1> SUFFICES ASSUME TypeOK, ReqInv, MoveLogSerial, [Next]_vars
             PROVE  MoveLogSerial'
  OBVIOUS
<1>1. CASE UNCHANGED <<log, current>>
  BY <1>1 DEF MoveLogSerial
<1>2. ASSUME NEW r \in Requests, NEW next, RecordMove(r, next),
             At(r, "tx"), req[r].snap = Len(log)
      PROVE  MoveLogSerial'
  <2>1. req[r].who = current
    BY <1>2 DEF At, ReqInv, ReadBehind
  <2>2. /\ Len(log) \in Nat /\ Len(log') = Len(log) + 1
        /\ \A k \in 1..Len(log) : log'[k] = log[k]
        /\ log'[Len(log) + 1] = [by |-> req[r].who, next |-> next]
    BY <1>2 DEF RecordMove, TypeOK, StateOK
  <2>3. \A k \in 1..Len(log') - 1 : log'[k + 1].by = log'[k].next
    <3> SUFFICES ASSUME NEW k \in 1..Len(log') - 1
                 PROVE  log'[k + 1].by = log'[k].next
      OBVIOUS
    <3>1. CASE k < Len(log)
      BY <3>1, <2>2 DEF MoveLogSerial
    <3>2. CASE k = Len(log)
      <4>1. log # <<>> /\ log'[k] = log[k]
        BY <3>2, <2>2
      <4> QED
        BY <3>2, <4>1, <2>1, <2>2 DEF MoveLogSerial
    <3> QED
      BY <3>1, <3>2, <2>2
  <2>4. current' = log'[Len(log')].next
    BY <1>2, <2>2 DEF RecordMove
  <2> QED
    BY <2>3, <2>4 DEF MoveLogSerial
<1>3. ASSUME NEW r \in Requests, Arrive(r)
      PROVE  UNCHANGED <<log, current>>
  <2>1. UNCHANGED session
    BY <1>3, Zenon DEF Arrive, HandleMove, VoteReady, VotePause, VoteResume,
                       Surrender, TurnFires, ReadyFires
  <2> QED
    BY <2>1 DEF session
<1>4. ASSUME NEW r \in Requests, Continue(r)
      PROVE  UNCHANGED <<log, current>> \/ MoveTx(r)
  <2>1. CASE UNCHANGED session
    BY <2>1 DEF session
  <2>2. CASE FinishSession(r) \/ SuspendSession(r) \/ ResumeSession(r)
    BY <2>2 DEF FinishSession, SuspendSession, ResumeSession
  <2>3. MoveTx(r) \/ FinishSession(r) \/ SuspendSession(r) \/ ResumeSession(r)
          \/ UNCHANGED session
    BY <1>4, Zenon
       DEF Continue, ApplyMoveRead, ScheduleTurn, MaybeFireBot, CancelTurn,
           PublishGameFinished, UpdateGameResultEndedBy, OnTimeout,
           OnReadyTimeout, CreateGameResult, StoreReady, CountReady,
           OnAllReady, ClearReadyVotes, StorePause, CountPause, CancelPause,
           ClearPauseVotes, StoreResume, CountResume, ClearResumeVotes,
           ScheduleResumed
  <2> QED
    BY <2>1, <2>2, <2>3
<1>5. ASSUME ForceClose \/ Restart
      PROVE  UNCHANGED <<log, current>>
  BY <1>5 DEF ForceClose, Restart, session
<1>6. UNCHANGED vars => UNCHANGED <<log, current>>
  BY DEF vars, session
<1>7. ASSUME NEW r \in Requests, MoveTx(r)
      PROVE  MoveLogSerial'
  BY <1>1, <1>2, <1>7, Zenon DEF MoveTx, PlayOn, PlayLast
<1> QED
  BY <1>1, <1>3, <1>4, <1>5, <1>6, <1>7, Zenon DEF Next

LEMMA SerialInit == Init => SerialInv
<1> SUFFICES ASSUME Init PROVE SerialInv
  OBVIOUS
<1>1. Idle \in ReqType
  BY DEF Idle, ReqType, Steps, Kinds
<1>2. req \in [Requests -> ReqType]
  BY <1>1 DEF Init
<1>3. StateOK
  <2>1. 0 \in 0..MaxRestarts
    BY SessionAssumption
  <2>2. /\ log \in Seq([by : Players, next : Players])
        /\ results \in Seq({"game", "forfeit", "timeout", "ready_timeout"})
    BY DEF Init
  <2>3. registered \in SUBSET Bots /\ Bots \in SUBSET Players
    BY SessionAssumption DEF Init
  <2>4. {} \in SUBSET Players
    OBVIOUS
  <2> QED
    BY <2>1, <2>2, <2>3, <2>4, Zenon DEF Init, StateOK, Tasks
<1>4. ReqInv
  BY DEF Init, ReqInv, Idle, ReadBehind, VoterKnown
<1>5. MoveLogSerial
  BY DEF Init, MoveLogSerial
<1> QED
  BY <1>2, <1>3, <1>4, <1>5 DEF SerialInv, TypeOK

(* The strengthened invariant holds in every reachable state.              *)
THEOREM SerialInvariant == Spec => []SerialInv
<1>1. Init => SerialInv
  BY SerialInit
<1>2. SerialInv /\ [Next]_vars => SerialInv'
  BY ReqStep, StateStep, ReqInvStep, SerialStep DEF SerialInv, TypeOK
<1> QED
  BY <1>1, <1>2, PTL DEF Spec

(* The session row, the task queue, the votes and every request in flight  *)
(* stay well typed (runtime.go, asynq_handlers.go, runtime_pause.go).      *)
THEOREM SessionTypes == Spec => []TypeOK
  BY SerialInvariant, PTL DEF SerialInv

(* However HTTP moves, bot goroutines, timeouts, pauses and restarts       *)
(* interleave, the move log of ApplyMove (runtime.go:225-382) is one game. *)
THEOREM MoveLogIsOneGame == Spec => []MoveLogSerial
  BY SerialInvariant, PTL DEF SerialInv

-----------------------------------------------------------------------------

(* That an ended session is recorded and announced: between the statement  *)
(* that ends it and the last one about it a request is under way that owes *)
(* the result, or the event.                                               *)
OwesEvent(q) == q.pc = "publish" \/ (q.pc = "cancel" /\ q.kind # "surrender")

EndKnown(q) ==
    /\ q.pc = "relabel" => published
    /\ q.pc = "result" => finished
    /\ q.pc \in {"read", "tx", "timeout"} => q.kind # "surrender"

Played == \E i \in DOMAIN results : results[i] # "ready_timeout"

EndInv ==
    /\ finished /\ ~forced /\ results = <<>> => \E r \in Requests : At(r, "result")
    /\ Played => published \/ \E r \in Requests : OwesEvent(req[r])
    /\ results # <<>> => finished
    /\ \A r \in Requests : EndKnown(req[r])

\* Where a request knows nothing of the end, and where it owes its record.
Elsewhere == Steps \ {"relabel", "result", "read", "tx", "timeout"}

Owing == {"result", "cancel", "publish"}

(* A request that owes nothing may go anywhere that knows of the end.      *)
LEMMA EndKept ==
  ASSUME TypeOK, EndInv, NEW r \in Requests, req[r].pc \notin Owing,
         UNCHANGED <<finished, forced, results, published>>
  PROVE  /\ \A new : Become(r, new) /\ EndKnown(new) => EndInv'
         /\ End(r) => EndInv'
         /\ \A at \in Elsewhere : Goto(r, at) => EndInv'
<1>1. ASSUME NEW new, Become(r, new), EndKnown(new) PROVE EndInv'
  <2>1. \A q \in Requests : req'[q] = IF q = r THEN new ELSE req[q]
    BY <1>1 DEF TypeOK, Become
  <2>2. \A q \in Requests : EndKnown(req[q])'
    BY <1>1, <2>1 DEF EndInv, EndKnown
  <2>3. ASSUME NEW q \in Requests, At(q, "result") PROVE At(q, "result")'
    BY <2>1, <2>3 DEF At, Owing
  <2>4. ASSUME NEW q \in Requests, OwesEvent(req[q]) PROVE OwesEvent(req[q])'
    BY <2>1, <2>4 DEF OwesEvent, Owing
  <2>5. Played' = Played
    BY DEF Played
  <2> QED
    BY <2>2, <2>3, <2>4, <2>5 DEF EndInv
<1>2. EndKnown(Idle)
  BY DEF EndKnown, Idle
<1>3. ASSUME NEW at \in Elsewhere PROVE EndKnown([req[r] EXCEPT !.pc = at])
  BY ReqTyped DEF EndKnown, ReqType, Elsewhere
<1> QED
  BY <1>1, <1>2, <1>3 DEF End, Goto

(* Every step keeps it.                                                    *)
LEMMA EndStep == TypeOK /\ EndInv /\ [Next]_vars => EndInv'
<1> SUFFICES ASSUME TypeOK, EndInv, [Next]_vars PROVE EndInv'
  OBVIOUS
<1> USE DEF session, endVars
<1>0. CASE UNCHANGED vars
  BY <1>0 DEF vars, EndInv, EndKnown, OwesEvent, Played, At
<1>1. ASSUME NEW r \in Requests, Arrive(r) PROVE EndInv'
  <2>0. req[r] = Idle /\ UNCHANGED <<finished, forced, results, published>>
    BY <1>1, Zenon DEF Arrive, HandleMove, VoteReady, VotePause, VoteResume, Surrender, TurnFires,
                ReadyFires, Begin
  <2>1. req[r].pc \notin Owing
    BY <2>0 DEF Idle, Owing
  <2>2. \A p : EndKnown([Idle EXCEPT !.pc = "tx", !.kind = "http", !.who = p, !.snap = Len(log)])
    BY DEF EndKnown, Idle
  <2>3. ASSUME NEW p, NEW pc, NEW kind, pc \notin {"relabel", "result"}, kind # "surrender" \/ pc = "cancel"
        PROVE  EndKnown([Idle EXCEPT !.pc = pc, !.kind = kind, !.who = p])
    BY <2>3 DEF EndKnown, Idle
  <2> QED
    BY <1>1, <2>0, <2>1, <2>2, <2>3, EndKept, ZenonT(60)
    DEF Arrive, HandleMove, VoteReady, VotePause, VoteResume, Surrender, TurnFires, ReadyFires, Begin
<1>2. ASSUME NEW r \in Requests, ScheduleTurn(r) PROVE EndInv'
  BY <1>2, EndKept DEF ScheduleTurn, InTimeout, At, Owing, Elsewhere, Steps
<1>3. ASSUME NEW r \in Requests, OnReadyTimeout(r) PROVE EndInv'
  BY <1>3, EndKept DEF OnReadyTimeout, Return, At, Owing, Elsewhere, Steps
<1>4. ASSUME NEW r \in Requests, StoreReady(r) PROVE EndInv'
  BY <1>4, EndKept DEF StoreReady, At, Owing, Elsewhere, Steps
<1>5. ASSUME NEW r \in Requests, OnAllReady(r) PROVE EndInv'
  BY <1>5, EndKept, Zenon DEF OnAllReady, At, Owing, Elsewhere, Steps
<1>6. ASSUME NEW r \in Requests, ClearReadyVotes(r) PROVE EndInv'
  BY <1>6, EndKept DEF ClearReadyVotes, At, Owing, Elsewhere, Steps
<1>7. ASSUME NEW r \in Requests, CountPause(r) PROVE EndInv'
  BY <1>7, EndKept, Zenon DEF CountPause, At, Owing, Elsewhere, Steps
<1>8. ASSUME NEW r \in Requests, CancelPause(r) PROVE EndInv'
  BY <1>8, EndKept, Zenon DEF CancelPause, At, Owing, Elsewhere, Steps
<1>9. ASSUME NEW r \in Requests, SuspendSession(r) PROVE EndInv'
  BY <1>9, EndKept DEF SuspendSession, At, Owing, Elsewhere, Steps
<1>10. ASSUME NEW r \in Requests, ClearPauseVotes(r) PROVE EndInv'
  BY <1>10, EndKept DEF ClearPauseVotes, At, Owing, Elsewhere, Steps
<1>11. ASSUME NEW r \in Requests, CountResume(r) PROVE EndInv'
  BY <1>11, EndKept DEF CountResume, At, Owing, Elsewhere, Steps
<1>12. ASSUME NEW r \in Requests, ResumeSession(r) PROVE EndInv'
  BY <1>12, EndKept DEF ResumeSession, At, Owing, Elsewhere, Steps
<1>13. ASSUME NEW r \in Requests, ClearResumeVotes(r) PROVE EndInv'
  BY <1>13, EndKept DEF ClearResumeVotes, At, Owing, Elsewhere, Steps
<1>14. ASSUME NEW r \in Requests, ScheduleResumed(r) PROVE EndInv'
  BY <1>14, EndKept DEF ScheduleResumed, At, Owing, Elsewhere, Steps
<1>15. ASSUME NEW r \in Requests, ApplyMoveRead(r) PROVE EndInv'
  <2>1. EndKnown([req[r] EXCEPT !.pc = "tx", !.snap = Len(log)])
    BY <1>15, ReqTyped DEF ApplyMoveRead, EndInv, EndKnown, ReqType, Idle, At
  <2> QED
    BY <1>15, <2>1, EndKept DEF ApplyMoveRead, At, Owing, Return
<1>16. ASSUME NEW r \in Requests, MaybeFireBot(r) PROVE EndInv'
  <2>1. EndKnown([Idle EXCEPT !.pc = "read", !.kind = "bot", !.who = req[r].who])
    BY <1>16, ReqTyped DEF MaybeFireBot, EndInv, EndKnown, ReqType, Idle, At
  <2> QED
    BY <1>16, <2>1, EndKept DEF MaybeFireBot, At, Owing
<1>17. ASSUME NEW r \in Requests, OnTimeout(r) PROVE EndInv'
  <2>1. EndKnown([req[r] EXCEPT !.pc = "read", !.who = current])
    BY <1>17, ReqTyped DEF OnTimeout, EndInv, EndKnown, ReqType, Idle, At
  <2> QED
    BY <1>17, <2>1, EndKept DEF OnTimeout, At, Owing, Return
<1>18. ASSUME NEW r \in Requests, CountReady(r) PROVE EndInv'
  <2>1. EndKnown([req[r] EXCEPT !.pc = "allReady", !.who = current])
    BY <1>18, ReqTyped DEF CountReady, EndInv, EndKnown, ReqType, Idle, At
  <2> QED
    BY <1>18, <2>1, EndKept DEF CountReady, At, Owing
<1>19. ASSUME NEW r \in Requests, StorePause(r) PROVE EndInv'
  <2>1. EndKnown([req[r] EXCEPT !.pc = "countPause", !.who = "none"])
    BY <1>19, ReqTyped DEF StorePause, EndInv, EndKnown, ReqType, Idle, At
  <2> QED
    BY <1>19, <2>1, EndKept DEF StorePause, At, Owing
<1>20. ASSUME NEW r \in Requests, StoreResume(r) PROVE EndInv'
  <2>1. EndKnown([req[r] EXCEPT !.pc = "countResume", !.who = "none"])
    BY <1>20, ReqTyped DEF StoreResume, EndInv, EndKnown, ReqType, Idle, At
  <2> QED
    BY <1>20, <2>1, EndKept DEF StoreResume, At, Owing
<1>21. ASSUME NEW r \in Requests, MoveTx(r) PROVE EndInv'
  <2>1. CASE req[r].snap # Len(log)
    BY <1>21, <2>1, EndKept DEF MoveTx, Return, At, Owing
  <2>2. CASE PlayOn(r)
    <3>1. \A next : EndKnown([req[r] EXCEPT !.pc = "schedule", !.who = next, !.snap = 0])
      BY ReqTyped DEF EndKnown, ReqType
    <3>2. UNCHANGED <<finished, forced, results, published>> /\ req[r].pc \notin Owing
      BY <1>21, <2>2, ZenonT(60) DEF MoveTx, PlayOn, At, Owing
    <3> QED
      BY <2>2, <3>1, <3>2, EndKept, Zenon DEF PlayOn
  <2>3. CASE PlayLast(r)
    <3> DEFINE new == [Idle EXCEPT !.pc = "cancel", !.kind = req[r].kind]
    <3>1. new.pc = "cancel" /\ new.kind = req[r].kind /\ req[r].kind # "surrender"
      BY <1>21 DEF MoveTx, At, EndInv, EndKnown, Idle
    <3>2. \A q \in Requests : req'[q] = IF q = r THEN new ELSE req[q]
      BY <2>3 DEF PlayLast, Become, TypeOK
    <3>3. finished' /\ results' # <<>> /\ UNCHANGED published
      BY <2>3 DEF PlayLast, TypeOK, StateOK
    <3>4. OwesEvent(req[r])' /\ \A q \in Requests : EndKnown(req[q])'
      BY <3>1, <3>2, <3>3, Zenon DEF OwesEvent, EndKnown, EndInv
    <3> QED
      BY <3>3, <3>4 DEF EndInv
  <2> QED
    BY <1>21, <2>1, <2>2, <2>3, Zenon DEF MoveTx
<1>22. ASSUME NEW r \in Requests, CancelTurn(r) PROVE EndInv'
  <2> DEFINE new == [req[r] EXCEPT !.pc = IF req[r].kind = "surrender" THEN "finish" ELSE "publish"]
  <2>1. new.pc = IF req[r].kind = "surrender" THEN "finish" ELSE "publish"
    BY ReqTyped DEF ReqType
  <2>2. \A q \in Requests : req'[q] = IF q = r THEN new ELSE req[q]
    BY <1>22 DEF CancelTurn, Goto, Become, TypeOK
  <2>3. UNCHANGED <<finished, forced, results, published>> /\ req[r].pc = "cancel" /\ Played' = Played
    BY <1>22, Zenon DEF CancelTurn, At, Played
  <2> HIDE DEF new
  <2>4. \A q \in Requests : EndKnown(req[q])'
    BY <2>1, <2>2, <2>3, Zenon DEF EndInv, EndKnown
  <2>5. ASSUME NEW q \in Requests, OwesEvent(req[q]) PROVE OwesEvent(req[q])'
    BY <2>1, <2>2, <2>3, <2>5, Zenon DEF OwesEvent
  <2>6. ASSUME NEW q \in Requests, At(q, "result") PROVE At(q, "result")'
    BY <2>2, <2>3, <2>6 DEF At
  <2> QED
    BY <2>3, <2>4, <2>5, <2>6 DEF EndInv
<1>23. ASSUME NEW r \in Requests, PublishGameFinished(r) PROVE EndInv'
  <2>1. PICK new : Become(r, new) /\ new.pc \in {"idle", "relabel"}
    <3>1. [req[r] EXCEPT !.pc = "relabel"].pc = "relabel" /\ Idle.pc = "idle"
      BY ReqTyped DEF ReqType, Idle
    <3> QED
      BY <1>23, <3>1, ZenonT(60) DEF PublishGameFinished, Goto, End
  <2>2. \A q \in Requests : req'[q] = IF q = r THEN new ELSE req[q]
    BY <2>1 DEF Become, TypeOK
  <2>3. UNCHANGED <<finished, forced, results>> /\ published' /\ req[r].pc = "publish"
    BY <1>23, Zenon DEF PublishGameFinished, At
  <2>4. \A q \in Requests : EndKnown(req[q])' /\ (At(q, "result") => At(q, "result")')
    BY <2>1, <2>2, <2>3 DEF EndInv, EndKnown, At
  <2> QED
    BY <2>3, <2>4, Zenon DEF EndInv
<1>24. ASSUME NEW r \in Requests, UpdateGameResultEndedBy(r) PROVE EndInv'
  <2>1. \A q \in Requests : req'[q] = IF q = r THEN Idle ELSE req[q]
    BY <1>24 DEF UpdateGameResultEndedBy, Return, End, Become, TypeOK
  <2>2. UNCHANGED <<finished, forced, published>> /\ published /\ req[r].pc = "relabel"
    BY <1>24 DEF UpdateGameResultEndedBy, At, EndInv, EndKnown
  <2>3. results' = <<>> <=> results = <<>>
    BY <1>24 DEF UpdateGameResultEndedBy, TypeOK, StateOK
  <2>4. \A q \in Requests : EndKnown(req[q])' /\ (At(q, "result") => At(q, "result")')
    BY <2>1, <2>2 DEF EndInv, EndKnown, At, Idle
  <2> QED
    BY <2>2, <2>3, <2>4, Zenon DEF EndInv
<1>25. ASSUME NEW r \in Requests, FinishSession(r) PROVE EndInv'
  <2>1. [req[r] EXCEPT !.pc = "result"].pc = "result"
    BY ReqTyped DEF ReqType
  <2>2. \A q \in Requests : req'[q] = IF q = r THEN [req[r] EXCEPT !.pc = "result"] ELSE req[q]
    BY <1>25 DEF FinishSession, Goto, Become, TypeOK
  <2>3. UNCHANGED <<forced, results, published>> /\ finished' /\ req[r].pc = "finish" /\ Played' = Played
    BY <1>25 DEF FinishSession, At, Played
  <2>4. \A q \in Requests : EndKnown(req[q])' /\ (OwesEvent(req[q]) => OwesEvent(req[q])')
    BY <2>1, <2>2, <2>3, Zenon DEF EndInv, EndKnown, OwesEvent
  <2>5. At(r, "result")'
    BY <2>1, <2>2, Zenon DEF At
  <2> QED
    BY <2>3, <2>4, <2>5 DEF EndInv
<1>26. ASSUME NEW r \in Requests, CreateGameResult(r) PROVE EndInv'
  <2>1. finished /\ UNCHANGED <<finished, forced, published>> /\ req[r].pc = "result"
    BY <1>26 DEF CreateGameResult, At, EndInv, EndKnown
  <2>2. CASE req[r].kind = "surrender"
    <3>1. [req[r] EXCEPT !.pc = "publish"].pc = "publish"
      BY ReqTyped DEF ReqType
    <3>2. \A q \in Requests : req'[q] = IF q = r THEN [req[r] EXCEPT !.pc = "publish"] ELSE req[q]
      BY <1>26, <2>2 DEF CreateGameResult, Goto, Become, TypeOK
    <3>3. results' # <<>>
      BY <1>26, <2>2 DEF CreateGameResult, TypeOK, StateOK
    <3>4. OwesEvent(req[r])' /\ \A q \in Requests : EndKnown(req[q])'
      BY <2>1, <3>1, <3>2, ZenonT(60) DEF EndInv, EndKnown, OwesEvent
    <3> QED
      BY <2>1, <3>3, <3>4, Zenon DEF EndInv
  <2>3. CASE req[r].kind # "surrender"
    <3>1. \A q \in Requests : req'[q] = IF q = r THEN Idle ELSE req[q]
      BY <1>26, <2>3 DEF CreateGameResult, Return, End, Become, TypeOK
    <3>2. results' = Append(results, "ready_timeout")
      BY <1>26, <2>3 DEF CreateGameResult
    <3>3. results' # <<>> /\ (Played' => Played)
      BY <3>2 DEF TypeOK, StateOK, Played
    <3>4. \A q \in Requests : EndKnown(req[q])' /\ (OwesEvent(req[q]) => OwesEvent(req[q])')
      BY <2>1, <3>1 DEF EndInv, EndKnown, OwesEvent, Idle
    <3> QED
      BY <2>1, <3>3, <3>4 DEF EndInv
  <2> QED
    BY <2>2, <2>3
<1>27. CASE ForceClose
  BY <1>27 DEF ForceClose, EndInv, EndKnown, OwesEvent, Played, At
<1>28. CASE Restart
  <2>1. ~finished' /\ results' = <<>>
    BY <1>28 DEF Restart, EndInv
  <2>2. \A q \in Requests : req'[q] = Idle \/ req'[q] = [Idle EXCEPT !.pc = "timeout", !.kind = "pending"]
    BY <1>28 DEF Restart
  <2>3. \A q \in Requests : EndKnown(req[q])'
    <3> DEFINE late == [Idle EXCEPT !.pc = "timeout", !.kind = "pending"]
    <3>1. late.pc = "timeout" /\ late.kind = "pending" /\ Idle.pc = "idle"
      BY DEF Idle
    <3> HIDE DEF late
    <3> QED
      BY <2>2, <3>1, Zenon DEF EndKnown, late
  <2>4. ~Played'
    BY <2>1 DEF Played
  <2> QED
    BY <2>1, <2>3, <2>4 DEF EndInv
<1> QED
  BY <1>0, <1>1, <1>2, <1>3, <1>4, <1>5, <1>6, <1>7, <1>8, <1>9,
     <1>10, <1>11, <1>12, <1>13, <1>14, <1>15, <1>16, <1>17, <1>18, <1>19,
     <1>20, <1>21, <1>22, <1>23, <1>24, <1>25, <1>26, <1>27, <1>28, Zenon
  DEF Next, Continue

(* Once every handler is done, a session that ended has a result, and its  *)
(* event is out unless nobody came to play (ApplyMove, Surrender and       *)
(* onReadyTimeout), for any players, requests and orders of their steps.   *)
THEOREM EndsAreRecorded == Spec => []EndIsRecorded
<1>1. Init => EndInv
  BY DEF Init, EndInv, EndKnown, Played, Idle
<1>2. SerialInv /\ EndInv /\ [Next]_vars => EndInv'
  BY EndStep DEF SerialInv
<1>3. EndInv => EndIsRecorded
  BY DEF EndInv, EndIsRecorded, Quiet, Played, OwesEvent, At, Idle
<1> QED
  BY <1>1, <1>2, <1>3, SerialInvariant, PTL DEF Spec
=============================================================================
