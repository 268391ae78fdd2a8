--------------------------- MODULE SessionRuntime ---------------------------
(***************************************************************************)
(* game-server/internal/domain/runtime: one game session, from the ready   *)
(* handshake that StartSession opens to its end.  HTTP handlers, bot       *)
(* goroutines and Asynq timer tasks run side by side, each as one request  *)
(* that does one store or timer call per step.                             *)
(*                                                                         *)
(* A game state is its current player; what a move does to the board is    *)
(* left to the games, so a move may hand the turn to any player or end the *)
(* game.  A timer task is "none", "scheduled" or "active": while it is     *)
(* active Asynq refuses both DeleteTask and an Enqueue of the same TaskID. *)
(* Delays are left out: a scheduled task may fire at any time.             *)
(***************************************************************************)
EXTENDS Integers, Sequences, FiniteSets

CONSTANTS
    Players,      \* participants of the room
    Bots,         \* those of them with is_bot
    Requests,     \* bound: handlers and goroutines under way at once
    MaxMoves,     \* bound: moves after which the game is over
    MaxRestarts   \* bound: restarts of the game-server

ASSUME SessionAssumption ==
    /\ "none" \notin Players
    /\ Bots \subseteq Players /\ Bots # Players
    /\ MaxMoves \in Nat \ {0}
    /\ MaxRestarts \in Nat

VARIABLES
    registered,   \* bots in the in-memory registry
    log,          \* table moves: who moved, and whose turn it was then
    current,      \* state.CurrentPlayerID
    finished, suspended, forced,   \* forced: closed by a manager
    room,         \* rooms.status
    results,      \* table game_results: the rows' ended_by
    published,    \* a game.session.finished event was published
    ready, pauseVotes, resumeVotes,
    turnTask, readyTask,
    fired,        \* history: the turn task has fired
    restarts,
    req           \* per request: step, kind, player, and what it read

session  == <<log, current, finished, suspended, forced>>
endVars  == <<room, results, published>>
votes    == <<ready, pauseVotes, resumeVotes>>
timers   == <<turnTask, readyTask>>
history  == <<fired, restarts>>
vars == <<registered, session, endVars, votes, timers, history, req>>

Humans == Players \ Bots
Idle == [pc |-> "idle", kind |-> "none", who |-> "none", snap |-> 0]
Become(r, new) == req' = [req EXCEPT ![r] = new]
Begin(r, pc, kind, p) ==
    /\ req[r] = Idle
    /\ Become(r, [Idle EXCEPT !.pc = pc, !.kind = kind, !.who = p])
At(r, pc) == req[r].pc = pc
Goto(r, pc) == Become(r, [req[r] EXCEPT !.pc = pc])
End(r) == Become(r, Idle)
InTimeout(r) == req[r].kind \in {"turn", "pending"}

(* AsynqTimer.enqueue (DeleteTask, then Enqueue) and deleteTask.           *)
Armed(task) == IF task = "active" THEN "active" ELSE "scheduled"
Deleted(task) == IF task = "scheduled" THEN "none" ELSE task

(* A task's handler returned: Asynq drops the task.                        *)
Completed(r, kind, task) == IF req[r].kind = kind THEN "none" ELSE task
Return(r) ==
    /\ End(r)
    /\ turnTask' = Completed(r, "turn", turnTask)
    /\ readyTask' = Completed(r, "ready", readyTask)

(* StartSession has run, for a room with at least one human: the bots are  *)
(* confirmed and the ready timer is set.  Bots of the ranked queue play    *)
(* through the API and are not in the registry.                            *)
Init ==
    /\ registered \in SUBSET Bots
    /\ log = <<>>
    /\ current \in Players
    /\ finished = FALSE /\ suspended = FALSE /\ forced = FALSE
    /\ room = "in_progress"
    /\ results = <<>>
    /\ published = FALSE
    /\ ready = Bots
    /\ pauseVotes = {} /\ resumeVotes = {}
    /\ turnTask = "none"
    /\ readyTask = "scheduled"
    /\ fired = FALSE /\ restarts = 0
    /\ req = [r \in Requests |-> Idle]

-----------------------------------------------------------------------------
(* ApplyMove, called by handleMove for a human or a queue bot (after a      *)
(* restart for any bot: the registry is not refilled), ...                 *)
HandleMove(r, p) ==
    /\ p \notin registered
    /\ ~finished /\ ~suspended /\ current = p
    /\ req[r] = Idle
    /\ Become(r, [Idle EXCEPT !.pc = "tx", !.kind = "http", !.who = p,
                              !.snap = Len(log)])
    /\ UNCHANGED <<registered, session, endVars, votes, timers, history>>

(* ... or by a bot's goroutine or a timeout: the session is read, and the  *)
(* call returns if it is over, paused or another player's turn, or (for a  *)
(* bot, which decided on an earlier state) if the move is not valid.       *)
ApplyMoveRead(r) ==
    /\ At(r, "read")
    /\ UNCHANGED <<registered, session, endVars, votes, history>>
    /\ \/ /\ ~finished /\ ~suspended /\ current = req[r].who
          /\ Become(r, [req[r] EXCEPT !.pc = "tx", !.snap = Len(log)])
          /\ UNCHANGED timers
       \/ /\ finished \/ suspended \/ current # req[r].who
               \/ req[r].kind = "bot"
          /\ Return(r)

(* The transaction's writes: RecordMove, UpdateSessionState and            *)
(* TouchLastMoveAt; then, if the game goes on, nothing; ...                *)
RecordMove(r, next) ==
    /\ log' = Append(log, [by |-> req[r].who, next |-> next])
    /\ current' = next

PlayOn(r) ==
    /\ Len(log) + 1 < MaxMoves
    /\ \E next \in Players :
        /\ RecordMove(r, next)
        /\ Become(r, [req[r] EXCEPT !.pc = "schedule", !.who = next,
                                    !.snap = 0])
    /\ UNCHANGED <<finished, endVars>>

PlayLast_NoResult(r) ==
    /\ \E next \in Players : RecordMove(r, next)
    /\ finished' = TRUE
    /\ room' = "finished"
    /\ Become(r, [Idle EXCEPT !.pc = "cancel", !.kind = req[r].kind])
    /\ UNCHANGED <<results, published>>

(* ... if it is over, FinishSession, the room's status and the result.     *)
PlayLast(r) ==
    /\ \E next \in Players : RecordMove(r, next)
    /\ finished' = TRUE
    /\ room' = "finished"
    /\ results' = Append(results, "game")
    /\ Become(r, [Idle EXCEPT !.pc = "cancel", !.kind = req[r].kind])
    /\ UNCHANGED published

MoveTx_NoUniqueKey(r) ==
    /\ At(r, "tx")
    /\ PlayOn(r) \/ PlayLast(r)
    /\ UNCHANGED <<registered, suspended, forced, votes, timers, history>>

(* moves has a unique (session_id, move_number), and the number is one     *)
(* more than the move count read before.  Nothing else is checked again.   *)
MoveTx(r) ==
    /\ At(r, "tx")
    /\ \/ /\ req[r].snap = Len(log)
          /\ PlayOn(r) \/ PlayLast(r)
          /\ UNCHANGED timers
       \/ /\ req[r].snap # Len(log)
          /\ Return(r)
          /\ UNCHANGED <<log, current, finished, endVars>>
    /\ UNCHANGED <<registered, suspended, forced, votes, history>>

(* The game goes on: Schedule (in a timeout twice, the second time by      *)
(* applyEngineTimeout) ...                                                 *)
ScheduleTurn(r) ==
    /\ At(r, "schedule") \/ At(r, "reschedule")
    /\ turnTask' = Armed(turnTask)
    /\ Goto(r, IF InTimeout(r) /\ At(r, "schedule") THEN "reschedule"
                                                    ELSE "wake")
    /\ UNCHANGED <<registered, session, endVars, votes, readyTask, history>>

(* ... and MaybeFireBot for the player who is to move now.  The goroutine  *)
(* takes over the request.                                                 *)
MaybeFireBot(r) ==
    /\ At(r, "wake")
    /\ IF req[r].who \in registered
       THEN Become(r, [Idle EXCEPT !.pc = "read", !.kind = "bot",
                                   !.who = req[r].who])
       ELSE End(r)
    /\ turnTask' = Completed(r, "turn", turnTask)
    /\ UNCHANGED <<registered, session, endVars, votes, readyTask, history>>

(* The game is over: Cancel, publishGameFinished and, in a timeout,        *)
(* UpdateGameResultEndedBy.                                                *)
CancelTurn(r) ==
    /\ At(r, "cancel")
    /\ turnTask' = Deleted(turnTask)
    /\ Goto(r, IF req[r].kind = "surrender" THEN "finish" ELSE "publish")
    /\ UNCHANGED <<registered, session, endVars, votes, readyTask, history>>

PublishGameFinished(r) ==
    /\ At(r, "publish")
    /\ published' = TRUE
    /\ IF InTimeout(r) THEN Goto(r, "relabel") ELSE End(r)
    /\ UNCHANGED <<registered, session, room, results, votes, timers,
                   history>>

UpdateGameResultEndedBy(r) ==
    /\ At(r, "relabel")
    /\ results' = [i \in DOMAIN results |-> "timeout"]
    /\ Return(r)
    /\ UNCHANGED <<registered, session, room, published, votes, history>>

-----------------------------------------------------------------------------
(* HandleTurnTimeout: the task becomes active and the session is read.     *)
TurnFires(r) ==
    /\ turnTask = "scheduled"
    /\ turnTask' = "active"
    /\ fired' = TRUE
    /\ Begin(r, "timeout", "turn", "none")
    /\ UNCHANGED <<registered, session, endVars, votes, readyTask, restarts>>

OnTimeout(r) ==
    /\ At(r, "timeout")
    /\ IF finished \/ suspended
       THEN Return(r)
       ELSE /\ Become(r, [req[r] EXCEPT !.pc = "read", !.who = current])
            /\ UNCHANGED timers
    /\ UNCHANGED <<registered, session, endVars, votes, history>>

(* HandleReadyTimeout.                                                     *)
ReadyFires(r) ==
    /\ readyTask = "scheduled"
    /\ readyTask' = "active"
    /\ Begin(r, "readyTimeout", "ready", "none")
    /\ UNCHANGED <<registered, session, endVars, votes, turnTask, history>>

OnReadyTimeout_AnyReady(r) ==
    /\ At(r, "readyTimeout")
    /\ IF finished \/ suspended \/ ready # {}
       THEN Return(r)
       ELSE Goto(r, "finish") /\ UNCHANGED timers
    /\ UNCHANGED <<registered, session, endVars, votes, history>>

OnReadyTimeout(r) ==
    /\ At(r, "readyTimeout")
    /\ IF finished \/ suspended \/ Players \subseteq ready
       THEN Return(r)
       ELSE Goto(r, "finish") /\ UNCHANGED timers
    /\ UNCHANGED <<registered, session, endVars, votes, history>>

(* Surrender: also of a paused session.                                    *)
Surrender(r) ==
    /\ ~finished
    /\ Begin(r, "cancel", "surrender", "none")
    /\ UNCHANGED <<registered, session, endVars, votes, timers, history>>

(* Surrender and onReadyTimeout end the session in separate statements:    *)
(* FinishSession (and the room's status, which nothing here reads), ...    *)
FinishSession(r) ==
    /\ At(r, "finish")
    /\ finished' = TRUE
    /\ room' = "finished"
    /\ Goto(r, "result")
    /\ UNCHANGED <<registered, log, current, suspended, forced, results,
                   published, votes, timers, history>>

(* ... and the result; only Surrender publishes the event.                 *)
CreateGameResult(r) ==
    /\ At(r, "result")
    /\ IF req[r].kind = "surrender"
       THEN /\ results' = Append(results, "forfeit")
            /\ Goto(r, "publish")
            /\ UNCHANGED timers
       ELSE /\ results' = Append(results, "ready_timeout")
            /\ Return(r)
    /\ UNCHANGED <<registered, session, room, published, votes, history>>

(* ForceCloseSession: one conditional UPDATE, and nothing else.            *)
ForceClose ==
    /\ ~finished
    /\ finished' = TRUE
    /\ suspended' = FALSE
    /\ forced' = TRUE
    /\ UNCHANGED <<registered, log, current, endVars, votes, timers, history,
                   req>>

-----------------------------------------------------------------------------
(* VoteReady: the vote is stored, then the confirmed are counted against   *)
(* the humans; the bots are confirmed along the way.                       *)
VoteReady(r, p) ==
    /\ p \notin registered
    /\ ~finished
    /\ Begin(r, "storeReady", "http", p)
    /\ UNCHANGED <<registered, session, endVars, votes, timers, history>>

StoreReady(r) ==
    /\ At(r, "storeReady")
    /\ ready' = ready \cup {req[r].who}
    /\ Goto(r, "countReady")
    /\ UNCHANGED <<registered, session, endVars, pauseVotes, resumeVotes,
                   timers, history>>

CountReady(r) ==
    /\ At(r, "countReady")
    /\ ready' = ready \cup Bots
    /\ IF Cardinality(ready') >= Cardinality(Humans)
       THEN Become(r, [req[r] EXCEPT !.pc = "allReady", !.who = current])
       ELSE End(r)
    /\ UNCHANGED <<registered, session, endVars, pauseVotes, resumeVotes,
                   timers, history>>

(* OnAllReady: CancelReady, Schedule, ClearReadyVotes, MaybeFireBot.       *)
OnAllReady(r) ==
    /\ At(r, "allReady")
    /\ readyTask' = Deleted(readyTask)
    /\ turnTask' = Armed(turnTask)
    /\ Goto(r, "clearReady")
    /\ UNCHANGED <<registered, session, endVars, votes, history>>

ClearReadyVotes(r) ==
    /\ At(r, "clearReady")
    /\ ready' = {}
    /\ Goto(r, "wake")
    /\ UNCHANGED <<registered, session, endVars, pauseVotes, resumeVotes,
                   timers, history>>

(* VotePause: with the last human's vote, Cancel, SuspendSession and       *)
(* ClearPauseVotes, none of which looks at the session again.              *)
VotePause(r, p) ==
    /\ ~finished /\ ~suspended
    /\ Begin(r, "storePause", "http", p)
    /\ UNCHANGED <<registered, session, endVars, votes, timers, history>>

StorePause(r) ==
    /\ At(r, "storePause")
    /\ pauseVotes' = pauseVotes \cup {req[r].who}
    /\ Become(r, [req[r] EXCEPT !.pc = "countPause", !.who = "none"])
    /\ UNCHANGED <<registered, session, endVars, ready, resumeVotes, timers,
                   history>>

CountPause(r) ==
    /\ At(r, "countPause")
    /\ IF Cardinality(pauseVotes) >= Cardinality(Humans)
       THEN Goto(r, "cancelPause") ELSE End(r)
    /\ UNCHANGED <<registered, session, endVars, votes, timers, history>>

CancelPause(r) ==
    /\ At(r, "cancelPause")
    /\ turnTask' = Deleted(turnTask)
    /\ Goto(r, "suspend")
    /\ UNCHANGED <<registered, session, endVars, votes, readyTask, history>>

SuspendSession(r) ==
    /\ At(r, "suspend")
    /\ suspended' = TRUE
    /\ Goto(r, "clearPause")
    /\ UNCHANGED <<registered, log, current, finished, forced, endVars, votes,
                   timers, history>>

ClearPauseVotes(r) ==
    /\ At(r, "clearPause")
    /\ pauseVotes' = {}
    /\ End(r)
    /\ UNCHANGED <<registered, session, endVars, ready, resumeVotes, timers,
                   history>>

(* VoteResume: with the last human's vote, ResumeSession, ClearResumeVotes *)
(* and ScheduleIn with the shortened delay.                                *)
VoteResume(r, p) ==
    /\ ~finished /\ suspended
    /\ Begin(r, "storeResume", "http", p)
    /\ UNCHANGED <<registered, session, endVars, votes, timers, history>>

StoreResume(r) ==
    /\ At(r, "storeResume")
    /\ resumeVotes' = resumeVotes \cup {req[r].who}
    /\ Become(r, [req[r] EXCEPT !.pc = "countResume", !.who = "none"])
    /\ UNCHANGED <<registered, session, endVars, ready, pauseVotes, timers,
                   history>>

CountResume(r) ==
    /\ At(r, "countResume")
    /\ IF Cardinality(resumeVotes) >= Cardinality(Humans)
       THEN Goto(r, "resume") ELSE End(r)
    /\ UNCHANGED <<registered, session, endVars, votes, timers, history>>

ResumeSession(r) ==
    /\ At(r, "resume")
    /\ suspended' = FALSE
    /\ Goto(r, "clearResume")
    /\ UNCHANGED <<registered, log, current, finished, forced, endVars, votes,
                   timers, history>>

ClearResumeVotes(r) ==
    /\ At(r, "clearResume")
    /\ resumeVotes' = {}
    /\ Goto(r, "armResumed")
    /\ UNCHANGED <<registered, session, endVars, ready, pauseVotes, timers,
                   history>>

ScheduleResumed(r) ==
    /\ At(r, "armResumed")
    /\ turnTask' = Armed(turnTask)
    /\ End(r)
    /\ UNCHANGED <<registered, session, endVars, votes, readyTask, history>>

-----------------------------------------------------------------------------
(* The server dies and comes back: requests and registry are gone, Asynq   *)
(* runs interrupted tasks again, and ReschedulePending arms the turn timer *)
(* of an unfinished session, or runs onTimeout at once in a goroutine if   *)
(* the turn's time is already over.  (Restarts after the end of the        *)
(* session are left out: nothing is pending then.)                         *)
Interrupted(task) == IF task = "active" THEN "scheduled" ELSE task
Restart ==
    /\ restarts < MaxRestarts
    /\ ~finished
    /\ restarts' = restarts + 1
    /\ registered' = {}
    /\ readyTask' = Interrupted(readyTask)
    /\ LET lost == [r \in Requests |-> Idle]
       IN \/ /\ req' = lost
             /\ turnTask' = IF suspended THEN Interrupted(turnTask)
                                         ELSE "scheduled"
          \/ /\ ~suspended
             /\ turnTask' = Interrupted(turnTask)
             /\ \E r \in Requests :
                  req' = [lost EXCEPT ![r] = [Idle EXCEPT !.pc = "timeout",
                                                          !.kind = "pending"]]
    /\ UNCHANGED <<session, endVars, votes, fired>>

Arrive(r) ==
    \/ \E p \in Players : HandleMove(r, p) \/ VoteReady(r, p)
    \/ \E p \in Humans : VotePause(r, p) \/ VoteResume(r, p)
    \/ Surrender(r)
    \/ TurnFires(r) \/ ReadyFires(r)

Continue(r) ==
    \/ ApplyMoveRead(r) \/ MoveTx(r) \/ ScheduleTurn(r) \/ MaybeFireBot(r)
    \/ CancelTurn(r) \/ PublishGameFinished(r) \/ UpdateGameResultEndedBy(r)
    \/ OnTimeout(r) \/ OnReadyTimeout(r)
    \/ FinishSession(r) \/ CreateGameResult(r)
    \/ StoreReady(r) \/ CountReady(r) \/ OnAllReady(r)
    \/ ClearReadyVotes(r)
    \/ StorePause(r) \/ CountPause(r) \/ CancelPause(r) \/ SuspendSession(r)
    \/ ClearPauseVotes(r)
    \/ StoreResume(r) \/ CountResume(r) \/ ResumeSession(r)
    \/ ClearResumeVotes(r) \/ ScheduleResumed(r)

Next ==
    \/ \E r \in Requests : Arrive(r) \/ Continue(r)
    \/ ForceClose
    \/ Restart

Spec == Init /\ [][Next]_vars

-----------------------------------------------------------------------------
Steps == {"idle", "read", "tx", "schedule", "reschedule", "wake", "cancel",
          "publish", "relabel", "timeout", "readyTimeout", "finish",
          "result", "storeReady", "countReady", "allReady",
          "clearReady", "storePause", "countPause", "cancelPause", "suspend",
          "clearPause", "storeResume", "countResume", "resume",
          "clearResume", "armResumed"}
Kinds == {"none", "http", "bot", "turn", "pending", "surrender", "ready"}
Tasks == {"none", "scheduled", "active"}

ReqType == [pc : Steps, kind : Kinds, who : Players \cup {"none"}, snap : Nat]

StateOK ==
    /\ registered \in SUBSET Bots
    /\ log \in Seq([by : Players, next : Players])
    /\ current \in Players
    /\ finished \in BOOLEAN /\ suspended \in BOOLEAN /\ forced \in BOOLEAN
    /\ room \in {"in_progress", "finished"}
    /\ results \in Seq({"game", "forfeit", "timeout", "ready_timeout"})
    /\ published \in BOOLEAN
    /\ ready \in SUBSET Players
    /\ pauseVotes \in SUBSET Players /\ resumeVotes \in SUBSET Players
    /\ turnTask \in Tasks /\ readyTask \in Tasks
    /\ fired \in BOOLEAN
    /\ restarts \in 0..MaxRestarts

TypeOK == StateOK /\ req \in [Requests -> ReqType]

(* The move log is one game: every recorded move was made by the player    *)
(* whose turn the move before it had left, and the session's state is the  *)
(* one after the last move, although requests, bots and timeouts decide on *)
(* states they read earlier (runtime.go:255, 277-300).                     *)
MoveLogSerial ==
    /\ \A k \in 1..Len(log) - 1 : log[k + 1].by = log[k].next
    /\ log # <<>> => current = log[Len(log)].next

Quiet == \A r \in Requests : req[r] = Idle

(* A session that ended, other than by a manager, has a result, and unless *)
(* nobody came to play the event for ratings and achievements is out, once *)
(* the handlers are done (runtime.go:335-345, 527-552).                    *)
EndIsRecorded ==
    Quiet /\ finished /\ ~forced /\ restarts = 0
        => /\ results # <<>>
           /\ published \/ \A i \in DOMAIN results :
                               results[i] = "ready_timeout"

(* A session that is neither over nor paused is on the clock whenever no   *)
(* handler is busy with it: nobody can hold it open by not confirming or   *)
(* not moving.  "Reschedule the turn timer for the next player."           *)
(* (asynq_handlers.go:145; runtime.go:102-105, runtime_pause.go:146-152).  *)
SessionClocked ==
    Quiet /\ ~finished /\ ~suspended
        => turnTask # "none" \/ readyTask # "none"

(* ... at least until the first turn timeout: no order of confirmations,   *)
(* moves, pauses, resumes and restarts leaves a session without a clock.   *)
SessionClockedAtFirst == ~fired => SessionClocked
=============================================================================
