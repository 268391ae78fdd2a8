------------------------------ MODULE BotRunner ------------------------------
(***************************************************************************)
(* One activation of a ranked bot (game-server/cmd/bot-runner): it joins   *)
(* the queue, accepts a proposal, votes ready in the room and plays until  *)
(* the game is over.  It acts on the events its sockets bring; a socket    *)
(* read has no deadline, so an event that never comes is waited for        *)
(* forever.  The services publish an event after the commit it tells of,   *)
(* each from its own handler, so events of one session may overtake one    *)
(* another and the session may have moved on when one is read.             *)
(***************************************************************************)
EXTENDS Naturals, Sequences, Functions

CONSTANT MaxPlies    \* bound: steps of the session, the one that ends it included

VARIABLES
    step,            \* where the activation is
    place,           \* the bot in the match service
    mail,            \* events on the player socket, oldest first
    match,           \* the session
    owed,            \* events of the session committed and not yet published
    frames,          \* events on the room socket, oldest first
    expired,         \* the join context's deadline has passed
    excused,         \* why an event or an answer may be missing
    outpaced         \* the turn was taken from the bot while it was thinking

runnerVars == <<step, place, mail, match, owed, frames, expired, excused, outpaced>>

Sides == {"bot", "other"}
InRoom == {"vote", "await", "first", "loop", "fetch", "think", "refused"}

RunnerInit ==
    /\ step = "idle"
    /\ place = "out"
    /\ mail = <<>>
    /\ match = [stage |-> "none", turn |-> "bot", ply |-> 0, ready |-> {}]
    /\ owed = {}
    /\ frames = <<>>
    /\ expired = FALSE
    /\ excused = "no"
    /\ outpaced = FALSE

RunnerTypeOK ==
    /\ step \in InRoom \cup {"idle", "found", "paired", "done"}
    /\ place \in {"out", "queued", "proposed", "accepted", "paired"}
    /\ Range(mail) \subseteq {"match_found", "match_ready"}
    /\ match \in [stage : {"none", "ready", "playing", "over"}, turn : Sides,
                  ply : 0 .. MaxPlies, ready : SUBSET Sides]
    /\ owed \subseteq [ply : 0 .. MaxPlies, says : {"game_ready", "game_over"} \cup Sides]
    /\ Range(frames) \subseteq {"game_ready", "game_over"} \cup Sides
    /\ expired \in BOOLEAN
    /\ excused \in {"no", "skipped", "lost"}
    /\ outpaced \in BOOLEAN

-----------------------------------------------------------------------------
(* The end of playOne: handleActivate closes both sockets.  A failure whose *)
(* cause is the deadline makes playOneBackfill leave the queue; any other   *)
(* leaves the bot where the match service has it.                           *)
Over(at) == step' = "done" /\ place' = at /\ mail' = <<>> /\ frames' = <<>>

\* Not being queued is as good as leaving.
LeaveQueue(at) == IF at = "queued" THEN "out" ELSE at

playOneBackfill(at) == Over(IF expired THEN LeaveQueue(at) ELSE at)

(* The same after an answer got lost: what the server did stays done.  The  *)
(* request to leave the queue may fail as well, which is logged.            *)
Fail(at) ==
    /\ \/ /\ playOneBackfill(at)
          /\ excused' = IF expired /\ at # "accepted" THEN excused ELSE "lost"
       \/ expired /\ at = "queued" /\ Over(at) /\ excused' = "lost"
    /\ UNCHANGED <<owed, expired, outpaced>>

Call(next) ==
    /\ ~expired
    /\ step' = next
    /\ UNCHANGED <<expired, owed, outpaced>>

(* A request's context passes its deadline: every later call fails.         *)
Deadline ==
    /\ step # "done" /\ ~expired
    /\ expired' = TRUE
    /\ UNCHANGED <<step, place, mail, match, owed, frames, excused, outpaced>>

-----------------------------------------------------------------------------
(* handleActivate dials the player socket and joins; the answer may be lost *)
(* with the bot queued.                                                     *)
JoinQueue ==
    /\ step = "idle"
    /\ \/ Call("found") /\ place' = "queued" /\ UNCHANGED <<mail, frames, excused>>
       \/ \E at \in {"out", "queued"} : Fail(at)
    /\ UNCHANGED match

(* The match service: a proposal is sent, completes, or fails; a bot that   *)
(* had accepted a proposal that fails is queued again.                      *)
Propose ==
    /\ place = "queued"
    /\ place' = "proposed"
    /\ mail' = IF step \in {"found", "paired"} THEN Append(mail, "match_found") ELSE mail
    /\ Len(mail') <= 2
    /\ UNCHANGED <<step, match, owed, frames, expired, excused, outpaced>>

ProposalFails ==
    /\ place \in {"proposed", "accepted"}
    /\ place' = IF place = "accepted" THEN "queued" ELSE "out"
    /\ UNCHANGED <<step, mail, match, owed, frames, expired, excused, outpaced>>

OpponentAccepts ==
    /\ place = "accepted"
    /\ place' = "paired"
    /\ mail' = IF step = "paired" THEN Append(mail, "match_ready") ELSE mail
    /\ \E t \in Sides : match' = [match EXCEPT !.stage = "ready", !.turn = t]
    /\ UNCHANGED <<step, owed, frames, expired, excused, outpaced>>

(* readEventPayload drops what it is not waiting for.                       *)
readEventPayload(event) ==
    /\ mail # <<>> /\ Head(mail) # event
    /\ mail' = Tail(mail)
    /\ UNCHANGED <<step, place, match, owed, frames, expired, excused, outpaced>>

AcceptMatch ==
    \/ step = "found" /\ readEventPayload("match_found")
    \/ /\ step = "found" /\ mail # <<>> /\ Head(mail) = "match_found"
       /\ \/ /\ Call("paired")
             /\ place = "proposed" /\ place' = "accepted"
             /\ mail' = Tail(mail) /\ UNCHANGED <<frames, excused>>
          \/ \E at \in {place} \cup (IF place = "proposed" THEN {"accepted"} ELSE {}) : Fail(at)
       /\ UNCHANGED match

DialRoom ==
    \/ step = "paired" /\ readEventPayload("match_ready")
    \/ /\ step = "paired" /\ mail # <<>> /\ Head(mail) = "match_ready"
       /\ \/ Call("vote") /\ mail' = Tail(mail) /\ UNCHANGED <<place, frames, excused>>
          \/ Fail(place)
       /\ UNCHANGED match

-----------------------------------------------------------------------------
(* The session.  Every commit owes the room an event: game_ready once all   *)
(* have voted, then for each step the player now on turn, or game_over.     *)
Committed(t, says) ==
    /\ match' = t
    /\ owed' = owed \cup {[ply |-> t.ply, says |-> says]}
    /\ excused' = IF excused = "skipped" /\ t.ply # match.ply THEN "no" ELSE excused

Vote(side) ==
    LET t == [match EXCEPT !.ready = @ \cup {side},
                           !.stage = IF @ = "ready" /\ match.ready \cup {side} = Sides
                                     THEN "playing" ELSE @]
    IN  IF t.stage # match.stage THEN Committed(t, "game_ready")
                                 ELSE match' = t /\ UNCHANGED <<owed, excused>>

\* A step of the session keeps the turn, passes it or ends the game.
Step ==
    \/ /\ match.ply + 1 < MaxPlies
       /\ \E s \in Sides : Committed([match EXCEPT !.ply = @ + 1, !.turn = s], s)
    \/ /\ match.ply < MaxPlies
       /\ Committed([match EXCEPT !.ply = @ + 1, !.stage = "over"], "game_over")

Thinking == outpaced' = (outpaced \/ step = "think")

OpponentVotes ==
    /\ match.stage = "ready" /\ "other" \notin match.ready
    /\ Vote("other")
    /\ UNCHANGED <<step, place, mail, frames, expired, outpaced>>

\* Moves are not refused for a vote that is still missing.
OpponentMoves ==
    /\ match.stage \in {"ready", "playing"} /\ match.turn = "other"
    /\ Step
    /\ UNCHANGED <<step, place, mail, frames, expired, outpaced>>

\* The turn timer plays for whoever is on turn; a surrender ends the game on any turn.
TimerMoves ==
    /\ match.stage = "playing"
    /\ Step /\ (match.turn = "bot" \/ match'.stage = "over")
    /\ Thinking
    /\ UNCHANGED <<step, place, mail, frames, expired>>

ReadyTimeout ==
    /\ match.stage = "ready" /\ match.ply < MaxPlies
    /\ Committed([match EXCEPT !.ply = @ + 1, !.stage = "over"], "game_over")
    /\ UNCHANGED <<step, place, mail, frames, expired, outpaced>>

(* hub.Broadcast: any handler may be the next to publish, and what is       *)
(* published before the gateway has subscribed the socket is lost.          *)
Broadcast(e) ==
    /\ e \in owed
    /\ owed' = owed \ {e}
    /\ \/ /\ frames' = (IF step \in InRoom THEN Append(frames, e.says) ELSE frames)
          /\ UNCHANGED excused
       \/ excused' = "lost" /\ UNCHANGED frames
    /\ UNCHANGED <<step, place, mail, match, expired, outpaced>>

-----------------------------------------------------------------------------
(* playGame.  The vote, then everything until game_ready is dropped.        *)
MarkReady ==
    /\ step = "vote"
    /\ \/ /\ Vote("bot")
          /\ ~expired /\ step' = "await" /\ UNCHANGED <<place, mail, frames, expired, outpaced>>
       \/ Fail(place) /\ UNCHANGED match

waitForEvent ==
    /\ step = "await" /\ frames # <<>>
    /\ step' = IF Head(frames) = "game_ready" THEN "first" ELSE "await"
    /\ frames' = Tail(frames)
    /\ UNCHANGED <<place, mail, match, owed, expired, excused, outpaced>>

(* The first state is fetched: nothing else tells the bot it is to begin.   *)
playGame ==
    /\ step = "first"
    /\ \/ /\ match.stage = "over" /\ ~expired
          /\ playOneBackfill(place) /\ UNCHANGED <<expired, owed, excused, outpaced>>
       \/ /\ match.stage # "over"
          /\ Call(IF match.turn = "bot" THEN "fetch" ELSE "loop")
          /\ UNCHANGED <<place, mail, frames, excused>>
       \/ Fail(place)
    /\ UNCHANGED match

(* The loop: an event that puts the bot on turn starts a turn, game_over    *)
(* ends the activation and anything else is ignored; the deadline is looked *)
(* at between two events.                                                   *)
ReadRoom ==
    /\ step = "loop" /\ frames # <<>>
    /\ \/ /\ Head(frames) = "game_over" \/ (Head(frames) # "bot" /\ expired)
          /\ playOneBackfill(place)
       \/ /\ Head(frames) = "bot" \/ (Head(frames) # "game_over" /\ ~expired)
          /\ step' = IF Head(frames) = "bot" THEN "fetch" ELSE "loop"
          /\ frames' = Tail(frames) /\ UNCHANGED <<place, mail>>
    /\ UNCHANGED <<match, expired, owed, excused, outpaced>>

(* takeTurn asks the server again before it thinks, and plays only if it is *)
(* still on turn.  The search may find nothing to play.                     *)
takeTurn_TrustsEvent ==
    /\ step = "fetch"
    /\ \/ ~expired /\ step' = "think" /\ outpaced' = FALSE
          /\ UNCHANGED <<place, mail, frames, expired, owed, excused>>
       \/ Fail(place)
    /\ UNCHANGED match

takeTurn ==
    /\ step = "fetch"
    /\ \/ /\ ~expired /\ match.stage # "over" /\ match.turn = "bot"
          /\ step' = "think" /\ outpaced' = FALSE
          /\ UNCHANGED <<place, mail, frames, expired, owed, excused>>
       \/ /\ match.stage = "over" \/ match.turn # "bot"
          /\ Call("loop") /\ UNCHANGED <<place, mail, frames, excused>>
       \/ Fail(place)
    /\ UNCHANGED match

NoMoves ==
    /\ step = "think"
    /\ step' = "loop"
    /\ excused' = IF excused = "no" /\ ~outpaced THEN "skipped" ELSE excused
    /\ UNCHANGED <<place, mail, match, owed, frames, expired, outpaced>>

Move ==
    /\ step = "think" /\ UNCHANGED <<expired, outpaced>>
    /\ IF match.stage # "over" /\ match.turn = "bot"
       THEN /\ Step
            /\ \/ ~expired /\ step' = "loop" /\ UNCHANGED <<place, mail, frames>>
               \/ playOneBackfill(place)
       ELSE step' = "refused" /\ UNCHANGED <<place, mail, frames, match, owed, excused>>

MoveFails ==
    /\ step \in {"think", "refused"}
    /\ Fail(place) /\ UNCHANGED match

(* A socket that breaks ends the activation with the bot where it is.       *)
SocketBreaks ==
    /\ step \in {"found", "paired", "await", "loop"}
    /\ step' = "done" /\ mail' = <<>> /\ frames' = <<>>
    /\ excused' = "lost"
    /\ UNCHANGED <<place, match, owed, expired, outpaced>>

RunnerSteps ==
    \/ Deadline \/ JoinQueue \/ AcceptMatch \/ DialRoom \/ MarkReady \/ waitForEvent
    \/ playGame \/ ReadRoom \/ takeTurn \/ NoMoves \/ Move \/ MoveFails \/ SocketBreaks
    \/ Propose \/ ProposalFails \/ OpponentAccepts \/ OpponentVotes \/ OpponentMoves
    \/ TimerMoves \/ ReadyTimeout \/ \E e \in owed : Broadcast(e)

-----------------------------------------------------------------------------
(* playGame, runner.go: a bot that waits on its room socket is waiting for  *)
(* an event that is coming.  Until game_ready is read it, or the vote of    *)
(* the opponent, is outstanding; in the loop, a bot on turn is about to be  *)
(* told so and the end of the game is about to be heard of, however the     *)
(* events of the session overtook one another.  Excused are a lost event    *)
(* and a turn for which the search found no move, until the timer ends it;  *)
(* a ready timeout is not heard by a bot that waits for game_ready.         *)
Coming(says) == says \in Range(frames) \/ \E e \in owed : e.says = says

EventIsComing ==
    excused = "no" =>
        /\ step = "await" /\ match.ready = Sides => Coming("game_ready") \/ match.stage = "over"
        /\ step = "loop" /\ match.stage = "over" => Coming("game_over")
        /\ step = "loop" /\ match.stage = "playing" /\ match.turn = "bot" => Coming("bot")

(* takeTurn, runner.go: the server refuses a move of the bot only when the  *)
(* turn was taken from it between the fetch and the move.                   *)
RefusedOnlyLate == step = "refused" => outpaced

(* playOneBackfill, runner.go: once the activation is over the bot is in no *)
(* queue, unless an answer of the server was lost before the deadline, or a *)
(* proposal it had accepted falls through after it.                         *)
NotLeftQueued == step = "done" /\ excused # "lost" => place # "queued"

(* What an activation can rely on and leaves behind (runner.go): it waits   *)
(* for events that come, moves in its turn, and ends outside the queue.    *)
ActivationSound == EventIsComing /\ RefusedOnlyLate /\ NotLeftQueued
=============================================================================
