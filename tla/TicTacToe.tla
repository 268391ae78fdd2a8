----------------------------- MODULE TicTacToe -----------------------------
(***************************************************************************)
(* Tic-tac-toe (services/game-server/games/tictactoe): the rules engine,   *)
(* with the two penalties a turn timer can be configured with, and the bot *)
(* adapter.  A state of the engine is a record of the board (cells 0..8),  *)
(* the current player and the player who forfeited, if any.                *)
(***************************************************************************)
EXTENDS Integers, FiniteSets

CONSTANTS
    X, O,           \* the players of seats 0 and 1; each stands for its mark
    Nobody,         \* an empty cell, no forfeit, no winner
    Penalties       \* the penalties tables are configured with

ASSUME TTTAssumption ==
    /\ X # O /\ Nobody \notin {X, O}
    /\ Penalties \subseteq {"lose_turn", "lose_game"}

VARIABLES
    ttt,        \* the state of the engine
    penalty     \* the penalty of the session's turn timer

ttVars == <<ttt, penalty>>

Cells == 0 .. 8

winLines == {{0, 1, 2}, {3, 4, 5}, {6, 7, 8},
             {0, 3, 6}, {1, 4, 7}, {2, 5, 8},
             {0, 4, 8}, {2, 4, 6}}

Other(p) == IF p = X THEN O ELSE X

TTStart == [board |-> [c \in Cells |-> Nobody], current |-> X, forfeit |-> Nobody]

Lines(s, p) == {l \in winLines : \A c \in l : s.board[c] = p}

TTWinner(s) ==
    CASE s.forfeit # Nobody -> Other(s.forfeit)
      [] s.forfeit = Nobody /\ Lines(s, X) # {} -> X
      [] s.forfeit = Nobody /\ Lines(s, X) = {} /\ Lines(s, O) # {} -> O
      [] OTHER -> Nobody

\* IsOver: a forfeit, a line, or a full board.
TTIsOver(s) == TTWinner(s) # Nobody \/ \A c \in Cells : s.board[c] # Nobody

\* A cell; the penalty of the timer is always valid for the current player.
TTValidateMove(s, p, c) == p = s.current /\ c \in Cells /\ s.board[c] = Nobody

TTApplyMove_MarksNext(s, c) ==
    [s EXCEPT !.board[c] = Other(s.current), !.current = Other(@)]

TTApplyMove(s, c) == [s EXCEPT !.board[c] = s.current, !.current = Other(@)]

\* lose_game names the loser and leaves the turn; lose_turn only passes it.
applyTimeout(s, action) ==
    IF action = "lose_game" THEN [s EXCEPT !.forfeit = s.current]
                            ELSE [s EXCEPT !.current = Other(@)]

---------------------------------------------------------------------------
(* The bot adapter. *)

TTValidMoves(s) == {c \in Cells : ~TTIsOver(s) /\ s.board[c] = Nobody}

\* The score of a finished game in half points.
TTResult(s, p) == CASE TTWinner(s) = Nobody -> 1 [] TTWinner(s) = p -> 2 [] OTHER -> 0

---------------------------------------------------------------------------
(* The game as the runtime drives it. *)

TTInit == ttt = TTStart /\ penalty \in Penalties

TTPlay ==
    /\ ~TTIsOver(ttt)
    /\ \E c \in Cells : TTValidateMove(ttt, ttt.current, c) /\ ttt' = TTApplyMove(ttt, c)
    /\ UNCHANGED penalty

TTTimeout ==
    /\ ~TTIsOver(ttt)
    /\ ttt' = applyTimeout(ttt, penalty)
    /\ UNCHANGED penalty

TTNext == TTPlay \/ TTTimeout

---------------------------------------------------------------------------
(* Properties. *)

\* Even when a player loses turns and the marks are no longer balanced, the game
\* stops at the first line, and only whoever moved last can own one: the two players
\* never both have a line, so the fixed order in which IsOver reads them is harmless.
LastMoverWins == Lines(ttt, ttt.current) = {}

\* The adapter offers a move exactly while the game goes on, and only moves the
\* engine accepts: a search that got none in a live game would return ErrNoMoves.
TTBotHasMove ==
    /\ TTValidMoves(ttt) = {} <=> TTIsOver(ttt)
    /\ \A c \in TTValidMoves(ttt) : TTValidateMove(ttt, ttt.current, c)

\* Rules and adapter under either penalty (tictactoe.go, adapter.go).
TicTacToeSound == LastMoverWins /\ TTBotHasMove
===========================================================================
