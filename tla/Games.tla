------------------------------- MODULE Games -------------------------------
(***************************************************************************)
(* The game engines and the bot, one scene to a behaviour: a game of Root  *)
(* Access, a game of Tic-tac-toe with either penalty, or a search.         *)
(***************************************************************************)
EXTENDS RootAccess, BotSearch

CONSTANTS p1, p2, p3

VARIABLE scene

vars == <<raVars, ttVars, bsVars, scene>>

Deck(counts) == [c \in Cards |-> IF c \in DOMAIN counts THEN counts[c] ELSE 0]

\* Three players with one card of most kinds; two players with three cards face up
\* and two Backdoors, for the bonus, whose game takes two rounds or more.
MCSetups == {
    << <<p1, p2, p3>>, Deck([backdoor |-> 1, firewall |-> 1, reboot |-> 1, debugger |-> 1,
                             ping |-> 1, encrypted_key |-> 1, root |-> 1]) >>,
    << <<p1, p2>>, Deck([backdoor |-> 2, buffer_overflow |-> 3, swap |-> 1, debugger |-> 2]) >> }

MCTokens == [n \in 2 .. 5 |-> IF n = 2 THEN 2 ELSE 1]

Board(xs, os) == [c \in Cells |-> IF c \in xs THEN X ELSE IF c \in os THEN O ELSE Nobody]

\* Three and four empty cells, either player to move, and a finished game.
MCPositions == {
    [board |-> Board({0, 1, 5}, {3, 4, 8}), current |-> X, forfeit |-> Nobody],
    [board |-> Board({0, 2, 7}, {1, 4}), current |-> O, forfeit |-> Nobody],
    [board |-> Board({0, 1, 2}, {3, 4}), current |-> O, forfeit |-> Nobody]}

\* The engines of the other scenes stay at one of their positions.
Init ==
    /\ scene \in {"rootaccess", "tictactoe", "search"}
    /\ IF scene = "rootaccess" THEN RAInit
       ELSE LET t == CHOOSE t \in Setups : TRUE
            IN /\ deck = t[2] /\ abandoned = FALSE
               /\ g = CHOOSE s \in dealRound(RAStart(t[1]), t[1][1]) : TRUE
    /\ IF scene = "tictactoe" THEN TTInit ELSE ttt = TTStart /\ penalty = "lose_turn"
    /\ IF scene = "search" THEN BSInit ELSE BSStart(CHOOSE s \in Positions : TTIsOver(s))

CardScene == scene = "rootaccess" /\ RANext /\ UNCHANGED <<ttVars, bsVars, scene>>
BoardScene == scene = "tictactoe" /\ TTNext /\ UNCHANGED <<raVars, bsVars, scene>>
SearchScene == scene = "search" /\ BSNext /\ UNCHANGED <<raVars, ttVars, scene>>

Next == CardScene \/ BoardScene \/ SearchScene

\* A search runs on a goroutine of its own until it returns.
Spec == Init /\ [][Next]_vars /\ WF_vars(SearchScene)
=============================================================================
