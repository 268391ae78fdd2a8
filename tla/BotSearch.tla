----------------------------- MODULE BotSearch -----------------------------
(***************************************************************************)
(* The bot's Monte Carlo tree search (internal/bot/mcts, player.go), run   *)
(* on Tic-tac-toe.  A node of the tree is the path of moves that leads to  *)
(* it.  One step of the specification is one step of the loops of Search,  *)
(* selectAndExpand and rollout; the think-time deadline may pass at any    *)
(* point and is seen at the head of the next iteration.  Left out: the     *)
(* UCB1 formula, a real number, so bestChild may return any child; scores  *)
(* are counted in half points.                                             *)
(***************************************************************************)
EXTENDS TicTacToe, Sequences, FiniteSetsExt, SequencesExt

CONSTANTS
    Positions,      \* the engine states a bot is asked to move in
    Iterations      \* the number of iterations of a profile

ASSUME SearchAssumption == Iterations \in Nat

VARIABLES
    root,       \* the position Search was called with
    tree,       \* path -> [visits, wins, player, untried], the nodes so far
    walk,       \* phase of the iteration, node and position it is at
    rounds,     \* iterations completed
    answer      \* << >> while searching, then the outcome of Search

bsVars == <<root, tree, walk, rounds, answer>>

Playing == root.current     \* playerID: the runtime asks the bot whose turn it is

newNode(player, moves) ==
    [visits |-> 0, wins |-> 0, player |-> player, untried |-> SetToSortSeq(moves, <)]

children(n) == {Append(n, c) : c \in {c \in Cells : Append(n, c) \in DOMAIN tree}}

isFullyExpanded(n) == tree[n].untried = << >>

\* A child with the most visits; ties are left open.
mostVisited(S) == {n \in S : \A m \in S : tree[m].visits <= tree[n].visits}

\* ErrNoMoves without a legal move; otherwise a root node with all of them untried.
BSStart(s) ==
    /\ root = s
    /\ tree = (<< >> :> newNode(Nobody, TTValidMoves(s)))
    /\ walk = [phase |-> "head", at |-> << >>, state |-> s]
    /\ rounds = 0
    /\ answer = IF TTValidMoves(s) = {} THEN << "ErrNoMoves" >> ELSE << >>

BSInit == \E s \in Positions : BSStart(s)

\* The head of the loop: a new iteration from the root (Determinize is the identity
\* here), or the end because the iterations are used up or the context is done.
Search ==
    /\ walk.phase = "head" /\ answer = << >>
    /\ rounds < Iterations
    /\ walk' = [phase |-> "select", at |-> << >>, state |-> root]
    /\ UNCHANGED <<root, tree, rounds, answer>>

Finish ==
    /\ walk.phase = "head" /\ answer = << >>
    /\ IF children(<< >>) = {}
       THEN answer' = << SetToSortSeq(TTValidMoves(root), <)[1] >>
       ELSE \E n \in mostVisited(children(<< >>)) : answer' = n
    /\ UNCHANGED <<root, tree, walk, rounds>>

Leaf(n, s) ==
    TTIsOver(s) \/ TTValidMoves(s) = {} \/ (isFullyExpanded(n) /\ children(n) = {})

selectAndExpand ==
    LET n == walk.at
        s == walk.state
    IN /\ walk.phase = "select"
       /\ \/ /\ Leaf(n, s)
             /\ walk' = [walk EXCEPT !.phase = "rollout"]
          \/ /\ ~Leaf(n, s) /\ isFullyExpanded(n)
             /\ \E c \in children(n) :
                    walk' = [walk EXCEPT !.at = c, !.state = TTApplyMove(s, Last(c))]
       /\ UNCHANGED <<root, tree, rounds, answer>>

\* The last untried move becomes a child, played by whoever is to move.
expand ==
    LET n == walk.at
        s == walk.state
    IN /\ walk.phase = "select" /\ ~Leaf(n, s) /\ ~isFullyExpanded(n)
       /\ LET move == Last(tree[n].untried)
              next == TTApplyMove(s, move)
          IN /\ tree' = (Append(n, move) :> newNode(s.current, TTValidMoves(next)))
                          @@ [tree EXCEPT ![n].untried = Front(@)]
             /\ walk' = [phase |-> "rollout", at |-> Append(n, move), state |-> next]
       /\ UNCHANGED <<root, rounds, answer>>

\* A random move of the playout.
rollout ==
    /\ walk.phase = "rollout"
    /\ \E c \in TTValidMoves(walk.state) : walk' = [walk EXCEPT !.state = TTApplyMove(@, c)]
    /\ UNCHANGED <<root, tree, rounds, answer>>

backpropagate_SameSide ==
    /\ walk.phase = "rollout" /\ TTValidMoves(walk.state) = {}
    /\ LET score == TTResult(walk.state, Playing)
       IN tree' = [n \in DOMAIN tree |->
                      IF ~IsPrefix(n, walk.at) THEN tree[n]
                      ELSE [tree[n] EXCEPT !.visits = @ + 1, !.wins = @ + score]]
    /\ walk' = [walk EXCEPT !.phase = "head"]
    /\ rounds' = rounds + 1
    /\ UNCHANGED <<root, answer>>

\* The playout is over: its result counts for the nodes of the bot's moves and its
\* complement for the others, the root among them.
backpropagate ==
    /\ walk.phase = "rollout" /\ TTValidMoves(walk.state) = {}
    /\ LET score == TTResult(walk.state, Playing)
       IN tree' = [n \in DOMAIN tree |->
                      IF ~IsPrefix(n, walk.at) THEN tree[n]
                      ELSE [tree[n] EXCEPT !.visits = @ + 1,
                                !.wins = @ + (IF tree[n].player = Playing THEN score
                                                                          ELSE 2 - score)]]
    /\ walk' = [walk EXCEPT !.phase = "head"]
    /\ rounds' = rounds + 1
    /\ UNCHANGED <<root, answer>>

BSNext == Search \/ Finish \/ selectAndExpand \/ expand \/ rollout \/ backpropagate

BSFairness == WF_bsVars(BSNext)

---------------------------------------------------------------------------
(* Properties. *)

PositionOf(n) == FoldLeft(TTApplyMove, root, n)

\* The tree stays true to the game: the tried and untried moves of a node are the
\* legal moves of its position, each once, so no move is lost or tried twice however
\* the walks and expansions alternate (newNode, expand).
TreeIsTheGame ==
    \A n \in DOMAIN tree :
        /\ {Last(c) : c \in children(n)} \cup Range(tree[n].untried) = TTValidMoves(PositionOf(n))
        /\ \A c \in children(n) : Last(c) \notin Range(tree[n].untried)
        /\ n # << >> => tree[n].player = PositionOf(Front(n)).current

\* The books of the search balance between iterations: a node was visited once for
\* its own playout and once for each visit of a child, and what a node won its
\* children's mover lost (backpropagate).
VisitsBalance ==
    walk.phase = "head" =>
        /\ tree[<< >>].visits = rounds
        /\ \A n \in DOMAIN tree :
              LET below == MapThenSumSet(LAMBDA c : tree[c].visits, children(n))
                  lost == MapThenSumSet(LAMBDA c : tree[c].wins, children(n))
              IN /\ tree[n].wins \in 0 .. 2 * tree[n].visits
                 /\ children(n) # {} =>
                       /\ tree[n].visits = below + (IF n = << >> THEN 0 ELSE 1)
                       /\ tree[n].wins + lost - 2 * below
                              \in IF n = << >> THEN {0} ELSE 0 .. 2

\* Whenever the deadline passes, before the first expansion too, the search answers
\* with a move the engine accepts, the fallback that keeps a live game going (Search).
AnswerIsLegal ==
    answer # << >> => IF TTIsOver(root) THEN answer = << "ErrNoMoves" >>
                      ELSE TTValidateMove(root, Playing, answer[1])

\* Search ends and returns (the loop of Search, which selectAndExpand and rollout
\* leave after finitely many moves).
SearchReturns == <>(answer # << >>)

\* The search keeps its tree and its books, and returns a legal move (mcts.go).
SearchSound == [](TreeIsTheGame /\ VisitsBalance /\ AnswerIsLegal) /\ SearchReturns
===========================================================================
