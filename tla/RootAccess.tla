---------------------------- MODULE RootAccess ----------------------------
(***************************************************************************)
(* The card game Root Access (services/game-server/games/rootaccess) and   *)
(* its bot adapter: the rules engine that validates and applies a move,    *)
(* the turn and round bookkeeping, and the moves and hidden cards the bot  *)
(* reasons about.                                                          *)
(*                                                                         *)
(* The state the engine passes around is one record, and an operator that  *)
(* models a function of the engine maps a state to the SET of states it    *)
(* may return: the only choice is which card a shuffle put on top.  The    *)
(* shuffle is lazy.  `pool` is the bag of cards nobody has seen, `top` of  *)
(* them are the upper part of the deck and one more is the face-down card  *)
(* while `down` holds; `bottom` is the lower part of the deck, whose order *)
(* is known because a Debugger put it there.  Left out: the chronological  *)
(* discard log and the private reveal of the Sniffer, which only the       *)
(* client reads, the JSON round trip of the state, and FilterState.        *)
(***************************************************************************)
EXTENDS Integers, Sequences, FiniteSets, Bags, TLC
LOCAL INSTANCE BagsExt
LOCAL INSTANCE FiniteSetsExt
LOCAL INSTANCE SequencesExt

CONSTANTS
    Setups,         \* pairs of a seating (a sequence of players) and a deck composition
    tokensToWin,    \* the number of tokens that wins, by the number of players
    NoPlayer        \* no target in a move, no winner yet

Cards == {"backdoor", "ping", "sniffer", "buffer_overflow", "firewall",
          "reboot", "debugger", "swap", "encrypted_key", "root"}

\* cardValues and cardValue: every card of a deck has a value.
cardValue == [backdoor |-> 0, ping |-> 1, sniffer |-> 2, buffer_overflow |-> 3,
              firewall |-> 4, reboot |-> 5, debugger |-> 6, swap |-> 7,
              encrypted_key |-> 8, root |-> 9]

allNonPingCards == Cards \ {"ping"}

\* Two to five players, and a deck with a card for the first draw of a round after
\* the face-down card, the face-up cards of the two-player variant and the hands.
ASSUME SetupAssumption ==
    \A t \in Setups :
        /\ Len(t[1]) \in 2 .. 5 /\ IsInjective(t[1]) /\ NoPlayer \notin Range(t[1])
        /\ t[2] \in [Cards -> Nat]
        /\ SumFunction(t[2]) >= Len(t[1]) + (IF Len(t[1]) = 2 THEN 5 ELSE 2)

ASSUME TokenAssumption == tokensToWin \in [2 .. 5 -> Nat \ {0}]

VARIABLES
    deck,       \* deckComposition
    g,          \* the engine state of the game in progress
    abandoned   \* history: a turn timed out while a Debugger was pending

raVars == <<deck, g, abandoned>>

Players(s) == Range(s.players)

BagOfDeck(d) == [c \in {x \in Cards : d[x] > 0} |-> d[c]]

BagTotal(S, B(_)) == FoldSet(LAMBDA x, acc : acc (+) B(x), EmptyBag, S)

---------------------------------------------------------------------------
(* State mutation helpers. *)

\* drawCard and the top of the deck: the states in which p has taken the top
\* card; none when the deck is empty.
DeckEmpty(s) == s.top = 0 /\ s.bottom = << >>

TopCard(s) ==
    IF s.top > 0
    THEN {<<c, [s EXCEPT !.pool = BagRemove(@, c), !.top = @ - 1]>> : c \in DOMAIN s.pool}
    ELSE {<<s.bottom[1], [s EXCEPT !.bottom = Tail(@)]>> : i \in 1 .. Min({1, Len(s.bottom)})}

drawCard(s, p) ==
    {[d[2] EXCEPT !.hands[p] = Append(@, d[1])] : d \in TopCard(s)}

removeFromHand(s, p, card) == [s EXCEPT !.hands[p] = RemoveFirst(@, card)]

appendDiscard(s, p, card) == [s EXCEPT !.discards[p] = BagAdd(@, card)]

eliminatePlayer(s, p) ==
    [s EXCEPT !.eliminated = @ \cup {p},
              !.discards[p] = @ (+) ToBag(s.hands[p]),
              !.hands[p] = << >>,
              !.backdoor = @ \cup {q \in {p} : "backdoor" \in Range(s.hands[p])}]

activePlayers(s) == Players(s) \ s.eliminated

Seat(s, p) == CHOOSE i \in DOMAIN s.players : s.players[i] = p

\* The seats after p's, in turn order, wrapping round to p's own.
nextActivePlayer(s, p) ==
    LET n == Len(s.players)
        at(i) == s.players[((Seat(s, p) - 1 + i) % n) + 1]
        i == Min({k \in 1 .. n : at(k) \in activePlayers(s)})
    IN at(i)

---------------------------------------------------------------------------
(* Turn advancement and round resolution. *)

\* dealRound: a face-down card, three face-up ones when two play, a card for
\* every player, a second for the first player; everything of the previous
\* round is reset except the pending choices of a Debugger.
TakeFaceUp(S) ==
    {[d[2] EXCEPT !.faceUp = BagAdd(@, d[1])] : d \in UNION {TopCard(s) : s \in S}}

dealRound(s, first) ==
    LET fresh == [s EXCEPT !.pool = BagOfDeck(deck),
                           !.top = SumFunction(deck) - 1,
                           !.bottom = << >>, !.down = TRUE, !.faceUp = EmptyBag,
                           !.hands = [p \in Players(s) |-> << >>],
                           !.discards = [p \in Players(s) |-> EmptyBag],
                           !.eliminated = {}, !.protected = {}, !.backdoor = {},
                           !.phase = "playing", !.current = first]
        dealt == IF Len(s.players) = 2
                 THEN TakeFaceUp(TakeFaceUp(TakeFaceUp({fresh}))) ELSE {fresh}
    IN FoldLeft(LAMBDA S, p : UNION {drawCard(t, p) : t \in S},
                dealt, Append(s.players, first))

HandValue(s, p) == IF s.hands[p] = << >> THEN 0 ELSE cardValue[s.hands[p][1]]

DiscardValue(s, p) ==
    MapThenSumSet(LAMBDA c : s.discards[p][c] * cardValue[c], DOMAIN s.discards[p])

\* The best hand among the active players, then the best discard pile, then
\* the first seat.
highestHandWinner(s) ==
    CHOOSE p \in activePlayers(s) :
        \A q \in activePlayers(s) \ {p} :
            \/ HandValue(s, p) > HandValue(s, q)
            \/ /\ HandValue(s, p) = HandValue(s, q)
               /\ \/ DiscardValue(s, p) > DiscardValue(s, q)
                  \/ /\ DiscardValue(s, p) = DiscardValue(s, q)
                     /\ Seat(s, p) < Seat(s, q)

\* The round winner earns a token, and so does the only player who played or
\* lost a Backdoor; the first seat with enough tokens wins the game, otherwise
\* the round winner opens the next round.
resolveRound(s) ==
    LET winner == IF Cardinality(activePlayers(s)) = 1
                  THEN CHOOSE p \in activePlayers(s) : TRUE
                  ELSE highestHandWinner(s)
        paid == [s EXCEPT !.tokens = [p \in Players(s) |->
                    @[p] + (IF s.backdoor = {p} THEN 1 ELSE 0)
                         + (IF p = winner THEN 1 ELSE 0)]]
        reached == {p \in Players(s) : paid.tokens[p] >= tokensToWin[Len(s.players)]}
    IN IF reached # {}
       THEN LET champion == CHOOSE p \in reached : \A q \in reached : Seat(s, p) <= Seat(s, q)
            IN {[paid EXCEPT !.winner = champion, !.phase = "game_over", !.current = champion]}
       ELSE dealRound([paid EXCEPT !.round = @ + 1], winner)

\* The next active player loses the Firewall and draws; the round ends when one
\* player is left or the card cannot be drawn.
advanceTurn(s) ==
    LET next == nextActivePlayer(s, s.current)
        t == [s EXCEPT !.current = next, !.protected = @ \ {next}]
    IN CASE Cardinality(activePlayers(s)) <= 1 -> resolveRound(s)
         [] Cardinality(activePlayers(s)) > 1 /\ Len(s.hands[next]) >= 2 -> {t}
         [] OTHER -> IF DeckEmpty(t) THEN resolveRound(t) ELSE drawCard(t, next)

---------------------------------------------------------------------------
(* ValidateMove. *)

Move(card, target, guess) == [card |-> card, target |-> target, guess |-> guess]

DebuggerResolve(keep, ret) == [card |-> "debugger_resolve", keep |-> keep, return |-> ret]

validateTarget(s, actor, target) ==
    \/ target = NoPlayer
    \/ target \in Players(s) \ ({actor} \cup s.eliminated \cup s.protected)

MustPlayKey(hand) ==
    "encrypted_key" \in Range(hand) /\ Range(hand) \cap {"swap", "reboot"} # {}

validateStandardMove(s, p, m) ==
    /\ m.card \in Range(s.hands[p])
    /\ MustPlayKey(s.hands[p]) => m.card = "encrypted_key"
    /\ m.card = "ping" => /\ validateTarget(s, p, m.target)
                          /\ m.target # NoPlayer => m.guess \in allNonPingCards
    /\ m.card \in {"sniffer", "buffer_overflow", "swap"} => validateTarget(s, p, m.target)
    /\ m.card = "reboot" => m.target = p \/ validateTarget(s, p, m.target)

validateDebuggerResolve(s, m) ==
    /\ m.card = "debugger_resolve"
    /\ Len(m.return) = 2
    /\ Len(s.choices) = 3
    /\ {m.keep} \cup Range(m.return) \subseteq Range(s.choices)

\* A player's move; the timer's penalty is valid in every phase.
ValidateMove(s, p, m) ==
    /\ p = s.current
    /\ p \notin s.eliminated
    /\ CASE s.phase = "debugger_pending" -> validateDebuggerResolve(s, m)
         [] s.phase = "playing" -> validateStandardMove(s, p, m)
         [] OTHER -> FALSE

---------------------------------------------------------------------------
(* Card effects.  Each is applied after the card left the hand. *)

applyBackdoor(s, p) == [s EXCEPT !.backdoor = @ \cup {p}]

applyPing(s, target, guess) ==
    IF target # NoPlayer /\ s.hands[target] # << >> /\ s.hands[target][1] = guess
    THEN eliminatePlayer(s, target) ELSE s

applyBufferOverflow(s, actor, target) ==
    IF target = NoPlayer \/ s.hands[actor] = << >> \/ s.hands[target] = << >> THEN s
    ELSE LET mine == HandValue(s, actor)
             theirs == HandValue(s, target)
         IN CASE mine < theirs -> eliminatePlayer(s, actor)
              [] theirs < mine -> eliminatePlayer(s, target)
              [] OTHER -> s

applyFirewall(s, p) == [s EXCEPT !.protected = @ \cup {p}]

\* The target discards its card, is eliminated if that was the Root, and draws
\* another, the face-down card when the deck is empty.
applyReboot(s, target) ==
    LET gone == appendDiscard([s EXCEPT !.hands[target] = << >>], target, s.hands[target][1])
    IN CASE s.hands[target] = << >> -> {s}
         [] s.hands[target] # << >> /\ s.hands[target][1] = "root" -> {eliminatePlayer(gone, target)}
         [] OTHER ->
              IF ~DeckEmpty(s) THEN drawCard(gone, target)
              ELSE {[gone EXCEPT !.hands[target] = << c >>, !.down = FALSE, !.pool = EmptyBag] :
                        c \in DOMAIN s.pool}
                   \cup {t \in {gone} : ~s.down}

\* Up to two cards are drawn; with the remaining hand they are the choices.
applyDebugger(s, p) ==
    LET one == IF DeckEmpty(s) THEN {s} ELSE drawCard(s, p)
        two == UNION {IF DeckEmpty(t) THEN {t} ELSE drawCard(t, p) : t \in one}
    IN {[t EXCEPT !.choices = t.hands[p], !.hands[p] = << >>, !.phase = "debugger_pending"] :
            t \in two}

applyDebuggerResolve_DropsReturned(s, p, m) ==
    advanceTurn([s EXCEPT !.hands[p] = << m.keep >>, !.bottom = Append(@, m.return[1]),
                          !.choices = << >>, !.phase = "playing"])

applyDebuggerResolve(s, p, m) ==
    advanceTurn([s EXCEPT !.hands[p] = << m.keep >>, !.bottom = @ \o m.return,
                          !.choices = << >>, !.phase = "playing"])

applySwap(s, actor, target) ==
    IF target = NoPlayer THEN s
    ELSE [s EXCEPT !.hands[actor] = s.hands[target], !.hands[target] = s.hands[actor]]

applyStandardMove(s, p, m) ==
    LET played == appendDiscard(removeFromHand(s, p, m.card), p, m.card)
        then(t) == advanceTurn(t)
    IN CASE m.card = "root"            -> then(eliminatePlayer(played, p))
         [] m.card = "backdoor"        -> then(applyBackdoor(played, p))
         [] m.card = "ping"            -> then(applyPing(played, m.target, m.guess))
         [] m.card = "buffer_overflow" -> then(applyBufferOverflow(played, p, m.target))
         [] m.card = "firewall"        -> then(applyFirewall(played, p))
         [] m.card = "reboot"          ->
              UNION {then(t) : t \in applyReboot(played, IF m.target = NoPlayer THEN p ELSE m.target)}
         [] m.card = "debugger"        -> applyDebugger(played, p)
         [] m.card = "swap"            -> then(applySwap(played, p, m.target))
         [] OTHER                      -> then(played)

\* The penalty of a turn that timed out.
applyPenaltyLose(s, p) == advanceTurn(eliminatePlayer(s, p))

ApplyMove(s, p, m) ==
    IF s.phase = "debugger_pending" THEN applyDebuggerResolve(s, p, m)
                                    ELSE applyStandardMove(s, p, m)

IsOver(s) == s.phase = "game_over"

---------------------------------------------------------------------------
(* The bot adapter. *)

Targets_IgnoresFirewall(s) == activePlayers(s) \ {s.current}

\* The opponents the adapter offers as targets.
Targets(s) == activePlayers(s) \ ({s.current} \cup s.protected)

standardMoves(s) ==
    LET hand == s.hands[s.current]
        cards == {c \in Range(hand) : MustPlayKey(hand) => c = "encrypted_key"}
        at(c, T) == {Move(c, t, NoPlayer) : t \in IF T = {} THEN {NoPlayer} ELSE T}
        moves(c) ==
            CASE c = "ping" /\ Targets(s) # {} ->
                     {Move(c, t, guess) : t \in Targets(s), guess \in allNonPingCards}
              [] c \in {"ping", "sniffer", "buffer_overflow", "swap"} -> at(c, Targets(s))
              [] c = "reboot" -> at(c, {s.current} \cup Targets(s))
              [] OTHER -> {Move(c, NoPlayer, NoPlayer)}
        all == UNION {moves(c) : c \in cards}
    IN IF all = {} /\ hand # << >> THEN {Move(hand[1], NoPlayer, NoPlayer)} ELSE all

debuggerResolveMoves(s) ==
    IF Len(s.choices) # 3 THEN {}
    ELSE {DebuggerResolve(s.choices[i], RemoveAt(s.choices, i)) : i \in 1 .. 3}

ValidMoves(s) ==
    CASE s.phase = "debugger_pending" -> debuggerResolveMoves(s)
      [] s.phase = "playing" -> standardMoves(s)
      [] OTHER -> {}

\* collectVisible: the hand of the bot, the discard piles, the face-up cards and
\* the choices of its own Debugger, as the state has them.
collectVisible(s, p) ==
    ToBag(s.hands[p]) (+) BagTotal(Players(s), LAMBDA q : s.discards[q]) (+) s.faceUp
        (+) (IF p = s.current THEN ToBag(s.choices) ELSE EmptyBag)

\* The deck minus what is visible.
buildUnknownPool(s, p) == BagOfDeck(deck) (-) collectVisible(s, p)

\* The worlds the bot may sample: one unknown card in the hand of every other player
\* still in the round, the rest, the face-down card with it, in the deck.
Determinize(s, p) ==
    LET others == activePlayers(s) \ {p}
        pool == buildUnknownPool(s, p)
        deal == {h \in [others -> DOMAIN pool] :
                    \A c \in DOMAIN pool : Cardinality({q \in others : h[q] = c}) <= pool[c]}
    IN {[hands |-> [q \in Players(s) |-> IF q \in others THEN << h[q] >> ELSE s.hands[q]],
         deck |-> pool (-) BagTotal(others, LAMBDA q : ToBag(<< h[q] >>))] : h \in deal}

---------------------------------------------------------------------------
(* The game as the runtime drives it: the current player's move, or the      *)
(* penalty of its turn timer, until the game is over.                        *)

\* What a client sends: any card of the hand with any target and guess, where the
\* engine reads them, and any way to keep one of the Debugger's choices and return
\* the others.
ClientMoves(s) ==
    IF s.phase = "debugger_pending"
    THEN UNION {{DebuggerResolve(s.choices[i], RemoveAt(s.choices, i)),
                 DebuggerResolve(s.choices[i], Reverse(RemoveAt(s.choices, i)))} :
                    i \in DOMAIN s.choices}
    ELSE {m \in [card: Range(s.hands[s.current]), target: Players(s) \cup {NoPlayer},
                 guess: Cards \cup {NoPlayer}] :
             /\ m.guess # NoPlayer => m.card = "ping"
             /\ m.target # NoPlayer =>
                    m.card \in {"ping", "sniffer", "buffer_overflow", "reboot", "swap"}}

\* Init: no tokens, the first seat opens.
RAStart(players) ==
    [players |-> players, tokens |-> [p \in Range(players) |-> 0], round |-> 1,
     winner |-> NoPlayer, choices |-> << >>, phase |-> "playing", current |-> players[1],
     pool |-> EmptyBag, top |-> 0, bottom |-> << >>, down |-> TRUE, faceUp |-> EmptyBag,
     hands |-> [p \in Range(players) |-> << >>], eliminated |-> {}, protected |-> {},
     backdoor |-> {}, discards |-> [p \in Range(players) |-> EmptyBag]]

RAInit ==
    /\ \E t \in Setups : deck = t[2] /\ g \in dealRound(RAStart(t[1]), t[1][1])
    /\ abandoned = FALSE

RAPlay ==
    /\ ~IsOver(g)
    /\ \E m \in ClientMoves(g) : ValidateMove(g, g.current, m) /\ g' \in ApplyMove(g, g.current, m)
    /\ UNCHANGED <<deck, abandoned>>

RATimeout ==
    /\ ~IsOver(g)
    /\ g' \in applyPenaltyLose(g, g.current)
    /\ abandoned' = (abandoned \/ g.phase = "debugger_pending")
    /\ UNCHANGED deck

RANext == RAPlay \/ RATimeout

---------------------------------------------------------------------------
(* Properties. *)

\* Types of the engine state.
RATypeOK ==
    /\ <<g.players, deck>> \in Setups
    /\ abandoned \in BOOLEAN
    /\ g.phase \in {"playing", "debugger_pending", "game_over"}
    /\ g.current \in Players(g)
    /\ \A p \in Players(g) : /\ Range(g.hands[p]) \subseteq Cards /\ Len(g.hands[p]) <= 2
                            /\ DOMAIN g.discards[p] \subseteq Cards
                            /\ g.tokens[p] \in 0 .. tokensToWin[Len(g.players)] + 1
    /\ g.eliminated \cup g.protected \cup g.backdoor \subseteq Players(g)
    /\ BagCardinality(g.pool) = g.top + (IF g.down THEN 1 ELSE 0)

\* Every card of the deck is always in exactly one place, whatever sequence of
\* effects, eliminations, redraws and returned cards led here (drawCard,
\* eliminatePlayer, applyReboot, applyDebugger, applySwap).  A Debugger whose
\* turn timed out leaves its choices to the next player, so the claim stops there.
CardsConserved ==
    ~abandoned =>
        BagOfDeck(deck) = g.pool (+) ToBag(g.bottom) (+) g.faceUp (+) ToBag(g.choices)
            (+) BagTotal(Players(g), LAMBDA p : ToBag(g.hands[p]) (+) g.discards[p])

\* validateStandardMove counts on the current player having drawn: while a card
\* is awaited it is an active, unprotected player with two cards, every other
\* active player has one, and an eliminated one has none.
TurnIsPlayable ==
    g.phase = "playing" /\ ~abandoned =>
        \A p \in Players(g) :
            Len(g.hands[p]) = CASE p = g.current -> 2 [] p \in g.eliminated -> 0 [] OTHER -> 1

\* A Firewall protects until its owner's next turn begins (advanceTurn), so it is
\* never the current player who is protected, nor one who is out of the round.
FirewallExpires ==
    g.phase = "playing" => g.current \notin g.eliminated \cup g.protected

\* The moves the adapter gives the search are moves the engine accepts: two
\* separate pieces of code agree on targets, guesses, the Encrypted Key rule and
\* the Debugger's choices (ValidMoves against ValidateMove).
BotMovesLegal == \A m \in ValidMoves(g) : ValidateMove(g, g.current, m)

\* The bot always has a move, unless a Debugger found fewer than two cards in the
\* deck: those choices are not three and neither player nor bot can resolve them.
BotHasMove ==
    ~IsOver(g) /\ (g.phase = "debugger_pending" => Len(g.choices) = 3) => ValidMoves(g) # {}

\* The bot samples over what it cannot see and nothing else: the cards it takes for
\* unknown are the deck, the face-down card and the other hands, and the true deal is
\* one of the worlds it may sample (buildUnknownPool of collectVisible, Determinize).
TrueWorldSampled ==
    ~abandoned /\ ~IsOver(g) =>
        [hands |-> g.hands, deck |-> g.pool (+) ToBag(g.bottom)] \in Determinize(g, g.current)

TokenSum(s) == SumFunction(s.tokens)

\* Tokens are paid when a round ends and only then: one to the round winner, and at
\* most one more for the Backdoor, to one player; none is ever taken back
\* (resolveRound).
RoundPaysOnce ==
    [][g'.tokens # g.tokens <=>
          /\ (g'.round = g.round + 1) \/ (IsOver(g') /\ ~IsOver(g))
          /\ \A p \in Players(g) : g'.tokens[p] >= g.tokens[p]
          /\ TokenSum(g') - TokenSum(g) \in 1 .. 2]_raVars

\* What is left of a round: cards not yet discarded and players still in it, and a
\* Debugger still to resolve.
Remaining(s) ==
    2 * (s.top + Len(s.bottom) + Len(s.choices) + Cardinality(activePlayers(s))
           + MapThenSumSet(LAMBDA p : Len(s.hands[p]), Players(s)))
      + (IF s.phase = "debugger_pending" THEN 1 ELSE 0)

\* No sequence of swaps, redraws, returned cards and penalties goes on for ever:
\* every step pays a token or leaves less of the round, so with the turn timer
\* behind every turn the game ends (ApplyMove, advanceTurn, resolveRound).
EveryStepAdvances ==
    [][TokenSum(g') > TokenSum(g) \/ Remaining(g') < Remaining(g)]_raVars

\* The rules keep their books through every sequence of effects, eliminations and
\* penalties (rootaccess.go), and every game comes to its end.
RootAccessSound ==
    /\ [](RATypeOK /\ CardsConserved /\ TurnIsPlayable /\ FirewallExpires)
    /\ RoundPaysOnce /\ EveryStepAdvances

\* The bot and the engine see the same game (adapter.go against rootaccess.go): it
\* has a move, the moves are legal, and the worlds it samples include the true one.
BotSeesTheGame == BotMovesLegal /\ BotHasMove /\ TrueWorldSampled
===========================================================================
