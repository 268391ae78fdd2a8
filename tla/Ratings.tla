------------------------------ MODULE Ratings ------------------------------
(***************************************************************************)
(* rating-service: the consumer of game.session.finished, the Elo engine   *)
(* it applies, and the rows it writes.                                     *)
(*                                                                         *)
(* A session is delivered to the consumer group at least once, and may be  *)
(* in the hands of two handlers when one of them is slow.                  *)
(*                                                                         *)
(* Numbers: ratings are in tenths of a point, expected and actual scores   *)
(* in hundredths, K and its streak factor in tenths.                       *)
(***************************************************************************)
EXTENDS Notifications, Integers
LOCAL INSTANCE FiniteSetsExt
LOCAL INSTANCE SequencesExt

VARIABLES
    finished,     \* game.session.finished events; a session's id is its position
    unrated,      \* sessions the consumer group has not acknowledged
    rater,        \* what each handler is doing
    rated,        \* rows of ratings
    ledger,       \* rows of rating_history
    contended     \* history: players two handlers were rating at once

ratingVars == <<finished, unrated, rater, rated, ledger, contended>>

Outcomes == {"win", "loss", "draw", "forfeit", "absent"}
Rating == [mmr : Int, display : Int, games : Nat, wins : Nat, losses : Nat]
Entry == [player : Players, session : Nat, before : Int, after : Int, delta : Int]

RatingTypeOK ==
    /\ \A i \in DOMAIN finished : finished[i].outcome \in [Players -> Outcomes]
    /\ unrated \subseteq DOMAIN finished /\ contended \subseteq Players
    /\ rated \in [Players -> {NoRow} \cup Rating]
    /\ \A p \in Players : rated[p] # NoRow => rated[p].wins = 0 \/ rated[p].losses = 0
    /\ ledger \in Seq(Entry)

(***************************************************************************)
(* What the game server publishes of a session: its result is that of a    *)
(* game played to its end, with a winner or "nobody", or of a surrender.   *)
(***************************************************************************)
buildGameResultParams(winner) ==
    [isDraw |-> winner = "nobody", endedBy |-> IF winner = "nobody" THEN "draw" ELSE "win",
     winner |-> winner]

Surrendered(opponent) == [isDraw |-> FALSE, endedBy |-> "forfeit", winner |-> opponent]

outcomeFor(p, result) ==
    IF result.isDraw THEN "draw"
    ELSE IF result.winner = p THEN "win"
    ELSE IF result.endedBy = "forfeit" THEN "forfeit" ELSE "loss"

publishGameFinished(mode, game, moves, S, result) ==
    [mode |-> mode, game |-> game, moves |-> moves,
     outcome |-> [p \in Players |-> IF p \in S THEN outcomeFor(p, result) ELSE "absent"]]

\* rows: the ratings players have; all: the sessions that end.
RatingInit(all, rows) ==
    /\ finished = all /\ unrated = DOMAIN all /\ rater = [h \in Handlers |-> Idle]
    /\ rated = rows /\ ledger = <<>> /\ contended = {}

InSession(i) == {p \in Players : finished[i].outcome[p] # "absent"}

(***************************************************************************)
(* The engine.                                                             *)
(***************************************************************************)
DefaultMMR == 15000
KMax == 480
KMin == 100
KDefault == 240
CalibrationGames == 30
VeteranGames == 200
StreakThreshold == 3
StreakMultiplierMax == 15

Clamp(v, lo, hi) == Max({lo, Min({v, hi})})

\* The logistic curve in whole per cent: even at no difference, never certain, and
\* tipped by any difference.
Sigmoid(diff) ==
    IF diff >= 0 THEN 50 + Min({49, (diff + 69) \div 70}) ELSE 50 - Min({49, (69 - diff) \div 70})

actualScore(rankA, rankB) == IF rankA < rankB THEN 100 ELSE IF rankA = rankB THEN 50 ELSE 0

\* K for one game: experience, then streak, then surprise.  Scaled by 10 * 100.
DynamicK(p, surprise) ==
    LET left   == Clamp(VeteranGames - p.games, 0, VeteranGames - CalibrationGames)
        base   == IF p.games <= CalibrationGames THEN KMax
                  ELSE KMin + ((KDefault - KMin) * left) \div (VeteranGames - CalibrationGames)
        streak == Max({p.wins, p.losses})
        mul    == IF streak < StreakThreshold THEN 10
                  ELSE Min({StreakMultiplierMax, 10 + (streak - StreakThreshold)})
    IN base * mul * Clamp(100 + surprise, 100, 200)

outcomeToRank(outcome) == IF outcome \in {"win", "draw"} THEN 1 ELSE 2

\* Rounding towards zero.
Scale(x, d) == IF x >= 0 THEN x \div d ELSE -((-x) \div d)

\* Every player is a team of one.  rows: their ratings; outcome: their results.
teamDelta(rows, outcome, S, p) ==
    MapThenSumSet(LAMBDA q :
        actualScore(outcomeToRank(outcome[p]), outcomeToRank(outcome[q]))
            - Sigmoid(rows[p].mmr - rows[q].mmr), S \ {p})

ProcessMatch(rows, outcome, S) == [p \in S |->
    LET sum   == teamDelta(rows, outcome, S, p)
        n     == Cardinality(S) - 1
        k     == DynamicK(rows[p], Scale(IF sum < 0 THEN -sum ELSE sum, n))
        mmr   == rows[p].mmr + Scale(Scale(k, 10) * sum, 10000 * n)
        row   == rows[p]
    IN [mmr     |-> mmr,
        display |-> row.display + Scale(15 * (mmr - row.display), 100),
        games   |-> row.games + 1,
        wins    |-> IF sum > 0 THEN row.wins + 1 ELSE IF sum < 0 THEN 0 ELSE row.wins,
        losses  |-> IF sum < 0 THEN row.losses + 1 ELSE IF sum > 0 THEN 0 ELSE row.losses]]

(***************************************************************************)
(* One delivery of a session.                                              *)
(***************************************************************************)
GetRatings(S) == [p \in S |->
    IF rated[p] # NoRow THEN rated[p]
    ELSE [mmr |-> DefaultMMR, display |-> DefaultMMR, games |-> 0, wins |-> 0, losses |-> 0]]

Held(h) == {p \in Players : rater[h] # Idle /\ rater[h].step = "write" /\ p \in DOMAIN rater[h].rows}

\* Casual sessions, and those with one player, are acknowledged and skipped.
ProcessGameFinished(h, i) == LET S == InSession(i) IN
    /\ rater[h] = Idle /\ i \in unrated
    /\ IF finished[i].mode # "ranked" \/ Cardinality(S) < 2
       THEN /\ unrated' = unrated \ {i}
            /\ UNCHANGED <<rater, contended>>
       ELSE /\ rater' = [rater EXCEPT ![h] = [session |-> i, step |-> "write", rows |-> GetRatings(S)]]
            /\ contended' = contended \cup (S \cap UNION {Held(g) : g \in Handlers})
            /\ UNCHANGED unrated
    /\ UNCHANGED <<finished, rated, ledger, notifVars>>

AlreadyProcessed(i) == \E e \in Range(ledger) : e.session = i

Commit(h, i) ==
    LET S   == InSession(i)
        old == rater[h].rows
        new == ProcessMatch(old, finished[i].outcome, S)
    IN /\ rated' = [p \in Players |-> IF p \in S THEN new[p] ELSE rated[p]]
       /\ ledger' = ledger \o SetToSeq(
              {[player |-> p, session |-> i, before |-> old[p].mmr, after |-> new[p].mmr,
                delta |-> new[p].mmr - old[p].mmr] : p \in S})
       /\ rater' = [rater EXCEPT ![h] = [session |-> i, step |-> "ack"]]

UpsertRatings_NoGuard(h) ==
    /\ rater[h] # Idle /\ rater[h].step = "write"
    /\ Commit(h, rater[h].session)
    /\ UNCHANGED <<finished, unrated, contended, notifVars>>

\* One transaction: history first, where a session that is there already ends it
\* without an error, then the rows read before the match was processed.  Any other
\* error leaves the session to be delivered again.
UpsertRatings(h) == LET i == rater[h].session IN
    /\ rater[h] # Idle /\ rater[h].step = "write"
    /\ \/ /\ AlreadyProcessed(i)
          /\ rater' = [rater EXCEPT ![h] = [session |-> i, step |-> "ack"]]
          /\ UNCHANGED <<rated, ledger>>
       \/ ~AlreadyProcessed(i) /\ Commit(h, i)
       \/ /\ rater' = [rater EXCEPT ![h] = Idle]
          /\ UNCHANGED <<rated, ledger>>
    /\ UNCHANGED <<finished, unrated, contended, notifVars>>

AckSession(h) ==
    /\ rater[h] # Idle /\ rater[h].step = "ack"
    /\ unrated' = unrated \ {rater[h].session}
    /\ rater' = [rater EXCEPT ![h] = Idle]
    /\ UNCHANGED <<finished, rated, ledger, contended, notifVars>>

\* The process dies before it acknowledges the session.
RaterCrash(h) ==
    /\ rater[h] # Idle
    /\ rater' = [rater EXCEPT ![h] = Idle]
    /\ UNCHANGED <<finished, unrated, rated, ledger, contended, notifVars>>

(***************************************************************************)
(* Properties.                                                             *)
(***************************************************************************)
\* However often a session is delivered, and to however many handlers, it moves a
\* player's rating once (the UNIQUE constraint of rating_history).
RatedOnce == \A i, j \in DOMAIN ledger :
    ledger[i].player = ledger[j].player /\ ledger[i].session = ledger[j].session => i = j

RowsOf(p) == SelectSeq(ledger, LAMBDA e : e.player = p)

\* A player's rating is where their last ledger row left it; and unless two handlers
\* held the player's ratings at once, each row starts where the one before ended.
LedgerChains == \A p \in Players : LET rows == RowsOf(p) IN
    /\ rows # <<>> => rated[p] # NoRow /\ rated[p].mmr = rows[Len(rows)].after
    /\ p \notin contended =>
          \A i \in 2 .. Len(rows) : rows[i].before = rows[i - 1].after

\* A sole winner gains rating and, in a match of two, the loser drops, at every
\* experience, streak and difference.
WinnersGain == \A e \in Range(ledger) :
    LET out == finished[e.session].outcome
        S   == InSession(e.session)
    IN /\ (out[e.player] = "win" /\ Cardinality({p \in S : out[p] = "win"}) = 1) => e.delta > 0
       /\ (out[e.player] \in {"loss", "forfeit"} /\ Cardinality(S) = 2) => e.delta < 0

\* No game moves a rating by more than KMax times the largest streak and upset
\* factors: 144 points.
SwingBounded == \A e \in Range(ledger) : e.delta \in -1440 .. 1440

\* What the ledger of ratings shows (service.go, engine.go): each session once, one
\* row after the other, the right sign and a bounded size.
RatingsSound == RatedOnce /\ LedgerChains /\ WinnersGain /\ SwingBounded
=============================================================================
