----------------------------- MODULE Matchmaker -----------------------------
(***************************************************************************)
(* shared/domain/matchmaking: the queue of waiting players and the pass    *)
(* that forms matches from windows of neighbouring ratings.                *)
(*                                                                         *)
(* match-service uses teams of one; the package and cmd/simulate allow     *)
(* larger teams.  Time is in seconds, ratings in whole points.             *)
(***************************************************************************)
EXTENDS Integers, Sequences, FiniteSets
LOCAL INSTANCE FiniteSetsExt
LOCAL INSTANCE SequencesExt

CONSTANTS
    Skills,       \* ratings players may have
    MaxQueue,     \* bound: players waiting
    MaxClock      \* bound: ticks of the clock

Tick == 60        \* seconds between two passes of the model

VARIABLES
    shape,        \* QueueConfig: PlayersPerTeam and TeamsPerMatch
    waiting,      \* Matchmaker.queue
    clock,
    made          \* the matches of a pass that was just made, with the queue it saw

matchmakerVars == <<shape, waiting, clock, made>>

Waiter == [id : 1 .. MaxQueue, mmr : Skills, joined : 0 .. MaxClock]

MatchmakerTypeOK ==
    /\ shape \in [perTeam : 1 .. 2, teams : {2}]
    /\ \A i \in DOMAIN waiting : waiting[i] \in Waiter
    /\ clock \in 0 .. MaxClock

NoPass == [queue |-> <<>>, matches |-> <<>>]

MatchmakerInit(shapes) ==
    /\ shape \in shapes /\ waiting = <<>> /\ clock = 0
    /\ made = NoPass

BaseSpread == 200
SpreadPerSecond == 2
PerMatch == shape.perTeam * shape.teams

\* A player waits once; ids are given in the order of joining.
EnqueueAt(r) ==
    /\ Len(waiting) < MaxQueue
    /\ waiting' = Append(waiting, [id |-> Min(1 .. MaxQueue \ {e.id : e \in Range(waiting)}),
                                   mmr |-> r, joined |-> clock])
    /\ made' = NoPass /\ UNCHANGED <<shape, clock>>

Wait ==
    /\ clock < MaxClock
    /\ clock' = clock + 1
    /\ made' = NoPass /\ UNCHANGED <<shape, waiting>>

(***************************************************************************)
(* A pass.                                                                 *)
(***************************************************************************)
\* The widest spread any of the window accepts.
maxSpread(window) ==
    Max({BaseSpread + SpreadPerSecond * Tick * (clock - e.joined) : e \in Range(window)})

Draft_RoundRobin(window) == [t \in 1 .. shape.teams |->
    {window[i] : i \in {i \in DOMAIN window : (i - 1) % shape.teams = t - 1}}]

\* The snake draft: to the last team, and back to the first.
Draft(window) == [t \in 1 .. shape.teams |->
    {window[i] : i \in {i \in DOMAIN window :
        LET round == (i - 1) \div shape.teams
            pos   == (i - 1) % shape.teams
        IN t = IF round % 2 = 0 THEN pos + 1 ELSE shape.teams - pos}}]

\* avgMMR times the size of a team.
TeamMMR(team) == MapThenSumSet(LAMBDA e : e.mmr, team)

\* Quality is 1 less the gap between the teams over the spread; at least 0.4.
matchQuality(window) ==
    LET sums == {TeamMMR(Draft(window)[t]) : t \in 1 .. shape.teams}
    IN 10 * (Max(sums) - Min(sums)) <= 6 * maxSpread(window) * shape.perTeam

Window(q, start) == SubSeq(q, start, start + PerMatch - 1)

\* Windows from the lowest rating up, leaving out those with a player already used.
Scan(q) == FoldLeft(LAMBDA acc, start :
        IF acc.used \cap (start .. start + PerMatch - 1) = {} /\ matchQuality(Window(q, start))
        THEN [used    |-> acc.used \cup (start .. start + PerMatch - 1),
              matches |-> Append(acc.matches, Window(q, start))]
        ELSE acc,
    [used |-> {}, matches |-> <<>>],
    [start \in 1 .. Len(q) - PerMatch + 1 |-> start])

Ascending(q) == \A i, j \in DOMAIN q : i < j => q[i].mmr <= q[j].mmr

\* sort.Slice puts equal ratings in any order.
Sorted == {q \in SetToSeqs(Range(waiting)) : Ascending(q)}

FindMatches ==
    /\ Len(waiting) >= PerMatch
    /\ \E q \in Sorted : LET found == Scan(q) IN
          /\ made' = [queue |-> q, matches |-> found.matches]
          /\ waiting' = SelectSeq(q, LAMBDA e : \A m \in Range(found.matches) : e \notin Range(m))
    /\ UNCHANGED <<shape, clock>>

(***************************************************************************)
(* Properties, of the step that makes a pass.                              *)
(***************************************************************************)
\* Every player the pass saw is afterwards in exactly one match or still waiting.
EveryonePlacedOnce == made' # NoPass =>
    LET M == made'.matches
    IN \A e \in Range(made'.queue) :
          Cardinality({i \in DOMAIN M : e \in Range(M[i])})
              + Cardinality({i \in DOMAIN waiting' : waiting'[i] = e}) = 1

Gap(m) == IF shape.perTeam = 1 THEN m[2].mmr - m[1].mmr
          ELSE LET d == m[1].mmr + m[4].mmr - m[2].mmr - m[3].mmr IN IF d < 0 THEN -d ELSE d

\* Some player of the window has waited long enough for the gap between its teams,
\* the strongest playing with the weakest.
Acceptable(m) == \E e \in Range(m) :
    10 * Gap(m) <= 6 * shape.perTeam * (BaseSpread + SpreadPerSecond * Tick * (clock - e.joined))

\* A pass makes acceptable matches only, and leaves no neighbours waiting that could
\* have played each other.
PassIsFair == made' # NoPass =>
    /\ \A m \in Range(made'.matches) : Acceptable(m)
    /\ \A s \in 1 .. Len(made'.queue) - PerMatch + 1 :
          Range(Window(made'.queue, s)) \subseteq Range(waiting') => ~Acceptable(Window(made'.queue, s))

\* What a pass of the matchmaker does with the queue (matchmaker.go).
MatchmakingSound == [][EveryonePlacedOnce /\ PassIsFair]_matchmakerVars
=============================================================================
