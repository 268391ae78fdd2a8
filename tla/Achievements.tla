---------------------------- MODULE Achievements ----------------------------
(***************************************************************************)
(* user-service: the consumer of game.session.finished that keeps every    *)
(* player's achievements, and the evaluator of shared/achievements.        *)
(***************************************************************************)
EXTENDS Ratings
LOCAL INSTANCE FiniteSetsExt
LOCAL INSTANCE SequencesExt

CONSTANT Thresholds   \* the tiers of each registered definition

VARIABLES
    uncounted,    \* sessions the consumer group has not acknowledged
    offers,       \* deliveries begun of each session
    counter,      \* what each handler is doing
    earned,       \* rows of player_achievements, by player and key
    credited,     \* history: sessions counted for each player until they slipped, in order
    announced,    \* history: unlocks published, likewise
    repeated,     \* history: unlocks published again
    slipped       \* history: players with a lost write, a crash or an overlap

achievementVars == <<uncounted, offers, counter, earned, credited, announced, repeated, slipped>>

Registered == DOMAIN Thresholds
Flat == {"first_draw", "ttt_perfect_game"}
Progress == [tier : Nat, progress : Nat]

AchievementTypeOK ==
    /\ uncounted \subseteq DOMAIN finished /\ slipped \subseteq Players
    /\ earned \in [Players -> [Registered -> Progress]]
    /\ \A p \in Players, k \in Registered : earned[p][k].tier <= Len(Thresholds[k])

NoneEarned == [k \in Registered |-> [tier |-> 0, progress |-> 0]]

AchievementInit ==
    /\ uncounted = DOMAIN finished /\ offers = [i \in DOMAIN finished |-> 0]
    /\ counter = [h \in Handlers |-> Idle]
    /\ earned = [p \in Players |-> NoneEarned]
    /\ credited = [p \in Players |-> <<>>] /\ announced = {} /\ repeated = {} /\ slipped = {}

(***************************************************************************)
(* The evaluator.                                                          *)
(***************************************************************************)
ForGame(game) ==
    {k \in Registered : game = "tictactoe" \/ k \notin {"ttt_perfect_game", "ttt_games_played"}}

\* The ComputeProgress closures: the new progress, or that of cur when not applicable.
Global(k, cur, outcome) ==
    CASE k = "games_played" -> cur.progress + 1
      [] k = "games_won"    -> IF outcome = "win" THEN cur.progress + 1 ELSE cur.progress
      [] k = "win_streak"   -> IF outcome = "win" THEN cur.progress + 1 ELSE 0
      [] k = "first_draw"   -> IF outcome = "draw" THEN 1 ELSE cur.progress

TicTacToes(k, cur, e, outcome) ==
    CASE k = "ttt_perfect_game" -> IF outcome = "win" /\ e.moves = 5 THEN 1 ELSE cur.progress
      [] k = "ttt_games_played" -> cur.progress + 1

ComputeNewProgress(k, cur, e, p) ==
    IF k \in {"ttt_perfect_game", "ttt_games_played"}
    THEN TicTacToes(k, cur, e, e.outcome[p])
    ELSE Global(k, cur, e.outcome[p])

\* The highest tier in a row of thresholds reached from cur's on; never below it.
checkTierUp(k, cur, progress) ==
    LET T == Thresholds[k]
    IN IF k \in Flat
       THEN IF cur.tier = 0 /\ progress >= T[1] THEN 1 ELSE cur.tier
       ELSE Max({t \in cur.tier .. Len(T) : \A i \in cur.tier + 1 .. t : progress >= T[i]})

\* Evaluate, and the tier and progress to store.
Evaluate(cur, e, p) == [k \in ForGame(e.game) |->
    LET n == ComputeNewProgress(k, cur[k], e, p)
    IN [tier |-> checkTierUp(k, cur[k], n), progress |-> n]]

Unlocks(cur, new) == {k \in DOMAIN new : new[k].tier > cur[k].tier}

(***************************************************************************)
(* One delivery of a session.                                              *)
(***************************************************************************)
Counting(h) == IF counter[h] = Idle THEN {} ELSE counter[h].todo

\* With the feature flag off the session is acknowledged and dropped.
handle(h, i) ==
    /\ counter[h] = Idle /\ i \in uncounted /\ offers[i] < MaxDeliveries
    /\ offers' = [offers EXCEPT ![i] = @ + 1]
    /\ \/ /\ uncounted' = uncounted \ {i}
          /\ UNCHANGED <<counter, slipped>>
       \/ /\ counter' = [counter EXCEPT ![h] = [session |-> i, todo |-> InSession(i), step |-> "list"]]
          /\ slipped' = slipped \cup (InSession(i) \cap UNION {Counting(g) : g \in Handlers})
          /\ UNCHANGED uncounted
    /\ UNCHANGED <<earned, credited, announced, repeated, notifVars>>

\* The event lists the players in some order.  An error of the read skips one.
ListAchievements(h) == \E p \in Counting(h) :
    /\ counter[h].step = "list"
    /\ \/ /\ counter' = [counter EXCEPT ![h] = [session |-> @.session, todo |-> @.todo, step |-> "upsert",
                                              player |-> p, cur |-> earned[p]]]
          /\ UNCHANGED slipped
       \/ /\ counter' = [counter EXCEPT ![h].todo = @ \ {p}]
          /\ slipped' = slipped \cup {p}
    /\ UNCHANGED <<uncounted, offers, earned, credited, announced, repeated, notifVars>>

Upsert_Overwrites(row, new) == new

\* ON CONFLICT: the greater tier, the new progress.
Upsert(row, new) == [tier |-> Max({row.tier, new.tier}), progress |-> new.progress]

\* Every changed definition is written; when the database is away none
\* is, which is logged.
UpsertAchievement(h) == LET j == counter[h] IN
    /\ j # Idle /\ j.step = "upsert"
    /\ LET new     == Evaluate(j.cur, finished[j.session], j.player)
           changed == {k \in DOMAIN new : new[k] # j.cur[k]}
       IN \E lost \in {{}, changed} :
             /\ earned' = [earned EXCEPT ![j.player] = [k \in Registered |->
                    IF k \in changed \ lost THEN Upsert(@[k], new[k]) ELSE @[k]]]
             /\ slipped' = IF lost = {} THEN slipped ELSE slipped \cup {j.player}
             /\ counter' = [counter EXCEPT ![h] =
                    [session |-> j.session, todo |-> j.todo, step |-> "publish", player |-> j.player,
                     unlocks |-> {[player |-> j.player, key |-> k, tier |-> new[k].tier]
                                  : k \in Unlocks(j.cur, new)}]]
             /\ credited' = IF j.player \in slipped' THEN credited
                            ELSE [credited EXCEPT ![j.player] = Append(@, j.session)]
    /\ UNCHANGED <<uncounted, offers, announced, repeated, notifVars>>

\* Each unlock is published, whether or not it was stored; n are taken by the broker.
\* Then comes the next player.
PublishAchievementUnlocked(h) == LET j == counter[h] IN
    /\ j # Idle /\ j.step = "publish"
    /\ \E n \in 0 .. Cardinality(j.unlocks) :
          /\ Len(published) + n <= MaxEvents
          /\ published' = published \o
                 [i \in 1 .. n |-> [kind |-> "achievement.unlocked", one |-> j.player, other |-> j.player]]
          /\ queue' = queue \cup (Len(published) + 1 .. Len(published) + n)
    /\ LET heard == IF j.player \in slipped THEN {} ELSE j.unlocks
       IN announced' = announced \cup heard /\ repeated' = repeated \cup (heard \cap announced)
    /\ counter' = [counter EXCEPT ![h] = [session |-> j.session, step |-> "list",
                                         todo |-> j.todo \ {j.player}]]
    /\ UNCHANGED <<uncounted, offers, earned, credited, slipped>>
    /\ UNCHANGED <<tries, job, dedupe, notes, pushes, accepting, marred>>

AckCounted(h) ==
    /\ counter[h] # Idle /\ counter[h].todo = {}
    /\ uncounted' = uncounted \ {counter[h].session}
    /\ counter' = [counter EXCEPT ![h] = Idle]
    /\ UNCHANGED <<offers, earned, credited, announced, repeated, slipped, notifVars>>

\* The process dies and the session is delivered again, to count once more.
CounterCrash(h) == LET j == counter[h] IN
    /\ j # Idle
    /\ counter' = [counter EXCEPT ![h] = Idle]
    /\ slipped' = slipped \cup (InSession(j.session) \ j.todo)
                          \cup (IF j.step = "publish" THEN {j.player} ELSE {})
    /\ UNCHANGED <<uncounted, offers, earned, credited, announced, repeated, notifVars>>

(***************************************************************************)
(* Properties.                                                             *)
(***************************************************************************)
\* A tier once stored is never taken back, even by a handler that read it before
\* another raised it.
TiersStay == \A p \in Players : earned'[p] # earned[p] =>
    \A k \in Registered : earned'[p][k].tier >= earned[p][k].tier

Count(s, Test(_)) == Len(SelectSeq(s, Test))

\* What a player should have after the sessions credited to them, from their results.
Deserved(p, k) ==
    LET s       == credited[p]
        Won(i)  == finished[i].outcome[p] = "win"
        TTT(i)  == finished[i].game = "tictactoe"
        Runs    == {r \in (1 .. Len(s)) \X (1 .. Len(s)) : \A i \in r[1] .. r[2] : Won(s[i])}
        Streak  == Max({0} \cup {r[2] - r[1] + 1 : r \in Runs})
    IN CASE k = "games_played"     -> Len(s)
         [] k = "games_won"        -> Count(s, Won)
         [] k = "win_streak"       -> Streak
         [] k = "first_draw"       -> IF \E i \in Range(s) : finished[i].outcome[p] = "draw" THEN 1 ELSE 0
         [] k = "ttt_perfect_game" ->
                IF \E i \in Range(s) : TTT(i) /\ Won(i) /\ finished[i].moves = 5 THEN 1 ELSE 0
         [] k = "ttt_games_played" -> Count(s, TTT)

\* Unless a write was lost or a session counted twice or by two handlers at once, a
\* player has exactly the tiers their results deserve, whatever the order of sessions.
TiersDeserved == \A p \in Players \ slipped : \A k \in Registered :
    LET due == Deserved(p, k)
    IN earned[p][k].tier = Cardinality({t \in DOMAIN Thresholds[k] : due >= Thresholds[k][t]})

\* Under the same condition no tier is announced twice.
AnnouncedOnce == \A u \in repeated : u.player \in slipped

\* What becomes of achievements under redelivery and two handlers (consumer.go,
\* evaluator.go): tiers are deserved, announced once and never taken back.
AchievementsSound == [](TiersDeserved /\ AnnouncedOnce) /\ [][TiersStay]_earned
=============================================================================
