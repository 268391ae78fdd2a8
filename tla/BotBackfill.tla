---------------------------- MODULE BotBackfill -----------------------------
(***************************************************************************)
(* Ranked bot backfill: match-service's BackfillScan (queue/backfill.go)   *)
(* claims an idle bot for a lonely human and enqueues an Asynq task; the   *)
(* bot-runner (game-server/cmd/bot-runner) plays one match per task.       *)
(* Every bot runs its own Asynq server on the one queue "bot-activate",    *)
(* with a handler for its own task type only.  The scan runs after         *)
(* FindAndPropose released queue:lock, so scans of several instances       *)
(* interleave.                                                             *)
(***************************************************************************)
EXTENDS Integers, FiniteSets

CONSTANTS
    Bots,
    Humans,
    Scanners,   \* match-service instances
    MaxActive,   \* BackfillConfig.MaxActive
    SharedPickup,\* whether a bot's server may take another bot's task
    MaxRestarts  \* bound: bots that stop and start again

ASSUME BackfillAssumption ==
    /\ Bots \cap Humans = {}
    /\ MaxActive \in Nat
    /\ SharedPickup \in BOOLEAN
    /\ MaxRestarts \in Nat

VARIABLES
    ranked,       \* members of queue:ranked
    known,       \* bot:known
    available,   \* bot:available
    scan,       \* per instance: where its scan is
    pick,        \* per instance: the bot chosen, {} or a singleton
    tasks,       \* per bot: its activation tasks in the Asynq queue
    phase,       \* per bot: where its runner is
    inMatch,     \* bots in a proposed or running match
    restarts

scanVars == <<scan, pick>>
botVars  == <<phase, inMatch, restarts>>
backfillVars == <<ranked, known, available, scanVars, tasks, botVars>>

BackfillInit ==
    /\ ranked = {}
    /\ known = {}
    /\ available = {}
    /\ scan = [n \in Scanners |-> "idle"]
    /\ pick = [n \in Scanners |-> {}]
    /\ tasks = [b \in Bots |-> 0]
    /\ phase = [b \in Bots |-> "off"]
    /\ inMatch = {}
    /\ restarts = 0

-----------------------------------------------------------------------------
(* A human joins or leaves the queue; the matchmaker pairs two members.    *)
HumanJoins(h) ==
    /\ h \notin ranked
    /\ ranked' = ranked \cup {h}
    /\ UNCHANGED <<known, available, scanVars, tasks, botVars>>

HumanLeaves(h) ==
    /\ h \in ranked
    /\ ranked' = ranked \ {h}
    /\ UNCHANGED <<known, available, scanVars, tasks, botVars>>

Pair(h, x) ==
    /\ h # x
    /\ {h, x} \subseteq ranked
    /\ ranked' = ranked \ {h, x}
    /\ inMatch' = inMatch \cup ({x} \cap Bots)
    /\ phase' = [b \in Bots |-> IF b = x /\ phase[b] = "waiting" THEN "matched"
                                                              ELSE phase[b]]
    /\ UNCHANGED <<known, available, scanVars, tasks, restarts>>

-----------------------------------------------------------------------------
ScanStep(n, at, bot) ==
    /\ scan' = [scan EXCEPT ![n] = at]
    /\ pick' = [pick EXCEPT ![n] = bot]

(* The gates: one human and no known bot queued (long enough), a bot       *)
(* available, fewer than MaxActive bots active.                            *)
ScanGates(n) ==
    /\ scan[n] = "idle"
    /\ Cardinality(ranked \ known) = 1
    /\ ranked \cap known = {}
    /\ available # {}
    /\ Cardinality(known) - Cardinality(available) < MaxActive
    /\ ScanStep(n, "pick", {})
    /\ UNCHANGED <<ranked, known, available, tasks, botVars>>

(* pickClosestBot: any available bot, or none if the rating lookups fail.  *)
ScanPick(n) ==
    /\ scan[n] = "pick"
    /\ \/ \E b \in available : ScanStep(n, "claim", {b})
       \/ ScanStep(n, "idle", {})
    /\ UNCHANGED <<ranked, known, available, tasks, botVars>>

ScanClaim_Unchecked(n) ==
    /\ scan[n] = "claim"
    /\ available' = available \ pick[n]
    /\ ScanStep(n, "enqueue", pick[n])
    /\ UNCHANGED <<ranked, known, tasks, botVars>>

(* SREM as the claim: 0 removed means another scan was faster.             *)
ScanClaim(n) ==
    /\ scan[n] = "claim"
    /\ available' = available \ pick[n]
    /\ IF pick[n] \subseteq available THEN ScanStep(n, "enqueue", pick[n])
                                      ELSE ScanStep(n, "idle", {})
    /\ UNCHANGED <<ranked, known, tasks, botVars>>

ScanEnqueue_NoReturn(n) ==
    /\ scan[n] = "enqueue"
    /\ ScanStep(n, "idle", {})
    /\ tasks' \in {tasks, [b \in Bots |-> IF b \in pick[n] THEN tasks[b] + 1 ELSE tasks[b]]}
    /\ UNCHANGED <<ranked, known, available, botVars>>

(* Enqueue of the task; if that fails, SADD puts the bot back.             *)
ScanEnqueue(n) ==
    /\ scan[n] = "enqueue"
    /\ ScanStep(n, "idle", {})
    /\ \/ /\ tasks' = [b \in Bots |-> IF b \in pick[n] THEN tasks[b] + 1 ELSE tasks[b]]
          /\ UNCHANGED available
       \/ /\ available' = available \cup pick[n]
          /\ UNCHANGED tasks
    /\ UNCHANGED <<ranked, known, botVars>>

-----------------------------------------------------------------------------
(* RunBackfill: register in both sets, in one pipeline, and serve.         *)
Register(b) ==
    /\ phase[b] = "off"
    /\ known' = known \cup {b}
    /\ available' = available \cup {b}
    /\ phase' = [phase EXCEPT ![b] = "idle"]
    /\ UNCHANGED <<ranked, scanVars, tasks, inMatch, restarts>>

(* The runner stops: after its deferred SREMs, or without them (a crash).  *)
Stop(b) ==
    /\ phase[b] # "off"
    /\ restarts < MaxRestarts
    /\ restarts' = restarts + 1
    /\ phase' = [phase EXCEPT ![b] = "off"]
    /\ \/ known' = known \ {b} /\ available' = available \ {b}
       \/ UNCHANGED <<known, available>>
    /\ UNCHANGED <<ranked, scanVars, tasks, inMatch>>

(* The Asynq server of bot s takes the next task of the shared queue.  It  *)
(* has a handler for its own task type only; with MaxRetry(0) a task of    *)
(* another type fails for good.                                            *)
Deliver(s, b) ==
    /\ s = b \/ SharedPickup
    /\ phase[s] = "idle"
    /\ tasks[b] > 0
    /\ tasks' = [tasks EXCEPT ![b] = @ - 1]
    /\ phase' = [phase EXCEPT ![s] = IF s = b THEN "dial" ELSE "idle"]
    /\ UNCHANGED <<ranked, known, available, scanVars, inMatch, restarts>>

(* handleActivate's end: SADD to bot:available, whatever the outcome.      *)
Done(s) ==
    /\ available' = available \cup {s}
    /\ phase' = [phase EXCEPT ![s] = "idle"]

(* Dial, POST /queue and wait for match_found; or one of the first two     *)
(* fails.                                                                  *)
handleActivate(s) ==
    /\ phase[s] = "dial"
    /\ \/ /\ ranked' = ranked \cup {s}
          /\ phase' = [phase EXCEPT ![s] = "waiting"]
          /\ UNCHANGED available
       \/ Done(s) /\ UNCHANGED ranked
    /\ UNCHANGED <<known, scanVars, tasks, inMatch, restarts>>

(* The match is cancelled or played to its end.                            *)
MatchOver(s) ==
    /\ phase[s] = "matched"
    /\ inMatch' = inMatch \ {s}
    /\ Done(s)
    /\ UNCHANGED <<ranked, known, scanVars, tasks, restarts>>

(* A match the bot's runner has left ends without it.                      *)
MatchOverWithout(b) ==
    /\ b \in inMatch
    /\ phase[b] # "matched"
    /\ inMatch' = inMatch \ {b}
    /\ UNCHANGED <<ranked, known, available, scanVars, tasks, phase, restarts>>

(* The player WebSocket breaks: an error that is not DeadlineExceeded.     *)
WsLost(s) ==
    /\ phase[s] \in {"waiting", "matched"}
    /\ Done(s)
    /\ UNCHANGED <<ranked, known, scanVars, tasks, inMatch, restarts>>

(* backfillJoinTimeout: the blocking WebSocket reads do not see the        *)
(* context; a request made during the match does, and then the bot leaves  *)
(* the queue and is done.                                                  *)
JoinTimeout(s) ==
    /\ phase[s] = "matched"
    /\ ranked' = ranked \ {s}
    /\ Done(s)
    /\ UNCHANGED <<known, scanVars, tasks, inMatch, restarts>>

Scan(n) == ScanGates(n) \/ ScanPick(n) \/ ScanClaim(n) \/ ScanEnqueue(n)

BackfillNext ==
    \/ \E h \in Humans : HumanJoins(h) \/ HumanLeaves(h)
                         \/ \E x \in Humans \cup Bots : Pair(h, x)
    \/ \E n \in Scanners : Scan(n)
    \/ \E b \in Bots : Register(b) \/ Stop(b) \/ handleActivate(b) \/ MatchOver(b)
                       \/ MatchOverWithout(b) \/ WsLost(b) \/ JoinTimeout(b)
                       \/ \E s \in Bots : Deliver(s, b)

BackfillSpec == BackfillInit /\ [][BackfillNext]_backfillVars

-----------------------------------------------------------------------------
BackfillTypeOK ==
    /\ ranked \subseteq Bots \cup Humans
    /\ available \subseteq Bots
    /\ known \subseteq Bots
    /\ scan \in [Scanners -> {"idle", "pick", "claim", "enqueue"}]
    /\ pick \in [Scanners -> {{}} \cup {{b} : b \in Bots}]
    /\ tasks \in [Bots -> Nat]
    /\ phase \in [Bots -> {"off", "idle", "dial", "waiting", "matched"}]
    /\ inMatch \subseteq Bots
    /\ restarts \in 0..MaxRestarts

Activating(b) == {n \in Scanners : scan[n] = "enqueue" /\ pick[n] = {b}}
Activated(b) == phase[b] \in {"dial", "waiting", "matched"}

(* "The SREM on bot:available doubles as an atomic claim"                  *)
(* (backfill.go:47-50): scans of several instances never activate a bot    *)
(* that is activated already, as long as no runner is restarted.           *)
NoDoubleActivation ==
    restarts = 0 =>
        \A b \in Bots :
            /\ \A m, n \in Activating(b) : m = n
            /\ tasks[b] + (IF Activating(b) # {} THEN 1 ELSE 0)
                   + (IF Activated(b) THEN 1 ELSE 0) <= 1

(* An idle bot is available, being claimed, or about to get a task: the    *)
(* detector can always reach it again (backfill.go:219-221, "otherwise the *)
(* bot would be stuck off-queue"; runner.go:35-36, "each bot only consumes *)
(* the activations targeted at it").                                       *)
IdleBotReachable ==
    \A b \in Bots : phase[b] = "idle" =>
        b \in available \/ tasks[b] > 0 \/ Activating(b) # {}

=============================================================================
