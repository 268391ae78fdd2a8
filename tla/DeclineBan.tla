----------------------------- MODULE DeclineBan -----------------------------
(***************************************************************************)
(* match-service/internal/queue: recordDecline and BanStatus for one       *)
(* player.  Decline requests and expiry tasks of several matches may call  *)
(* recordDecline at once; each call pushes a timestamp, reads the list     *)
(* back, and bans.  The penalty window, an hour, is Window steps of time.  *)
(***************************************************************************)
EXTENDS Integers, Sequences, FiniteSets

CONSTANTS
    Callers,     \* recordDecline calls that may be under way at once
    Threshold,   \* DeclinePenaltyThreshold
    Window,      \* DeclinePenaltyWindow, in steps
    MaxTime,     \* bound: steps
    MaxDeclines  \* bound: recordDecline calls

ASSUME DeclineAssumption ==
    /\ Threshold \in Nat \ {0}
    /\ Window \in Nat \ {0}
    /\ MaxTime \in Nat
    /\ MaxDeclines \in Nat

VARIABLES
    now,
    declines,    \* the list queue:declines:<player>, timestamps
    listEnds,    \* when the list's TTL ends
    banLeft,     \* steps until the ban key's TTL ends, 0 without a ban
    stage,       \* per caller
    found,       \* per caller: recentCount
    calls,       \* history: timestamps of all recorded declines
    bans         \* history: the durations of the bans issued, in order

declineVars == <<now, declines, listEnds, banLeft, stage, found, calls, bans>>

DeclineInit ==
    /\ now = 0
    /\ declines = <<>>
    /\ listEnds = 0
    /\ banLeft = 0
    /\ stage = [c \in Callers |-> "idle"]
    /\ found = [c \in Callers |-> 0]
    /\ calls = <<>>
    /\ bans = <<>>

(* BanDurationForOffense, in minutes: five to the power of the offense, a  *)
(* day at most.                                                            *)
BanMinutes(offense) ==
    IF offense > 4 THEN 1440 ELSE <<5, 25, 125, 625>>[IF offense < 1 THEN 1 ELSE offense]

Recent(times) ==
    Cardinality({i \in DOMAIN times : times[i] > now - Window})

Push_WindowStart(c) ==
    /\ stage[c] = "idle"
    /\ Len(calls) < MaxDeclines
    /\ declines' = Append(declines, now - Window)
    /\ listEnds' = now + Window
    /\ calls' = Append(calls, now)
    /\ stage' = [stage EXCEPT ![c] = "range"]
    /\ UNCHANGED <<now, banLeft, found, bans>>

(* RPUSH of the time and EXPIRE of the list.                               *)
Push(c) ==
    /\ stage[c] = "idle"
    /\ Len(calls) < MaxDeclines
    /\ declines' = Append(declines, now)
    /\ listEnds' = now + Window
    /\ calls' = Append(calls, now)
    /\ stage' = [stage EXCEPT ![c] = "range"]
    /\ UNCHANGED <<now, banLeft, found, bans>>

LRange_IgnoreWindow(c) ==
    /\ stage[c] = "range"
    /\ stage' = [stage EXCEPT ![c] = IF Len(declines) < Threshold THEN "idle" ELSE "ban"]
    /\ found' = [found EXCEPT ![c] = IF Len(declines) < Threshold THEN 0 ELSE Len(declines)]
    /\ UNCHANGED <<now, declines, listEnds, banLeft, calls, bans>>

LRange_OffByOne(c) ==
    /\ stage[c] = "range"
    /\ stage' = [stage EXCEPT ![c] = IF Recent(declines) <= Threshold THEN "idle" ELSE "ban"]
    /\ found' = [found EXCEPT ![c] = IF Recent(declines) <= Threshold THEN 0
                                                               ELSE Recent(declines)]
    /\ UNCHANGED <<now, declines, listEnds, banLeft, calls, bans>>

(* LRANGE and the count of the entries inside the window.                  *)
LRange(c) ==
    /\ stage[c] = "range"
    /\ stage' = [stage EXCEPT ![c] = IF Recent(declines) < Threshold THEN "idle" ELSE "ban"]
    /\ found' = [found EXCEPT ![c] = IF Recent(declines) < Threshold THEN 0
                                                               ELSE Recent(declines)]
    /\ UNCHANGED <<now, declines, listEnds, banLeft, calls, bans>>

(* SET of the ban for the offense's duration, and DEL of the list.         *)
IssueBan(c) ==
    /\ stage[c] = "ban"
    /\ LET minutes == BanMinutes(found[c] \div Threshold)
       IN  /\ banLeft' = (minutes * Window + 59) \div 60
           /\ bans' = Append(bans, minutes)
    /\ declines' = <<>>
    /\ listEnds' = now
    /\ stage' = [stage EXCEPT ![c] = "idle"]
    /\ found' = [found EXCEPT ![c] = 0]
    /\ UNCHANGED <<now, calls>>

(* Time passes between calls, which take milliseconds.                     *)
WindowTick ==
    /\ now < MaxTime
    /\ \A c \in Callers : stage[c] = "idle"
    /\ now' = now + 1
    /\ banLeft' = IF banLeft = 0 THEN 0 ELSE banLeft - 1
    /\ declines' = IF now + 1 >= listEnds THEN <<>> ELSE declines
    /\ UNCHANGED <<listEnds, stage, found, calls, bans>>

DeclineNext ==
    \/ \E c \in Callers : Push(c) \/ LRange(c) \/ IssueBan(c)
    \/ WindowTick

DeclineSpec == DeclineInit /\ [][DeclineNext]_declineVars

-----------------------------------------------------------------------------
DeclineTypeOK ==
    /\ now \in 0..MaxTime
    /\ declines \in Seq(0..MaxTime) /\ Len(declines) <= Len(calls)
    /\ listEnds \in 0..(MaxTime + Window)
    /\ banLeft \in 0..(24 * Window)
    /\ stage \in [Callers -> {"idle", "range", "ban"}]
    /\ found \in [Callers -> 0..MaxDeclines]
    /\ calls \in Seq(0..MaxTime)
    /\ bans \in Seq({BanMinutes(o) : o \in 1..MaxDeclines})

(* A ban is issued only for Threshold declines inside one window           *)
(* (queue.go:654-674), however calls overlap and old entries linger.       *)
BanEarned == [][bans' # bans => Recent(calls) >= Threshold]_declineVars

(* Between calls, fewer than Threshold declines of the window are still    *)
(* unpunished: no overlap of calls lets a player slip past the ban.        *)
ThresholdEnforced ==
    (\A c \in Callers : stage[c] = "idle") => Recent(declines) < Threshold

=============================================================================
