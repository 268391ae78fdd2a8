------------------------- MODULE MatchConfirmProofs -------------------------
(***************************************************************************)
(* The confirmation of a match keeps its promise, for any failures, when   *)
(* each player responds once and nobody is responding as the window closes *)
(* (OneCall).  Three facts carry the argument.  The records the proposal   *)
(* wrote exist only while the match is open (KeyInv).  Once it is resolved,*)
(* a request about to delete finds nothing: a record could only come back  *)
(* through an acceptance, and none is then under way (CallInv).  The task  *)
(* acts on acceptors that can no longer change, since the window is closed *)
(* (TaskInv).                                                              *)
(***************************************************************************)
EXTENDS MatchConfirm, TLAPS

\* The time a leaf that names no prover may take.
USE SMTT(60), ZenonT(20)

OneCall == MaxCalls = 1 /\ ~Straddle

Winning == {"cancel", "room", "session"}

Declined == {"cancelDeclined", "requeue", "penalise"}

KeyInv ==
    /\ pending.acc \subseteq accepted /\ shadow.acc \subseteq accepted
    /\ pending.ids => outcome = "open"
    /\ shadow.ids => outcome = "open" /\ shadow.acc = accepted
    /\ outcome = "started" => pending = Gone /\ shadow = Gone /\ accepted = Parties
    /\ closed => ~pending.ids

CallInv(r) ==
    /\ r[1] \in accepted => pc[r] \in Winning \cup {"reload", "del", "done"}
    /\ seen[r] \subseteq accepted
    /\ pc[r] = "del" => accepted = Parties
    /\ closed => ~Deciding(r)
    /\ outcome = r[1] => r[1] \notin accepted /\ pc[r] \in Declined \cup {"done"}
    /\ pc[r] \in {"del", "decline"} /\ outcome # "open" =>
          pending = Gone /\ shadow = Gone /\ \A q \in Reqs : pc[q] # "set"
    /\ pc[r] \in Winning =>
          /\ outcome = "started" /\ sessions = 0
          /\ rooms = IF pc[r] = "session" THEN 1 ELSE 0
          /\ \A q \in Reqs : q # r => pc[q] \notin Winning
    /\ pc[r] \in Declined => outcome = r[1] /\ penalised[r[1]] = 0

Unpunished == \A p \in Parties : penalised[p] = 0

TaskInv ==
    /\ task \notin {"scheduled", "none"} => closed
    /\ task = "read" => \/ taskSeen = {"nil"} \/ ~Single(taskSeen)
                        \/ outcome = "open" /\ taskSeen = accepted
    /\ task \in {"requeue", "penalise"} =>
          \/ taskSeen = {"nil"}
          \/ /\ outcome = "expired" /\ taskSeen = accepted /\ Unpunished
             /\ \E p \in Parties : accepted = {p}

CountInv ==
    /\ outcome = "open" => Unpunished
    /\ outcome = "expired" => closed
    /\ outcome # "started" => rooms = 0 /\ sessions = 0
    /\ rooms <= 1

ConfirmInv == TypeOK /\ KeyInv /\ TaskInv /\ CountInv /\ \A r \in Reqs : CallInv(r)

-----------------------------------------------------------------------------

\* A request is known by its player when each player makes one.
LEMMA OneRequestEach ==
    ASSUME OneCall
    PROVE  /\ \A r \in Reqs : r[1] \in Parties
           /\ \A q, r \in Reqs : q[1] = r[1] => q = r
           /\ \A p \in Parties : <<p, 1>> \in Reqs
BY SMT DEF OneCall, Reqs

\* The proposal FindAndPropose leaves behind satisfies the invariant.
LEMMA InitConfirm == ASSUME OneCall, Init PROVE ConfirmInv
<1> USE OneRequestEach, ConfirmAssumption
<1>0. pending \in Hashes /\ 0 \in 0..MaxRetry /\ aborts \in 0..MaxAborts /\ 0 \in 0..0
  BY DEF Init, Hashes
<1>1. TypeOK
  BY <1>0, Zenon DEF Init, TypeOK, Hashes
<1>2. \A r \in Reqs : CallInv(r)
  BY DEF Init, CallInv, Winning, Declined, Deciding
<1> QED
  BY <1>1, <1>2 DEF ConfirmInv, Init, KeyInv, TaskInv, CountInv, Unpunished

\* A request that finds the record with its ids finds the match open.
LEMMA HGetAllPendingKeeps ==
    ASSUME OneCall, ConfirmInv, NEW r \in Reqs, HGetAllPending(r)
    PROVE  ConfirmInv'
<1> USE OneRequestEach, ConfirmAssumption
<1> USE DEF ConfirmInv, HGetAllPending, Goto, SetAccepted, ResolvedAs, keys, taskVars, effects, Gone
<1>1. TypeOK'
  BY DEF TypeOK, Hashes, CallInv, Winning, Declined
<1>2. KeyInv'
  BY DEF TypeOK, KeyInv, CallInv, Hashes
<1>3. TaskInv'
  BY DEF TypeOK, TaskInv, CallInv, Unpunished, Deciding
<1>4. CountInv'
  BY DEF TypeOK, CountInv, CallInv, Unpunished, Winning, Declined
<1>5. ASSUME NEW q \in Reqs PROVE CallInv(q)'
  BY TwoParties DEF TypeOK, KeyInv, CallInv, CountInv, Unpunished, Winning, Declined, Deciding, Hashes
<1> QED
  BY <1>1, <1>2, <1>3, <1>4, <1>5

\* An acceptance never meets a started match, so what it sets or re-creates is harmless.
LEMMA AcceptSetKeeps ==
    ASSUME OneCall, ConfirmInv, NEW r \in Reqs, AcceptSet(r)
    PROVE  ConfirmInv'
<1> USE OneRequestEach, ConfirmAssumption
<1> USE DEF ConfirmInv, AcceptSet, Goto, SetAccepted, ResolvedAs, keys, taskVars, effects, Gone
<1>0. pending' \in Hashes /\ shadow' \in Hashes /\ pending'.live /\ shadow'.live
  BY DEF TypeOK, Hashes
<1>1. TypeOK'
  BY <1>0 DEF TypeOK
<1>2. KeyInv'
  <2>1. outcome # "started"
    BY DEF KeyInv, CallInv, Winning
  <2> QED
    BY <2>1 DEF TypeOK, KeyInv, CallInv, Hashes, Deciding
<1>3. TaskInv'
  BY DEF TypeOK, TaskInv, CallInv, Unpunished, Deciding
<1>4. CountInv'
  BY DEF TypeOK, CountInv, CallInv, Unpunished, Winning, Declined
<1>5. ASSUME NEW q \in Reqs PROVE CallInv(q)'
  BY TwoParties DEF TypeOK, KeyInv, CallInv, CountInv, Unpunished, Winning, Declined, Deciding, Hashes
<1> QED
  BY <1>1, <1>2, <1>3, <1>4, <1>5

\* Both flags can only be seen while the match is open.
LEMMA AcceptReloadKeeps ==
    ASSUME OneCall, ConfirmInv, NEW r \in Reqs, AcceptReload(r)
    PROVE  ConfirmInv'
<1> USE OneRequestEach, ConfirmAssumption
<1> USE DEF ConfirmInv, AcceptReload, Goto, SetAccepted, ResolvedAs, keys, taskVars, effects, Gone
<1>1. TypeOK'
  BY DEF TypeOK, Hashes, CallInv, Winning, Declined
<1>2. KeyInv'
  BY DEF TypeOK, KeyInv, CallInv, Hashes
<1>3. TaskInv'
  BY DEF TypeOK, TaskInv, CallInv, Unpunished, Deciding
<1>4. CountInv'
  BY DEF TypeOK, CountInv, CallInv, Unpunished, Winning, Declined
<1>5. ASSUME NEW q \in Reqs PROVE CallInv(q)'
  BY TwoParties DEF TypeOK, KeyInv, CallInv, CountInv, Unpunished, Winning, Declined, Deciding, Hashes
<1> QED
  BY <1>1, <1>2, <1>3, <1>4, <1>5

\* The DEL that counts is the first one; afterwards nobody is about to set a flag.
LEMMA AcceptDelKeeps ==
    ASSUME OneCall, ConfirmInv, NEW r \in Reqs, AcceptDel(r)
    PROVE  ConfirmInv'
<1> USE OneRequestEach, ConfirmAssumption
<1> USE DEF ConfirmInv, AcceptDel, Goto, SetAccepted, ResolvedAs, keys, taskVars, effects, Gone
<1>1. TypeOK'
  BY DEF TypeOK, Hashes, CallInv, Winning, Declined
<1>2. KeyInv'
  BY DEF TypeOK, KeyInv, CallInv, Hashes
<1>3. TaskInv'
  BY DEF TypeOK, TaskInv, CallInv, Unpunished, Deciding
<1>4. CountInv'
  BY DEF TypeOK, CountInv, CallInv, Unpunished, Winning, Declined
<1>5. ASSUME NEW q \in Reqs PROVE CallInv(q)'
  <2> USE DEF TypeOK, CallInv, Winning, Declined
  <2>1. (pc[q] \in {"del", "decline"} /\ outcome # "open" =>
          pending = Gone /\ shadow = Gone /\ \A x \in Reqs : pc[x] # "set")'
    BY TwoParties DEF KeyInv
  <2>2. (pc[q] \in Winning =>
          /\ outcome = "started" /\ sessions = 0
          /\ rooms = IF pc[q] = "session" THEN 1 ELSE 0
          /\ \A x \in Reqs : x # q => pc[x] \notin Winning)'
    BY DEF CountInv
  <2>3. (pc[q] \in Declined => outcome = q[1] /\ penalised[q[1]] = 0)'
    BY DEF CountInv, Unpunished
  <2>4. (outcome = q[1] => q[1] \notin accepted /\ pc[q] \in Declined \cup {"done"})'
    BY DEF KeyInv
  <2>5. (closed => ~Deciding(q))'
    BY DEF Deciding
  <2> QED
    BY <2>1, <2>2, <2>3, <2>4, <2>5
<1> QED
  BY <1>1, <1>2, <1>3, <1>4, <1>5

\* Cancelling the task leaves the outcome alone.
LEMMA CancelExpiryKeeps ==
    ASSUME OneCall, ConfirmInv, NEW r \in Reqs, CancelExpiry(r)
    PROVE  ConfirmInv'
<1> USE OneRequestEach, ConfirmAssumption
<1> USE DEF ConfirmInv, CancelExpiry, Goto, SetAccepted, ResolvedAs, keys, taskVars, effects, Gone
<1>1. TypeOK'
  BY DEF TypeOK, Hashes, CallInv, Winning, Declined
<1>2. KeyInv'
  BY DEF TypeOK, KeyInv, CallInv, Hashes
<1>3. TaskInv'
  BY DEF TypeOK, TaskInv, CallInv, Unpunished, Deciding
<1>4. CountInv'
  BY DEF TypeOK, CountInv, CallInv, Unpunished, Winning, Declined
<1>5. ASSUME NEW q \in Reqs PROVE CallInv(q)'
  BY TwoParties DEF TypeOK, KeyInv, CallInv, CountInv, Unpunished, Winning, Declined, Deciding, Hashes
<1> QED
  BY <1>1, <1>2, <1>3, <1>4, <1>5

\* The one winner creates the one room.
LEMMA CreateRankedRoomKeeps ==
    ASSUME OneCall, ConfirmInv, NEW r \in Reqs, CreateRankedRoom(r)
    PROVE  ConfirmInv'
<1> USE OneRequestEach, ConfirmAssumption
<1> USE DEF ConfirmInv, CreateRankedRoom, Goto, SetAccepted, ResolvedAs, keys, taskVars, effects, Gone
<1>1. TypeOK'
  BY DEF TypeOK, Hashes, CallInv, Winning, Declined
<1>2. KeyInv'
  BY DEF TypeOK, KeyInv, CallInv, Hashes
<1>3. TaskInv'
  BY DEF TypeOK, TaskInv, CallInv, Unpunished, Deciding
<1>4. CountInv'
  BY DEF TypeOK, CountInv, CallInv, Unpunished, Winning, Declined
<1>5. ASSUME NEW q \in Reqs PROVE CallInv(q)'
  BY TwoParties DEF TypeOK, KeyInv, CallInv, CountInv, Unpunished, Winning, Declined, Deciding, Hashes
<1> QED
  BY <1>1, <1>2, <1>3, <1>4, <1>5

\* The one winner starts the one session.
LEMMA StartSessionKeeps ==
    ASSUME OneCall, ConfirmInv, NEW r \in Reqs, StartSession(r)
    PROVE  ConfirmInv'
<1> USE OneRequestEach, ConfirmAssumption
<1> USE DEF ConfirmInv, StartSession, Goto, SetAccepted, ResolvedAs, keys, taskVars, effects, Gone
<1>1. TypeOK'
  BY DEF TypeOK, Hashes, CallInv, Winning, Declined
<1>2. KeyInv'
  BY DEF TypeOK, KeyInv, CallInv, Hashes
<1>3. TaskInv'
  BY DEF TypeOK, TaskInv, CallInv, Unpunished, Deciding
<1>4. CountInv'
  BY DEF TypeOK, CountInv, CallInv, Unpunished, Winning, Declined
<1>5. ASSUME NEW q \in Reqs PROVE CallInv(q)'
  BY TwoParties DEF TypeOK, KeyInv, CallInv, CountInv, Unpunished, Winning, Declined, Deciding, Hashes
<1> QED
  BY <1>1, <1>2, <1>3, <1>4, <1>5

\* Of two declines the first resolves the match; a decline excludes a start.
LEMMA DeclineDelKeeps ==
    ASSUME OneCall, ConfirmInv, NEW r \in Reqs, DeclineDel(r)
    PROVE  ConfirmInv'
<1> USE OneRequestEach, ConfirmAssumption
<1> USE DEF ConfirmInv, DeclineDel, Goto, SetAccepted, ResolvedAs, keys, taskVars, effects, Gone
<1>1. TypeOK'
  BY DEF TypeOK, Hashes, CallInv, Winning, Declined
<1>2. KeyInv'
  BY DEF TypeOK, KeyInv, CallInv, Hashes
<1>3. TaskInv'
  BY DEF TypeOK, TaskInv, CallInv, Unpunished, Deciding
<1>4. CountInv'
  BY DEF TypeOK, CountInv, CallInv, Unpunished, Winning, Declined
<1>5. ASSUME NEW q \in Reqs PROVE CallInv(q)'
  <2> USE DEF TypeOK, CallInv, Winning, Declined
  <2>1. (pc[q] \in {"del", "decline"} /\ outcome # "open" =>
          pending = Gone /\ shadow = Gone /\ \A x \in Reqs : pc[x] # "set")'
    BY TwoParties DEF KeyInv
  <2>2. (pc[q] \in Winning =>
          /\ outcome = "started" /\ sessions = 0
          /\ rooms = IF pc[q] = "session" THEN 1 ELSE 0
          /\ \A x \in Reqs : x # q => pc[x] \notin Winning)'
    BY DEF CountInv
  <2>3. (pc[q] \in Declined => outcome = q[1] /\ penalised[q[1]] = 0)'
    BY DEF CountInv, Unpunished
  <2>4. (outcome = q[1] => q[1] \notin accepted /\ pc[q] \in Declined \cup {"done"})'
    BY DEF KeyInv
  <2>5. (closed => ~Deciding(q))'
    BY DEF Deciding
  <2> QED
    BY <2>1, <2>2, <2>3, <2>4, <2>5
<1> QED
  BY <1>1, <1>2, <1>3, <1>4, <1>5

\* Putting the partner back changes nothing the others rely on.
LEMMA DeclineRequeueKeeps ==
    ASSUME OneCall, ConfirmInv, NEW r \in Reqs, DeclineRequeue(r)
    PROVE  ConfirmInv'
<1> USE OneRequestEach, ConfirmAssumption
<1> USE DEF ConfirmInv, DeclineRequeue, Goto, SetAccepted, ResolvedAs, keys, taskVars, effects, Gone
<1>1. TypeOK'
  BY DEF TypeOK, Hashes, CallInv, Winning, Declined
<1>2. KeyInv'
  BY DEF TypeOK, KeyInv, CallInv, Hashes
<1>3. TaskInv'
  BY DEF TypeOK, TaskInv, CallInv, Unpunished, Deciding
<1>4. CountInv'
  BY DEF TypeOK, CountInv, CallInv, Unpunished, Winning, Declined
<1>5. ASSUME NEW q \in Reqs PROVE CallInv(q)'
  BY TwoParties DEF TypeOK, KeyInv, CallInv, CountInv, Unpunished, Winning, Declined, Deciding, Hashes
<1> QED
  BY <1>1, <1>2, <1>3, <1>4, <1>5

\* Only the player who declined is at this step, once.
LEMMA DeclinePenaliseKeeps ==
    ASSUME OneCall, ConfirmInv, NEW r \in Reqs, DeclinePenalise(r)
    PROVE  ConfirmInv'
<1> USE OneRequestEach, ConfirmAssumption
<1> USE DEF ConfirmInv, DeclinePenalise, Goto, SetAccepted, ResolvedAs, keys, taskVars, effects, Gone
<1>0. penalised' \in [Parties -> Nat]
  BY DEF TypeOK
<1>1. TypeOK'
  BY <1>0 DEF TypeOK
<1>2. KeyInv'
  BY DEF TypeOK, KeyInv, CallInv, Hashes
<1>3. TaskInv'
  BY DEF TypeOK, TaskInv, CallInv, Unpunished, Declined
<1>4. CountInv'
  BY DEF TypeOK, CountInv, CallInv, Unpunished, Winning, Declined
<1>5. ASSUME NEW q \in Reqs PROVE CallInv(q)'
  BY TwoParties DEF TypeOK, KeyInv, CallInv, CountInv, Unpunished, Winning, Declined, Deciding, Hashes
<1> QED
  BY <1>1, <1>2, <1>3, <1>4, <1>5

\* A request that ends half-way leaves fewer obligations, never more.
LEMMA AbortKeeps ==
    ASSUME OneCall, ConfirmInv, NEW r \in Reqs, Abort(r)
    PROVE  ConfirmInv'
<1> USE OneRequestEach, ConfirmAssumption
<1> USE DEF ConfirmInv, Abort, Goto, SetAccepted, ResolvedAs, keys, taskVars, effects, Gone
<1>1. TypeOK'
  BY DEF TypeOK, Hashes, CallInv, Winning, Declined
<1>2. KeyInv'
  BY DEF TypeOK, KeyInv, CallInv, Hashes
<1>3. TaskInv'
  BY DEF TypeOK, TaskInv, CallInv, Unpunished, Deciding
<1>4. CountInv'
  BY Zenon DEF TypeOK, CountInv, CallInv, Unpunished, Winning, Declined
<1>5. ASSUME NEW q \in Reqs PROVE CallInv(q)'
  BY TwoParties DEF TypeOK, KeyInv, CallInv, CountInv, Unpunished, Winning, Declined, Deciding, Hashes
<1> QED
  BY <1>1, <1>2, <1>3, <1>4, <1>5, Zenon

\* When the window closes nobody is deciding, and the record's TTL takes its ids.
LEMMA WindowClosesKeeps == ASSUME OneCall, ConfirmInv, WindowCloses PROVE ConfirmInv'
<1> USE OneRequestEach, ConfirmAssumption
<1> USE DEF ConfirmInv, WindowCloses, ResolvedAs, keys, taskVars, effects, Gone
<1>1. TypeOK'
  <2>1. /\ pending' = pending \/ (pending' = Gone /\ pending' \in Hashes)
        /\ closed' \in BOOLEAN /\ UNCHANGED <<shadow, taskVars, pc, seen, aborts, effects>>
    BY DEF Hashes
  <2> HIDE DEF WindowCloses, Hashes
  <2> QED
    BY <2>1 DEF TypeOK
<1>2. KeyInv'
  BY Zenon DEF TypeOK, KeyInv, TaskInv, Hashes
<1>3. TaskInv'
  BY DEF TypeOK, TaskInv, KeyInv, CountInv, Unpunished
<1>4. CountInv'
  BY DEF TypeOK, CountInv, TaskInv, Unpunished
<1>5. ASSUME NEW q \in Reqs PROVE CallInv(q)'
  <2>1. TaskInv /\ CallInv(q)
    BY Zenon
  <2> HIDE DEF ConfirmInv
  <2> QED
    BY <2>1 DEF TaskInv, CallInv, OneCall, Winning, Declined, Deciding
<1> QED
  BY <1>1, <1>2, <1>3, <1>4, <1>5

\* The end of the shadow's TTL takes the ids, never the outcome.
LEMMA ShadowExpiresKeeps == ASSUME OneCall, ConfirmInv, ShadowExpires PROVE ConfirmInv'
<1> USE OneRequestEach, ConfirmAssumption
<1> USE DEF ConfirmInv, ShadowExpires, ResolvedAs, keys, taskVars, effects, Gone
<1>1. TypeOK'
  BY DEF TypeOK, Hashes
<1>2. KeyInv'
  BY DEF TypeOK, KeyInv, TaskInv, Hashes
<1>3. TaskInv'
  BY DEF TypeOK, TaskInv, KeyInv, CountInv, Unpunished
<1>4. CountInv'
  BY DEF TypeOK, CountInv, TaskInv, Unpunished
<1>5. ASSUME NEW q \in Reqs PROVE CallInv(q)'
  <2>1. TaskInv /\ CallInv(q)
    BY Zenon
  <2> HIDE DEF ConfirmInv
  <2> QED
    BY <2>1 DEF TaskInv, CallInv, OneCall, Winning, Declined, Deciding
<1> QED
  BY <1>1, <1>2, <1>3, <1>4, <1>5

\* The task reads all acceptors of an open match, or a shadow without ids.
LEMMA ExpiryReadKeeps == ASSUME OneCall, ConfirmInv, ExpiryRead PROVE ConfirmInv'
<1> USE OneRequestEach, ConfirmAssumption
<1> USE DEF ConfirmInv, ExpiryRead, ResolvedAs, keys, taskVars, effects, Gone
<1>1. TypeOK'
  BY DEF TypeOK, Hashes
<1>2. KeyInv'
  BY DEF TypeOK, KeyInv, TaskInv, Hashes
<1>3. TaskInv'
  BY DEF TypeOK, TaskInv, KeyInv, CountInv, Unpunished
<1>4. CountInv'
  BY DEF TypeOK, CountInv, TaskInv, Unpunished
<1>5. ASSUME NEW q \in Reqs PROVE CallInv(q)'
  <2>1. TaskInv /\ CallInv(q)
    BY Zenon
  <2> HIDE DEF ConfirmInv
  <2> QED
    BY <2>1 DEF TaskInv, CallInv, OneCall, Winning, Declined, Deciding
<1> QED
  BY <1>1, <1>2, <1>3, <1>4, <1>5

\* With one acceptor the match was open, and is now expired.
LEMMA ExpiryDelKeeps == ASSUME OneCall, ConfirmInv, ExpiryDel PROVE ConfirmInv'
<1> USE OneRequestEach, ConfirmAssumption
<1> USE DEF ConfirmInv, ExpiryDel, ResolvedAs, keys, taskVars, effects, Gone
<1>1. TypeOK'
  BY DEF TypeOK, Hashes
<1>2. KeyInv'
  BY DEF TypeOK, KeyInv, TaskInv, Hashes
<1>3. TaskInv'
  <2>1. Single(accepted) => \E p \in Parties : accepted = {p}
    BY DEF Single, TypeOK
  <2> QED
    BY <2>1 DEF TypeOK, TaskInv, CountInv, Unpunished
<1>4. CountInv'
  BY DEF TypeOK, CountInv, TaskInv, Unpunished
<1>5. ASSUME NEW q \in Reqs PROVE CallInv(q)'
  <2>1. TaskInv /\ CallInv(q)
    BY Zenon
  <2> HIDE DEF ConfirmInv
  <2> QED
    BY <2>1 DEF TaskInv, CallInv, OneCall, Winning, Declined, Deciding
<1> QED
  BY <1>1, <1>2, <1>3, <1>4, <1>5

\* Putting the acceptor back changes nothing the others rely on.
LEMMA ExpiryRequeueKeeps == ASSUME OneCall, ConfirmInv, ExpiryRequeue PROVE ConfirmInv'
<1> USE OneRequestEach, ConfirmAssumption
<1> USE DEF ConfirmInv, ExpiryRequeue, ResolvedAs, keys, taskVars, effects, Gone
<1>1. TypeOK'
  BY DEF TypeOK, Hashes
<1>2. KeyInv'
  BY Zenon DEF TypeOK, KeyInv, TaskInv, Hashes
<1>3. TaskInv'
  BY DEF TypeOK, TaskInv, KeyInv, CountInv, Unpunished
<1>4. CountInv'
  BY DEF TypeOK, CountInv, TaskInv, Unpunished
<1>5. ASSUME NEW q \in Reqs PROVE CallInv(q)'
  <2>1. TaskInv /\ CallInv(q)
    BY Zenon
  <2> HIDE DEF ConfirmInv
  <2> QED
    BY <2>1 DEF TaskInv, CallInv, OneCall, Winning, Declined, Deciding
<1> QED
  BY <1>1, <1>2, <1>3, <1>4, <1>5, Zenon

\* After the penalty the task is over.
LEMMA ExpiryPenaliseKeeps == ASSUME OneCall, ConfirmInv, ExpiryPenalise PROVE ConfirmInv'
<1> USE OneRequestEach, ConfirmAssumption
<1> USE DEF ConfirmInv, ExpiryPenalise, ResolvedAs, keys, taskVars, effects, Gone
<1>1. TypeOK'
  BY DEF TypeOK, Hashes
<1>2. KeyInv'
  BY Zenon DEF TypeOK, KeyInv, TaskInv, Hashes
<1>3. TaskInv'
  BY DEF TypeOK, TaskInv, KeyInv, CountInv, Unpunished
<1>4. CountInv'
  BY Zenon DEF TypeOK, CountInv, TaskInv, Unpunished
<1>5. ASSUME NEW q \in Reqs PROVE CallInv(q)'
  <2>1. TaskInv /\ CallInv(q)
    BY Zenon
  <2> HIDE DEF ConfirmInv
  <2> QED
    BY <2>1 DEF TaskInv, CallInv, OneCall, Winning, Declined, Deciding
<1> QED
  BY <1>1, <1>2, <1>3, <1>4, <1>5

\* A task delivered again starts from the beginning, with nothing read.
LEMMA ExpiryCrashKeeps == ASSUME OneCall, ConfirmInv, ExpiryCrash PROVE ConfirmInv'
<1> USE OneRequestEach, ConfirmAssumption
<1> USE DEF ConfirmInv, ExpiryCrash, ResolvedAs, keys, taskVars, effects, Gone
<1>1. TypeOK'
  BY DEF TypeOK, Hashes
<1>2. KeyInv'
  BY DEF TypeOK, KeyInv, TaskInv, Hashes
<1>3. TaskInv'
  BY DEF TypeOK, TaskInv, KeyInv, CountInv, Unpunished
<1>4. CountInv'
  BY DEF TypeOK, CountInv, TaskInv, Unpunished
<1>5. ASSUME NEW q \in Reqs PROVE CallInv(q)'
  <2>1. TaskInv /\ CallInv(q)
    BY Zenon
  <2> HIDE DEF ConfirmInv
  <2> QED
    BY <2>1 DEF TaskInv, CallInv, OneCall, Winning, Declined, Deciding
<1> QED
  BY <1>1, <1>2, <1>3, <1>4, <1>5, Zenon

\* Every step keeps the invariant.
LEMMA NextKeeps == ASSUME OneCall, ConfirmInv, [Next]_vars PROVE ConfirmInv'
<1>1. ASSUME NEW r \in Reqs, Request(r) \/ Abort(r) PROVE ConfirmInv'
  BY <1>1, HGetAllPendingKeeps, AcceptSetKeeps, AcceptReloadKeeps, AcceptDelKeeps,
     CancelExpiryKeeps, CreateRankedRoomKeeps, StartSessionKeeps, DeclineDelKeeps,
     DeclineRequeueKeeps, DeclinePenaliseKeeps, AbortKeeps DEF Request
<1>2. CASE WindowCloses \/ ShadowExpires \/ Expiry \/ ExpiryCrash
  BY <1>2, WindowClosesKeeps, ShadowExpiresKeeps, ExpiryReadKeeps, ExpiryDelKeeps,
     ExpiryRequeueKeeps, ExpiryPenaliseKeeps, ExpiryCrashKeeps, Zenon DEF Expiry
<1>3. CASE UNCHANGED vars
  BY <1>3 DEF vars, keys, taskVars, effects, ConfirmInv, TypeOK, KeyInv, TaskInv, CountInv,
              CallInv, Unpunished, Deciding
<1> QED
  BY <1>1, <1>2, <1>3 DEF Next

\* The invariant holds throughout.
LEMMA ConfirmInvariant == OneCall => (Spec => []ConfirmInv)
<1> SUFFICES ASSUME OneCall PROVE Spec => []ConfirmInv
  OBVIOUS
<1>1. Init => ConfirmInv
  BY InitConfirm
<1>2. ConfirmInv /\ [Next]_vars => ConfirmInv'
  BY NextKeeps
<1> QED
  BY <1>1, <1>2, PTL DEF Spec

\* The variables keep their types; there are never more sessions than rooms.
THEOREM ConfirmTyped == OneCall => (Spec => []TypeOK)
<1>1. ConfirmInv => TypeOK
  BY DEF ConfirmInv
<1> QED
  BY <1>1, ConfirmInvariant, PTL

\* Whichever acceptances race, at most one ranked room is created for a match
\* (Accept's DEL, whose count decides who starts it).
THEOREM ConfirmStartsOnce == OneCall => (Spec => []StartedOnce)
<1>1. ConfirmInv => StartedOnce
  BY DEF ConfirmInv, CountInv, StartedOnce
<1> QED
  BY <1>1, ConfirmInvariant, PTL

-----------------------------------------------------------------------------

\* Every step of a request or of the task is a step of MatchPromise, or changes
\* nothing it speaks of.
LEMMA RequestRefines ==
    ASSUME OneCall, ConfirmInv, NEW r \in Reqs, Request(r) \/ Abort(r)
    PROVE  [Promise!Next]_Promise!vars
<1> USE DEF Promise!vars
<1>a. TypeOK /\ CallInv(r)
  BY Zenon DEF ConfirmInv
<1>b. r[1] \in Parties
  BY OneRequestEach, Zenon
<1>1. CASE HGetAllPending(r) \/ AcceptReload(r) \/ CancelExpiry(r) \/ CreateRankedRoom(r) \/ Abort(r)
  BY <1>1 DEF HGetAllPending, AcceptReload, CancelExpiry, CreateRankedRoom, Abort, effects
<1>2. CASE AcceptSet(r)
  <2>1. Promise!Accept(r[1])
    BY <1>2, <1>b DEF AcceptSet, Promise!Accept
  <2> QED
    BY <1>b, <2>1 DEF Promise!Next
<1>3. CASE AcceptDel(r)
  <2>1. Promise!Resolve("started") \/ UNCHANGED Promise!vars
    BY <1>a, <1>3 DEF AcceptDel, ResolvedAs, CallInv, Gone, Promise!Resolve
  <2> QED
    BY <1>b, <2>1, Zenon DEF Promise!Next
<1>4. CASE StartSession(r)
  <2>1. Promise!Start
    BY <1>a, <1>4 DEF StartSession, CallInv, Winning, Promise!Start
  <2> QED
    BY <1>b, <2>1, Zenon DEF Promise!Next
<1>5. CASE DeclineDel(r)
  <2>1. Promise!Resolve(r[1]) \/ UNCHANGED Promise!vars
    BY <1>a, <1>b, <1>5, ConfirmAssumption, Zenon DEF DeclineDel, ResolvedAs, CallInv, Gone, Promise!Resolve
  <2> QED
    BY <1>b, <2>1, Zenon DEF Promise!Next
<1>6. CASE DeclineRequeue(r)
  <2>1. /\ outcome = r[1] /\ seen[r] \subseteq accepted /\ seen[r] \subseteq Parties
        /\ requeued' \cap Parties = (requeued \cap Parties) \cup (seen[r] \ {r[1]})
    BY <1>a, <1>b, <1>6 DEF DeclineRequeue, CallInv, Declined, TypeOK
  <2>2. CASE seen[r] \ {r[1]} = {}
    BY <1>6, <2>1, <2>2 DEF DeclineRequeue
  <2>3. CASE \E p \in Parties : p # r[1] /\ seen[r] \ {r[1]} = {p}
    <3>1. PICK p \in Parties : p # r[1] /\ seen[r] \ {r[1]} = {p}
      BY <2>3
    <3>2. Promise!Requeue(p)
      BY <1>b, <1>6, <2>1, <3>1, ConfirmAssumption DEF DeclineRequeue, Promise!Requeue
    <3> QED
      BY <3>2 DEF Promise!Next
  <2> QED
    BY <1>b, <2>1, <2>2, <2>3, TwoParties
<1>7. CASE DeclinePenalise(r)
  <2>1. outcome = r[1] /\ penalised[r[1]] = 0 /\ penalised[r[1]] + 1 = 1
    BY <1>a, <1>7 DEF DeclinePenalise, CallInv, Declined
  <2>2. penalised' = [penalised EXCEPT ![r[1]] = 1]
    BY <1>7, <2>1 DEF DeclinePenalise
  <2>3. Promise!Penalise(r[1])
    BY <1>b, <1>7, <2>1, <2>2, ConfirmAssumption DEF DeclinePenalise, Promise!Penalise
  <2> QED
    BY <1>b, <2>3 DEF Promise!Next
<1> QED
  BY <1>1, <1>2, <1>3, <1>4, <1>5, <1>6, <1>7 DEF Request

\* The same for the end of the window, of the shadow and for the expiry task.
LEMMA TaskRefines ==
    ASSUME ConfirmInv, WindowCloses \/ ShadowExpires \/ Expiry \/ ExpiryCrash
    PROVE  [Promise!Next]_Promise!vars
<1> USE ConfirmAssumption DEF ConfirmInv, Promise!vars
<1>1. CASE WindowCloses \/ ShadowExpires \/ ExpiryRead \/ ExpiryCrash
  BY <1>1 DEF WindowCloses, ShadowExpires, ExpiryRead, ExpiryCrash, effects
<1>2. CASE ExpiryDel
  <2>1. Promise!Resolve("expired") \/ UNCHANGED Promise!vars
    BY <1>2 DEF ExpiryDel, ResolvedAs, Promise!Resolve
  <2> QED
    BY <2>1 DEF Promise!Next
<1>3. CASE task \in {"requeue", "penalise"} /\ taskSeen = {"nil"} /\ (ExpiryRequeue \/ ExpiryPenalise)
  <2>1. taskSeen \cap Parties = {} /\ \A p \in Parties : taskSeen # Parties \ {p}
    BY <1>3
  <2>2. ExpiryPenalise => penalised' = penalised
    BY <2>1 DEF ExpiryPenalise, TypeOK
  <2> QED
    BY <1>3, <2>1, <2>2 DEF ExpiryRequeue, ExpiryPenalise
<1>4. CASE \E p \in Parties : /\ outcome = "expired" /\ taskSeen = {p} /\ accepted = {p} /\ Unpunished
                              /\ ExpiryRequeue \/ ExpiryPenalise
  <2>1. PICK p \in Parties : /\ outcome = "expired" /\ taskSeen = {p} /\ accepted = {p} /\ Unpunished
                             /\ ExpiryRequeue \/ ExpiryPenalise
    BY <1>4
  <2>2. PICK q \in Parties : q # p /\ Parties = {p, q}
    BY <2>1, TwoParties
  <2>3. CASE ExpiryRequeue
    <3>1. Promise!Requeue(p) \/ UNCHANGED Promise!vars
      BY <2>1, <2>3 DEF ExpiryRequeue, Promise!Requeue
    <3> QED
      BY <3>1 DEF Promise!Next
  <2>4. CASE ExpiryPenalise
    <3>1. taskSeen = Parties \ {q} /\ taskSeen # Parties \ {p}
      BY <2>1, <2>2
    <3>2. penalised' = [x \in Parties |-> IF x = q THEN 1 ELSE penalised[x]]
      BY <2>1, <2>2, <2>4, <3>1 DEF ExpiryPenalise, Unpunished
    <3>3. penalised' = [penalised EXCEPT ![q] = 1]
      BY <3>2, Zenon DEF TypeOK
    <3>4. q \notin accepted /\ penalised[q] = 0
      BY <2>1, <2>2 DEF Unpunished
    <3>5. Promise!Penalise(q)
      BY <2>1, <2>4, <3>3, <3>4, Zenon DEF ExpiryPenalise, Promise!Penalise
    <3> QED
      BY <3>5 DEF Promise!Next
  <2> QED
    BY <2>1, <2>3, <2>4
<1>5. CASE ExpiryRequeue \/ ExpiryPenalise
  <2>1. task \in {"requeue", "penalise"} /\ TaskInv
    BY <1>5, Zenon DEF ExpiryRequeue, ExpiryPenalise
  <2> HIDE DEF ConfirmInv
  <2> QED
    BY <1>3, <1>4, <1>5, <2>1, Zenon DEF TaskInv
<1> HIDE DEF ConfirmInv, Promise!vars
<1> QED
  BY <1>1, <1>2, <1>5, Zenon DEF Expiry

\* The two Redis records, the requests of both players and the expiry task together
\* implement MatchPromise: one outcome, one start of a match both accepted, one penalty
\* for who declined or let it pass, and only acceptors back in the queue.
THEOREM ConfirmKeepsPromise == OneCall => (Spec => PromiseKept)
<1> SUFFICES ASSUME OneCall PROVE Spec => PromiseKept
  OBVIOUS
<1>1. Init => Promise!Init
  BY DEF Init, Promise!Init
<1>2. ConfirmInv /\ [Next]_vars => [Promise!Next]_Promise!vars
  <2>1. UNCHANGED vars => UNCHANGED Promise!vars
    BY DEF vars, effects, Promise!vars
  <2> QED
    BY <2>1, RequestRefines, TaskRefines DEF Next
<1> QED
  BY <1>1, <1>2, ConfirmInvariant, PTL DEF Spec, PromiseKept, Promise!Spec
=============================================================================
