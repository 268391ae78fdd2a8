---------------------------- MODULE WindowProofs ----------------------------
(***************************************************************************)
(* The two sliding windows the services keep in Redis.  The window of the  *)
(* rate limiter, for any limit and any length.  And the bans for           *)
(* declining: what a caller found in the window is still there when it     *)
(* counts (RecentIsNat to DeclineInvariant).                               *)
(***************************************************************************)
EXTENDS RateLimit, DeclineBan, FiniteSetTheorems, TLAPS

\* The time a leaf that names no prover may take.
USE SMTT(60), ZenonT(20)

(***************************************************************************)
(* The sliding-window limiter, for any number of requests, any limit and   *)
(* any window.                                                             *)
(***************************************************************************)
RateNext == Elapse \/ \E r \in Requests : Arrive(r) \/ allow(r)

RateSpec == RateInit /\ [][RateNext]_rateVars

RateTyped ==
    /\ instant \in 0 .. MaxInstant /\ expires \in Nat /\ overtaken \in BOOLEAN
    /\ request \in [Requests -> [at : 0 .. MaxInstant,
                                 state : {"new", "running", "allowed", "refused", "open"}]]
    /\ window \subseteq 0 .. MaxInstant
    /\ \A r \in Requests : request[r].state # "new" => request[r].at <= instant
    /\ \A m \in window : m <= instant /\ m + WindowLength <= expires

Times == {request[r].at : r \in Admitted}

Counted(r) == request[r].state \in {"allowed", "refused"}

\* What the sorted set has dropped concerns no script still to run, unless a request
\* with a later reading has been counted before it.
Tracked ==
    /\ window \subseteq Times
    /\ \A m \in Times \ window :
          /\ m + WindowLength <= instant
          /\ \A r \in Requests : request[r].state = "running" =>
                \/ \E q \in Requests : Counted(q) /\ request[q].at > request[r].at
                \/ m + WindowLength <= request[r].at

RateInv == RateTyped /\ (~overtaken => Tracked) /\ LimitSound

\* The instants of the window that ends at t.
Span(t) == t - WindowLength + 1 .. t

LEMMA TimesTyped == ASSUME RateTyped PROVE Times \subseteq 0 .. MaxInstant
<1>1. \A q \in Requests : request[q].at \in 0 .. MaxInstant
      BY DEF RateTyped
<1> QED
      BY <1>1 DEF Times, Admitted

LEMMA BeforeSpan ==
    ASSUME NEW m \in Nat, NEW t \in Nat, m <= t, m \notin Span(t)
    PROVE  m + WindowLength <= t
      BY RateAssumption DEF Span

LEMMA SpanFinite ==
    ASSUME RateTyped, NEW t \in 0 .. MaxInstant
    PROVE  /\ IsFiniteSet(Times \cap Span(t)) /\ Cardinality(Times \cap Span(t)) \in Nat
<1>1. t - WindowLength + 1 \in Int /\ t \in Int
      BY RateAssumption
<1>2. IsFiniteSet(Span(t))
      BY <1>1, FS_Interval DEF Span
<1>3. IsFiniteSet(Times \cap Span(t))
      BY <1>2, FS_Subset
<1> QED
      BY <1>3, FS_CardinalityType

LEMMA WindowFinite ==
    ASSUME RateTyped, NEW S \in SUBSET window
    PROVE  IsFiniteSet(S) /\ Cardinality(S) \in Nat
<1>1. IsFiniteSet(0 .. MaxInstant)
      BY RateAssumption, FS_Interval
<1>2. S \subseteq 0 .. MaxInstant
      BY DEF RateTyped
<1>3. IsFiniteSet(S)
      BY <1>1, <1>2, FS_Subset, Zenon
<1> QED
      BY <1>3, FS_CardinalityType

\* A step that counts no request and admits none.
LEMMA NoneCounted ==
    ASSUME RateInv, RateTyped',
           \A r \in Requests : /\ Counted(r)' <=> Counted(r)
                               /\ request'[r].state = "allowed" <=> request[r].state = "allowed"
                               /\ Counted(r) => request'[r] = request[r],
           overtaken => overtaken'
    PROVE  LimitSound' /\ Times' = Times
<1>1. Admitted' = Admitted /\ \A r \in Admitted : request'[r] = request[r]
      BY DEF Admitted, Counted
<1>2. Times' = Times
      BY <1>1 DEF Times
<1>3. WindowHolds'
      BY <1>2 DEF RateInv, LimitSound, WindowHolds, Times
<1>4. ASSUME NEW r \in Requests, request'[r].state = "refused"
      PROVE  request[r].state = "refused" /\ request'[r].at = request[r].at
      BY <1>4 DEF Counted
<1>5. RefusedForCause'
      BY <1>2, <1>4, Zenon DEF RateInv, LimitSound, RefusedForCause, Times
<1> QED
      BY <1>2, <1>3, <1>5 DEF LimitSound

LEMMA ElapseKeeps == ASSUME RateInv, Elapse PROVE RateInv'
<1>1. /\ instant < MaxInstant /\ instant' = instant + 1 /\ request' = request /\ expires' = expires
      /\ window' = IF expires <= instant' THEN {} ELSE window
      /\ overtaken' = (overtaken \/ \E r \in Requests, m \in window \ window' :
             request[r].state = "running" /\ m > request[r].at - WindowLength)
      BY DEF Elapse
<1>2. RateTyped'
  <2>1. overtaken' \in BOOLEAN
        BY <1>1
  <2>2. instant' = instant + 1 /\ instant < MaxInstant /\ UNCHANGED <<request, expires>> /\ window' \subseteq window
        BY <1>1
  <2> QED
        BY <2>1, <2>2, RateAssumption DEF RateInv, RateTyped
<1>3. overtaken => overtaken'
      BY <1>1, Zenon
<1>4. \A r \in Requests : (Counted(r)' <=> Counted(r)) /\ request'[r] = request[r]
      BY <1>1 DEF Counted
<1>5. LimitSound' /\ Times' = Times
      BY <1>2, <1>3, <1>4, NoneCounted
<1>6. ASSUME ~overtaken'
      PROVE  Tracked'
  <2>1. ~overtaken /\ Tracked
        BY <1>3, <1>6 DEF RateInv
  <2>2. window' \subseteq Times'
        BY <1>1, <1>5, <2>1 DEF Tracked
  <2>3. ASSUME NEW m \in Times' \ window'
        PROVE  /\ m + WindowLength <= instant'
               /\ \A r \in Requests : request'[r].state = "running" =>
                     \/ \E q \in Requests : Counted(q)' /\ request'[q].at > request'[r].at
                     \/ m + WindowLength <= request'[r].at
    <3>1. CASE m \notin window
      <4>1. m \in Nat
            BY <1>5, <2>3, TimesTyped DEF RateInv
      <4>2. /\ m + WindowLength <= instant
            /\ \A r \in Requests : request[r].state = "running" =>
                  \/ \E q \in Requests : Counted(q) /\ request[q].at > request[r].at
                  \/ m + WindowLength <= request[r].at
            BY <1>5, <2>1, <2>3, <3>1 DEF Tracked
      <4>3. m + WindowLength <= instant'
            BY <1>1, <4>1, <4>2, RateAssumption DEF RateInv, RateTyped
      <4> QED
            BY <1>1, <1>4, <4>2, <4>3
    <3>2. CASE m \in window
      <4>1. m \in Nat /\ m + WindowLength <= expires /\ expires <= instant' /\ expires \in Nat /\ instant' \in Nat
            BY <1>1, <1>2, <2>3, <3>2 DEF RateInv, RateTyped
      <4>2. m + WindowLength <= instant'
            BY <4>1, RateAssumption
      <4>3. ASSUME NEW r \in Requests, request[r].state = "running"
            PROVE  m + WindowLength <= request[r].at
        <5>1. ~(m > request[r].at - WindowLength)
              BY <1>1, <1>6, <2>3, <3>2, <4>3, Zenon
        <5>2. request[r].at \in Nat
              BY DEF RateInv, RateTyped
        <5> QED
              BY <4>1, <5>1, <5>2, RateAssumption
      <4> QED
            BY <1>1, <4>2, <4>3
    <3> QED
          BY <3>1, <3>2
  <2> QED
        BY <2>2, <2>3 DEF Tracked
<1> QED
      BY <1>2, <1>5, <1>6 DEF RateInv

LEMMA ArriveKeeps == ASSUME RateInv, NEW r \in Requests, Arrive(r) PROVE RateInv'
<1>1. /\ request[r].state = "new" /\ UNCHANGED <<instant, window, expires, overtaken>>
      /\ request' = [request EXCEPT ![r] = [at |-> instant, state |-> "running"]]
      BY DEF Arrive
<1>2. RateTyped'
      BY <1>1, RateAssumption DEF RateInv, RateTyped
<1>3. /\ \A q \in Requests : q # r => request'[q] = request[q]
      /\ request'[r].at = instant /\ request'[r].state = "running"
      BY <1>1 DEF RateInv, RateTyped
<1>4. ASSUME NEW q \in Requests
      PROVE  /\ Counted(q)' <=> Counted(q)
             /\ request'[q].state = "allowed" <=> request[q].state = "allowed"
             /\ Counted(q) => request'[q] = request[q]
  <2>1. CASE q = r
        BY <1>1, <1>3, <2>1 DEF Counted
  <2>2. CASE q # r
        BY <1>3, <2>2 DEF Counted
  <2> QED
        BY <2>1, <2>2
<1>5. LimitSound' /\ Times' = Times
      BY <1>1, <1>2, <1>4, NoneCounted
<1>6. ASSUME ~overtaken
      PROVE  Tracked'
  <2>1. Tracked
        BY <1>6 DEF RateInv
  <2>2. window' \subseteq Times'
        BY <1>1, <1>5, <2>1 DEF Tracked
  <2>3. ASSUME NEW m \in Times' \ window'
        PROVE  /\ m + WindowLength <= instant'
               /\ \A p \in Requests : request'[p].state = "running" =>
                     \/ \E q \in Requests : Counted(q)' /\ request'[q].at > request'[p].at
                     \/ m + WindowLength <= request'[p].at
    <3>1. /\ m + WindowLength <= instant
          /\ \A p \in Requests : request[p].state = "running" =>
                \/ \E q \in Requests : Counted(q) /\ request[q].at > request[p].at
                \/ m + WindowLength <= request[p].at
          BY <1>1, <1>5, <2>1, <2>3 DEF Tracked
    <3>2. ASSUME NEW p \in Requests, request'[p].state = "running"
          PROVE  \/ \E q \in Requests : Counted(q)' /\ request'[q].at > request'[p].at
                 \/ m + WindowLength <= request'[p].at
      <4>1. CASE p = r
            BY <1>3, <3>1, <4>1
      <4>2. CASE p # r
        <5>1. request'[p] = request[p]
              BY <1>3, <4>2
        <5>2. \/ \E q \in Requests : Counted(q) /\ request[q].at > request[p].at
              \/ m + WindowLength <= request[p].at
              BY <3>1, <3>2, <5>1
        <5> QED
              BY <1>4, <5>1, <5>2
      <4> QED
            BY <4>1, <4>2
    <3> QED
          BY <1>1, <3>1, <3>2
  <2> QED
        BY <2>2, <2>3 DEF Tracked
<1> QED
      BY <1>1, <1>2, <1>5, <1>6 DEF RateInv

\* A script that was not overtaken sees every admitted request of its window.
LEMMA ScriptSees ==
    ASSUME RateInv, NEW r \in Requests, request[r].state = "running", ~overtaken,
           \A q \in Requests : Counted(q) => request[q].at <= request[r].at
    PROVE  /\ {m \in window : m > request[r].at - WindowLength} = Times \cap Span(request[r].at)
           /\ \A m \in Times : m \in Nat /\ m <= request[r].at
<1> DEFINE stamp == request[r].at
<1>1. stamp \in Nat /\ Tracked
      BY DEF RateInv, RateTyped
<1>2. ASSUME NEW m \in Times
      PROVE  m \in Nat /\ m <= stamp
      BY DEF Times, Admitted, Counted, RateInv, RateTyped
<1>3. ASSUME NEW m \in window, m > stamp - WindowLength
      PROVE  m \in Times \cap Span(stamp)
      BY <1>1, <1>2, <1>3, RateAssumption DEF Tracked, Span
<1>4. ASSUME NEW m \in Times \cap Span(stamp)
      PROVE  m \in window /\ m > stamp - WindowLength
  <2>1. m > stamp - WindowLength /\ ~(m + WindowLength <= stamp)
        BY <1>1, <1>2, RateAssumption DEF Span
  <2>2. ~\E q \in Requests : Counted(q) /\ request[q].at > stamp
        BY <1>1 DEF RateInv, RateTyped
  <2>3. m \in window
        BY <1>1, <2>1, <2>2 DEF Tracked
  <2> QED
        BY <2>1, <2>3
<1> QED
      BY <1>2, <1>3, <1>4

\* A script that admits a request.
LEMMA AdmitKeeps ==
    ASSUME RateInv, NEW r \in Requests, request[r].state = "running", ~overtaken,
           \A q \in Requests : Counted(q) => request[q].at <= request[r].at,
           Cardinality({m \in window : m > request[r].at - WindowLength}) < Limit,
           Times' = Times \cup {request[r].at},
           \A q \in Requests : request'[q].state = "refused"
                                  => request[q].state = "refused" /\ request'[q] = request[q]
    PROVE  LimitSound'
<1> DEFINE stamp == request[r].at
<1>1. RateTyped /\ stamp \in 0 .. MaxInstant
      BY DEF RateInv, RateTyped
<1>2. /\ Cardinality(Times \cap Span(stamp)) < Limit
      /\ \A m \in Times : m \in Nat /\ m <= stamp
      BY ScriptSees, Zenon
<1>3. ASSUME NEW t \in 0 .. MaxInstant
      PROVE  Cardinality(Times' \cap Span(t)) <= Limit
  <2>1. CASE t < stamp
    <3>1. Times' \cap Span(t) = Times \cap Span(t)
          BY <1>1, <2>1, RateAssumption DEF Span
    <3> QED
          BY <3>1 DEF RateInv, LimitSound, WindowHolds, Times, Span
  <2>2. CASE t >= stamp
    <3> DEFINE most == (Times \cap Span(stamp)) \cup {stamp}
    <3>1. IsFiniteSet(Times \cap Span(stamp)) /\ Cardinality(Times \cap Span(stamp)) \in Nat
          BY <1>1, SpanFinite
    <3>2. IsFiniteSet(most) /\ Cardinality(most) <= Cardinality(Times \cap Span(stamp)) + 1
      <4>1. /\ IsFiniteSet(most)
            /\ Cardinality(most) = IF stamp \in Times \cap Span(stamp) THEN Cardinality(Times \cap Span(stamp))
                                   ELSE Cardinality(Times \cap Span(stamp)) + 1
            BY <3>1, FS_AddElement, Zenon
      <4> HIDE DEF most
      <4>2. CASE stamp \in Times \cap Span(stamp)
            BY <3>1, <4>1, <4>2
      <4>3. CASE stamp \notin Times \cap Span(stamp)
            BY <3>1, <4>1, <4>3
      <4> QED
            BY <4>2, <4>3
    <3>3. Times' \cap Span(t) \subseteq most
      <4> SUFFICES ASSUME NEW m \in Times' \cap Span(t), m # stamp
                   PROVE  m \in Times \cap Span(stamp)
            OBVIOUS
      <4>1. m \in Times /\ m \in Nat /\ m <= stamp
            BY <1>2
      <4>2. m >= t - WindowLength + 1
            BY DEF Span
      <4>3. m \in Span(stamp)
            BY <1>1, <2>2, <4>1, <4>2, RateAssumption DEF Span
      <4> QED
            BY <4>1, <4>3
    <3> HIDE DEF most
    <3>4. Cardinality(Times' \cap Span(t)) <= Cardinality(most) /\ Cardinality(Times' \cap Span(t)) \in Nat
          BY <3>2, <3>3, FS_Subset, FS_CardinalityType
    <3>5. Cardinality(most) \in Nat
          BY <3>2, FS_CardinalityType
    <3> QED
          BY <1>2, <3>1, <3>2, <3>4, <3>5, RateAssumption
  <2> QED
        BY <1>1, <2>1, <2>2
<1>4. WindowHolds'
      BY <1>3 DEF WindowHolds, Times, Span
<1>5. ASSUME NEW q \in Requests, request'[q].state = "refused"
      PROVE  Cardinality(Times' \cap Span(request'[q].at)) = Limit
  <2>1. request[q].state = "refused" /\ request'[q].at = request[q].at
        BY <1>5
  <2>2. Cardinality(Times \cap Span(request[q].at)) = Limit
        BY <2>1 DEF RateInv, LimitSound, RefusedForCause, Times, Span
  <2>3. request[q].at \in Nat /\ request[q].at <= stamp /\ request[q].at # stamp
    <3>1. request[q].at # stamp
      <4> SUFFICES ASSUME request[q].at = stamp PROVE FALSE
            OBVIOUS
      <4>1. Cardinality(Times \cap Span(stamp)) = Limit
            BY <2>2, Zenon
      <4> QED
            BY <1>2, <4>1, RateAssumption
    <3>2. request[q].at \in Nat /\ request[q].at <= stamp
          BY <2>1 DEF Counted, RateInv, RateTyped
    <3> QED
          BY <3>1, <3>2
  <2>4. stamp \notin Span(request[q].at)
        BY <1>1, <2>3, RateAssumption DEF Span
  <2>5. Times' \cap Span(request[q].at) = Times \cap Span(request[q].at)
        BY <2>4
  <2> QED
        BY <2>1, <2>2, <2>5, Zenon
<1>6. RefusedForCause'
      BY <1>5, Zenon DEF RefusedForCause, Times, Span
<1> QED
      BY <1>4, <1>6 DEF LimitSound

\* A script that refuses one.
LEMMA RefuseKeeps ==
    ASSUME RateInv, NEW r \in Requests, request[r].state = "running", ~overtaken,
           \A q \in Requests : Counted(q) => request[q].at <= request[r].at,
           ~(Cardinality({m \in window : m > request[r].at - WindowLength}) < Limit),
           Times' = Times,
           \A q \in Requests : request'[q].state = "refused"
                  => request'[q].at = request[q].at /\ (q # r => request[q].state = "refused")
    PROVE  LimitSound'
<1> DEFINE stamp == request[r].at
<1>1. RateTyped /\ stamp \in 0 .. MaxInstant
      BY DEF RateInv, RateTyped
<1>2. ~(Cardinality(Times \cap Span(stamp)) < Limit)
      BY ScriptSees, Zenon
<1>3. Cardinality(Times \cap Span(stamp)) <= Limit /\ Cardinality(Times \cap Span(stamp)) \in Nat
  <2>1. \A t \in 0 .. MaxInstant : Cardinality(Times \cap Span(t)) <= Limit
        BY Zenon DEF RateInv, LimitSound, WindowHolds, Times, Span
  <2>2. QED
        BY <1>1, <2>1, SpanFinite, Zenon
<1>4. Cardinality(Times \cap Span(stamp)) = Limit
      BY <1>2, <1>3, RateAssumption
<1>5. WindowHolds'
      BY Zenon DEF RateInv, LimitSound, WindowHolds, Times
<1>6. ASSUME NEW q \in Requests, request'[q].state = "refused"
      PROVE  Cardinality(Times' \cap Span(request'[q].at)) = Limit
  <2>1. CASE q = r
        BY <1>4, <1>6, <2>1, Zenon
  <2>2. CASE q # r
        BY <1>6, <2>2, Zenon DEF RateInv, LimitSound, RefusedForCause, Times, Span
  <2> QED
        BY <2>1, <2>2
<1>7. RefusedForCause'
      BY <1>6 DEF RefusedForCause, Times, Span
<1> QED
      BY <1>5, <1>7 DEF LimitSound

LEMMA ScriptKeeps ==
    ASSUME RateInv, NEW r \in Requests, request[r].state = "running", Script(r), UNCHANGED instant,
           overtaken' = (overtaken \/ \E q \in Requests :
               request[q].state \in {"allowed", "refused"} /\ request[q].at > request[r].at)
    PROVE  RateInv'
<1> DEFINE stamp == request[r].at
<1> DEFINE kept == {m \in window : m > stamp - WindowLength}
<1> DEFINE enough == Cardinality(kept) < Limit
<1>1. /\ request' = [request EXCEPT ![r].state = IF enough THEN "allowed" ELSE "refused"]
      /\ window' = IF enough THEN kept \cup {stamp} ELSE kept
      /\ expires' = IF enough THEN instant + WindowLength ELSE expires
      BY DEF Script
<1>2. /\ \A q \in Requests : q # r => request'[q] = request[q]
      /\ request'[r].at = stamp /\ request'[r].state = IF enough THEN "allowed" ELSE "refused"
      /\ stamp \in 0 .. MaxInstant /\ stamp <= instant
      BY <1>1 DEF RateInv, RateTyped
<1>3. overtaken' \in BOOLEAN
      OBVIOUS
<1>4. RateTyped'
  <2>1. request' \in [Requests -> [at : 0 .. MaxInstant,
                                   state : {"new", "running", "allowed", "refused", "open"}]]
        BY <1>1 DEF RateInv, RateTyped
  <2>2. \A q \in Requests : request'[q].state # "new" => request'[q].at <= instant
        BY <1>2 DEF RateInv, RateTyped
  <2>3. window' \subseteq 0 .. MaxInstant /\ expires' \in Nat
        BY <1>1, <1>2, RateAssumption DEF RateInv, RateTyped
  <2>4. ASSUME NEW m \in window'
        PROVE  m <= instant /\ m + WindowLength <= expires'
    <3>1. m \in Nat /\ instant \in Nat /\ m <= instant /\ (m \in window => m + WindowLength <= expires)
          BY <1>1, <1>2, <2>3 DEF RateInv, RateTyped
    <3> QED
          BY <1>1, <3>1, RateAssumption
  <2> QED
        BY <1>3, <2>1, <2>2, <2>3, <2>4 DEF RateInv, RateTyped
<1>5. Times' = IF enough THEN Times \cup {stamp} ELSE Times
  <2>1. Admitted' = IF enough THEN Admitted \cup {r} ELSE Admitted
        BY <1>2, Zenon DEF Admitted
  <2>2. \A q \in Admitted : request'[q].at = request[q].at
        BY <1>2 DEF Admitted
  <2>3. CASE enough
    <3>1. Times' = {request'[q].at : q \in Admitted \cup {r}}
          BY <2>1, <2>3 DEF Times
    <3>2. {request'[q].at : q \in Admitted \cup {r}} = {request'[q].at : q \in Admitted} \cup {stamp}
          BY <1>2
    <3>3. {request'[q].at : q \in Admitted} = Times
          BY <2>2 DEF Times
    <3> QED
          BY <2>3, <3>1, <3>2, <3>3
  <2>4. CASE ~enough
    <3>1. Times' = {request'[q].at : q \in Admitted}
          BY <2>1, <2>4 DEF Times
    <3> QED
          BY <2>2, <2>4, <3>1 DEF Times
  <2> QED
        BY <2>3, <2>4
<1>6. ASSUME ~overtaken'
      PROVE  ~overtaken /\ Tracked /\ \A q \in Requests : Counted(q) => request[q].at <= stamp
  <2>1. ~overtaken /\ ~\E q \in Requests : Counted(q) /\ request[q].at > stamp
        BY <1>6, Zenon DEF Counted
  <2>2. \A q \in Requests : request[q].at \in Nat
        BY DEF RateInv, RateTyped
  <2>3. \A q \in Requests : Counted(q) => request[q].at <= stamp
        BY <1>2, <2>1, <2>2
  <2> QED
        BY <2>1, <2>3 DEF RateInv
<1>7. LimitSound'
  <2>1. CASE overtaken'
        BY <2>1 DEF LimitSound, WindowHolds, RefusedForCause
  <2>2. CASE ~overtaken' /\ enough
    <3>1. \A q \in Requests : request'[q].state = "refused"
                                 => request[q].state = "refused" /\ request'[q] = request[q]
          BY <1>2, <2>2
    <3> QED
          BY <1>5, <1>6, <2>2, <3>1, AdmitKeeps
  <2>3. CASE ~overtaken' /\ ~enough
    <3>1. \A q \in Requests : request'[q].state = "refused"
                  => request'[q].at = request[q].at /\ (q # r => request[q].state = "refused")
          BY <1>2, <2>3
    <3> QED
          BY <1>5, <1>6, <2>3, <3>1, RefuseKeeps
  <2> QED
        BY <2>1, <2>2, <2>3
<1>8. ASSUME ~overtaken'
      PROVE  Tracked'
  <2>1. window' \subseteq Times'
        BY <1>1, <1>5, <1>6, <1>8 DEF Tracked
  <2>2. ASSUME NEW m \in Times' \ window'
        PROVE  /\ m + WindowLength <= instant'
               /\ \A p \in Requests : request'[p].state = "running" =>
                     \/ \E q \in Requests : Counted(q)' /\ request'[q].at > request'[p].at
                     \/ m + WindowLength <= request'[p].at
    <3>1. m \in Times /\ m \notin kept
          BY <1>1, <1>5, <2>2
    <3>5. m \in Nat
          BY <3>1, TimesTyped DEF RateInv
    <3>6. stamp \in Nat /\ WindowLength \in Nat /\ stamp <= instant
          BY <1>2, RateAssumption
    <3>2. m + WindowLength <= stamp
      <4>1. m \notin Times \cap Span(stamp) /\ m <= stamp
            BY <1>6, <1>8, <3>1, ScriptSees
      <4> QED
            BY <3>1, <3>5, <3>6, <4>1, BeforeSpan
    <3>3. ASSUME NEW p \in Requests, request'[p].state = "running"
          PROVE  \/ \E q \in Requests : Counted(q)' /\ request'[q].at > request'[p].at
                 \/ m + WindowLength <= request'[p].at
      <4>1. p # r /\ request'[p].at \in Nat /\ Counted(r)' /\ request'[r].at = stamp
            BY <1>2, <1>4, <3>3 DEF Counted, RateTyped
      <4> HIDE DEF stamp
      <4>2. CASE stamp > request'[p].at
            BY <4>1, <4>2
      <4>3. CASE stamp <= request'[p].at
            BY <3>2, <3>5, <3>6, <4>1, <4>3
      <4> QED
            BY <3>6, <4>1, <4>2, <4>3
    <3>4. instant' \in Nat /\ instant' = instant
          BY <1>4 DEF RateTyped
    <3>7. m + WindowLength <= instant'
          BY <3>2, <3>4, <3>5, <3>6
    <3> QED
          BY <3>3, <3>7
  <2> QED
        BY <2>1, <2>2 DEF Tracked
<1> QED
      BY <1>4, <1>7, <1>8 DEF RateInv

\* Without Redis nothing is counted.
LEMMA OpenKeeps ==
    ASSUME RateInv, NEW r \in Requests, request[r].state = "running",
           request' = [request EXCEPT ![r].state = "open"], UNCHANGED <<instant, window, expires>>,
           overtaken => overtaken', overtaken' \in BOOLEAN
    PROVE  RateInv'
<1>1. /\ \A q \in Requests : q # r => request'[q] = request[q]
      /\ request'[r].at = request[r].at /\ request'[r].state = "open"
      BY DEF RateInv, RateTyped
<1>2. RateTyped'
      BY <1>1 DEF RateInv, RateTyped
<1>3. ASSUME NEW q \in Requests
      PROVE  /\ Counted(q)' <=> Counted(q)
             /\ request'[q].state = "allowed" <=> request[q].state = "allowed"
             /\ Counted(q) => request'[q] = request[q]
             /\ request'[q].state = "running" => request[q].state = "running"
             /\ request'[q].at = request[q].at
      BY <1>1 DEF Counted
<1>4. LimitSound' /\ Times' = Times
      BY <1>2, <1>3, NoneCounted
<1>5. ASSUME ~overtaken'
      PROVE  Tracked'
  <2>1. Tracked
        BY <1>5 DEF RateInv
  <2> QED
        BY <1>3, <1>4, <2>1 DEF Tracked
<1> QED
      BY <1>2, <1>4, <1>5 DEF RateInv

LEMMA allowKeeps == ASSUME RateInv, NEW r \in Requests, allow(r) PROVE RateInv'
<1> DEFINE late == \E q \in Requests :
               request[q].state \in {"allowed", "refused"} /\ request[q].at > request[r].at
<1>1. request[r].state = "running" /\ UNCHANGED instant /\ overtaken' = (overtaken \/ late)
      BY DEF allow
<1>2. CASE Script(r)
      BY <1>1, <1>2, ScriptKeeps
<1>3. CASE request' = [request EXCEPT ![r].state = "open"] /\ UNCHANGED <<window, expires>>
  <2>1. overtaken' \in BOOLEAN /\ (overtaken => overtaken')
        BY <1>1, Zenon
  <2> QED
        BY <1>1, <1>3, <2>1, OpenKeeps, Zenon
<1> QED
      BY <1>2, <1>3 DEF allow

LEMMA NoRequests == RateInit => RateInv
<1> SUFFICES ASSUME RateInit PROVE RateInv
      OBVIOUS
<1>1. RateTyped
  <2>1. 0 \in 0 .. MaxInstant /\ 0 <= 0
        BY RateAssumption
  <2>2. \A r \in Requests : request[r].state = "new"
        BY DEF RateInit
  <2>3. request \in [Requests -> [at : 0 .. MaxInstant,
                                  state : {"new", "running", "allowed", "refused", "open"}]]
        BY <2>1 DEF RateInit
  <2> QED
        BY <2>1, <2>2, <2>3, Zenon DEF RateInit, RateTyped
<1>2. Times = {}
      BY DEF RateInit, Times, Admitted
<1>3. Tracked
      BY <1>2 DEF RateInit, Tracked
<1>4. WindowHolds
  <2>1. Cardinality({}) = 0 /\ 0 <= Limit
        BY FS_EmptySet, RateAssumption
  <2>2. \A t \in 0 .. MaxInstant : Times \cap Span(t) = {}
        BY <1>2
  <2>3. \A t \in 0 .. MaxInstant : Cardinality(Times \cap Span(t)) <= Limit
        BY <2>1, <2>2
  <2> QED
        BY <2>3 DEF WindowHolds, Times, Span
<1>5. RefusedForCause
      BY DEF RateInit, RefusedForCause
<1> QED
      BY <1>1, <1>3, <1>4, <1>5 DEF RateInv, LimitSound

LEMMA StillRate == ASSUME RateInv, UNCHANGED rateVars PROVE RateInv'
<1>1. UNCHANGED <<instant, request, window, expires, overtaken>>
      BY DEF rateVars
<1>2. RateTyped' /\ LimitSound'
      BY <1>1 DEF RateInv, RateTyped, Admitted, LimitSound, WindowHolds, RefusedForCause
<1>3. Times' = Times /\ \A q \in Requests : Counted(q)' = Counted(q)
      BY <1>1 DEF Times, Admitted, Counted
<1>4. Tracked' = Tracked
      BY <1>1, <1>3 DEF Tracked
<1> QED
      BY <1>1, <1>2, <1>4 DEF RateInv

(* middleware.go, for any number of requests, any limit and any window:    *)
(* requests of at most Limit instants of a window are admitted, and a      *)
(* request is refused only when that many were, unless scripts overtook    *)
(* one another.                                                            *)
THEOREM LimiterSound == RateSpec => []LimitSound
<1>1. RateInv /\ [RateNext]_rateVars => RateInv'
      BY ElapseKeeps, ArriveKeeps, allowKeeps, StillRate DEF RateNext
<1>2. RateInv => LimitSound
      BY DEF RateInv
<1> QED
      BY NoRequests, <1>1, <1>2, PTL DEF RateSpec

(***************************************************************************)
(* The ban for declining, for any threshold, window and number of calls    *)
(* under way at once.  The list always holds the latest recorded declines, *)
(* none or some of them (Suffix), so what a call counts are real declines  *)
(* of the window; and a call that leaves the threshold reached behind is   *)
(* itself still on its way to the ban.                                     *)
(***************************************************************************)
ListOK ==
    /\ now \in 0..MaxTime
    /\ declines \in Seq(Nat) /\ calls \in Seq(Nat)
    /\ stage \in [Callers -> {"idle", "range", "ban"}]

\* The list is the end of the history.
Suffix ==
    /\ Len(declines) <= Len(calls)
    /\ \A i \in 1..Len(declines) : declines[i] = calls[i + (Len(calls) - Len(declines))]

Earned == \A c \in Callers : stage[c] = "ban" => Recent(calls) >= Threshold

DeclineInv == ListOK /\ Suffix /\ Earned /\ ThresholdEnforced

InWindow(times, at) == {i \in DOMAIN times : times[i] > at - Window}

-----------------------------------------------------------------------------

\* A list of declines has a finite number of them in the window.
LEMMA RecentIsNat ==
    ASSUME NEW times \in Seq(Nat), NEW at
    PROVE  IsFiniteSet(InWindow(times, at)) /\ Cardinality(InWindow(times, at)) \in Nat
<1>1. IsFiniteSet(1..Len(times)) /\ InWindow(times, at) \in SUBSET (1..Len(times))
  BY FS_Interval DEF InWindow
<1>2. IsFiniteSet(InWindow(times, at))
  BY <1>1, FS_Subset
<1> QED
  BY <1>2, FS_CardinalityType

\* One more decline never lowers the count.
LEMMA RecentGrows ==
    ASSUME NEW times \in Seq(Nat), NEW t \in Nat, NEW at
    PROVE  Cardinality(InWindow(times, at)) <= Cardinality(InWindow(Append(times, t), at))
<1>0. /\ Append(times, t) \in Seq(Nat)
      /\ DOMAIN times \subseteq DOMAIN Append(times, t)
      /\ \A i \in DOMAIN times : Append(times, t)[i] = times[i]
  OBVIOUS
<1>1. InWindow(times, at) \in SUBSET InWindow(Append(times, t), at)
  BY <1>0 DEF InWindow
<1>2. IsFiniteSet(InWindow(Append(times, t), at))
  BY <1>0, RecentIsNat, Zenon
<1> QED
  BY <1>1, <1>2, FS_Subset

\* As time passes declines leave the window and none enter it.
LEMMA RecentFades ==
    ASSUME NEW times \in Seq(Nat), NEW at \in Nat
    PROVE  Cardinality(InWindow(times, at + 1)) <= Cardinality(InWindow(times, at))
<1>1. InWindow(times, at + 1) \in SUBSET InWindow(times, at)
  BY DeclineAssumption DEF InWindow
<1> QED
  BY <1>1, RecentIsNat, FS_Subset

\* An empty list has none.
LEMMA RecentOfNone == ASSUME NEW at PROVE Cardinality(InWindow(<<>>, at)) = 0
BY FS_EmptySet DEF InWindow

\* What the list holds of the window, the history holds too.
LEMMA RecentOfSuffix ==
    ASSUME ListOK, Suffix PROVE Recent(declines) <= Recent(calls)
<1> DEFINE D == InWindow(declines, now)
           C == InWindow(calls, now)
           f == [i \in D |-> i + (Len(calls) - Len(declines))]
<1>1. Len(declines) \in Nat /\ Len(calls) \in Nat
  BY DEF ListOK
<1>2. ASSUME NEW i \in D PROVE f[i] \in C
  <2>1. i \in 1..Len(declines) /\ declines[i] > now - Window
    BY <1>2 DEF ListOK, InWindow
  <2>2. f[i] = i + (Len(calls) - Len(declines)) /\ f[i] \in 1..Len(calls)
    BY <1>1, <1>2, <2>1 DEF Suffix
  <2>3. calls[f[i]] = declines[i]
    BY <2>1, <2>2 DEF Suffix
  <2> QED
    BY <2>1, <2>2, <2>3 DEF ListOK, InWindow
<1>3. f \in Injection(D, C)
  BY <1>1, <1>2 DEF Injection, IsInjective, InWindow
<1>4. IsFiniteSet(C)
  BY RecentIsNat DEF ListOK
<1>5. Cardinality(D) <= Cardinality(C)
  BY <1>3, <1>4, FS_Injection
<1> QED
  BY <1>5 DEF Recent, InWindow

\* Recent counts the declines of the window, before a step and after it.
LEMMA RecentCounts ==
    /\ Recent(calls) = Cardinality(InWindow(calls, now))
    /\ Recent(declines) = Cardinality(InWindow(declines, now))
    /\ Recent(calls)' = Cardinality(InWindow(calls', now'))
    /\ Recent(declines)' = Cardinality(InWindow(declines', now'))
BY DEF Recent, InWindow

\* A recorded decline leaves its own call under way.
LEMMA PushKeeps == ASSUME DeclineInv, NEW c \in Callers, Push(c) PROVE DeclineInv'
<1> USE DeclineAssumption, RecentCounts DEF DeclineInv, Push
<1>1. now \in Nat /\ Len(calls) \in Nat /\ Len(declines) \in Nat
  BY DEF ListOK
<1>2. ListOK'
  BY <1>1 DEF ListOK
<1>3. Suffix'
  <2>1. Len(declines') = Len(declines) + 1 /\ Len(calls') = Len(calls) + 1
    BY <1>1 DEF ListOK
  <2>2. /\ \A k \in 1..Len(declines) : declines'[k] = declines[k]
        /\ \A k \in 1..Len(calls) : calls'[k] = calls[k]
        /\ declines'[Len(declines) + 1] = now /\ calls'[Len(calls) + 1] = now
    BY <1>1 DEF ListOK
  <2>3. Len(calls') - Len(declines') = Len(calls) - Len(declines) /\ Len(declines) <= Len(calls)
    BY <1>1, <2>1 DEF Suffix
  <2>4. ASSUME NEW i \in 1..Len(declines')
        PROVE  declines'[i] = calls'[i + (Len(calls') - Len(declines'))]
    <3>1. CASE i \in 1..Len(declines)
      <4>1. i + (Len(calls) - Len(declines)) \in 1..Len(calls)
        BY <1>1, <2>3, <3>1
      <4>2. declines[i] = calls[i + (Len(calls) - Len(declines))]
        BY <3>1 DEF Suffix
      <4> QED
        BY <2>2, <2>3, <3>1, <4>1, <4>2
    <3>2. CASE i = Len(declines) + 1
      <4>1. i + (Len(calls) - Len(declines)) = Len(calls) + 1
        BY <1>1, <3>2
      <4> QED
        BY <2>2, <2>3, <3>2, <4>1
    <3>3. i \in 1..Len(declines) \/ i = Len(declines) + 1
      BY <1>1, <2>1
    <3> QED
      BY <3>1, <3>2, <3>3, Zenon
  <2>5. Len(declines') <= Len(calls')
    BY <1>1, <2>1, <2>3
  <2> HIDE DEF Push
  <2> QED
    BY <2>4, <2>5 DEF Suffix
<1>4. Earned'
  <2>1. Recent(calls) <= Recent(calls)' /\ Recent(calls) \in Nat /\ Recent(calls)' \in Nat
    BY <1>1, <1>2, RecentGrows, RecentIsNat, Zenon DEF ListOK
  <2> QED
    BY <2>1 DEF Earned, ListOK
<1>5. ThresholdEnforced'
  BY DEF ThresholdEnforced, ListOK
<1> QED
  BY <1>2, <1>3, <1>4, <1>5

\* A call that counts fewer than Threshold is right to stop, and otherwise goes on.
LEMMA LRangeKeeps == ASSUME DeclineInv, NEW c \in Callers, LRange(c) PROVE DeclineInv'
<1> USE DeclineAssumption, RecentCounts DEF DeclineInv, LRange
<1>1. Recent(declines) \in Nat /\ Recent(calls) \in Nat /\ Recent(declines) <= Recent(calls)
  BY RecentOfSuffix, RecentIsNat DEF ListOK
<1>2. Recent(declines)' = Recent(declines) /\ Recent(calls)' = Recent(calls)
  OBVIOUS
<1>3. ListOK' /\ Suffix'
  BY DEF ListOK, Suffix
<1>4. Earned'
  BY <1>1, <1>2 DEF Earned, ListOK
<1>5. ThresholdEnforced'
  BY <1>1, <1>2 DEF ThresholdEnforced, ListOK
<1> QED
  BY <1>3, <1>4, <1>5

\* The ban empties the list.
LEMMA IssueBanKeeps == ASSUME DeclineInv, NEW c \in Callers, IssueBan(c) PROVE DeclineInv'
<1> USE DeclineAssumption, RecentCounts DEF DeclineInv, IssueBan
<1>1. Recent(declines)' = 0
  BY RecentOfNone
<1>2. ListOK' /\ Suffix'
  BY DEF ListOK, Suffix
<1>3. Recent(calls)' = Recent(calls)
  OBVIOUS
<1>4. Earned'
  BY <1>3 DEF Earned, ListOK
<1>5. ThresholdEnforced'
  BY <1>1 DEF ThresholdEnforced
<1> QED
  BY <1>2, <1>4, <1>5

\* Time passes when no call is under way.
LEMMA TickKeeps == ASSUME DeclineInv, WindowTick PROVE DeclineInv'
<1> USE DeclineAssumption, RecentCounts DEF DeclineInv, WindowTick
<1>1. now \in Nat /\ now' = now + 1
  BY DEF ListOK
<1>2. ListOK' /\ Suffix'
  <2>1. declines' = declines \/ declines' = <<>>
    OBVIOUS
  <2>2. ListOK'
    BY <1>1, <2>1 DEF ListOK
  <2>3. CASE declines' = declines
    <3>1. UNCHANGED <<declines, calls>>
      BY <2>3
    <3> QED
      BY <2>2, <3>1, Zenon DEF Suffix
  <2>4. CASE declines' = <<>>
    <3>1. Len(calls') \in Nat /\ Len(declines') = 0
      BY <2>2, <2>4 DEF ListOK
    <3> HIDE DEF WindowTick
    <3> QED
      BY <2>2, <3>1 DEF Suffix
  <2> QED
    BY <2>1, <2>2, <2>3, <2>4
<1>3. Earned'
  BY DEF Earned
<1>4. Recent(declines)' < Threshold
  <2>1. CASE declines' = <<>>
    BY <2>1, RecentOfNone
  <2>2. CASE declines' = declines
    <3>1. Recent(declines)' <= Recent(declines) /\ Recent(declines) < Threshold
      BY <1>1, <2>2, RecentFades, Zenon DEF ListOK, ThresholdEnforced
    <3>2. Recent(declines) \in Nat /\ Recent(declines)' \in Nat
      BY <1>2, RecentIsNat, Zenon DEF ListOK
    <3> QED
      BY <3>1, <3>2
  <2> QED
    BY <2>1, <2>2
<1> QED
  BY <1>2, <1>3, <1>4 DEF ThresholdEnforced

\* The invariant holds throughout.
LEMMA DeclineInvariant == DeclineSpec => []DeclineInv
<1>1. DeclineInit => DeclineInv
  <2> SUFFICES ASSUME DeclineInit PROVE DeclineInv
    OBVIOUS
  <2>1. Recent(declines) = 0
    BY RecentCounts, RecentOfNone DEF DeclineInit
  <2>2. ListOK /\ Suffix /\ Earned
    BY DeclineAssumption DEF DeclineInit, ListOK, Suffix, Earned
  <2> QED
    BY <2>1, <2>2, DeclineAssumption DEF DeclineInv, ThresholdEnforced
<1>2. DeclineInv /\ [DeclineNext]_declineVars => DeclineInv'
  <2> SUFFICES ASSUME DeclineInv, [DeclineNext]_declineVars PROVE DeclineInv'
    OBVIOUS
  <2>1. CASE UNCHANGED declineVars
    BY <2>1 DEF declineVars, DeclineInv, ListOK, Suffix, Earned, ThresholdEnforced, Recent
  <2> QED
    BY <2>1, PushKeeps, LRangeKeeps, IssueBanKeeps, TickKeeps DEF DeclineNext
<1> QED
  BY <1>1, <1>2, PTL DEF DeclineSpec

\* Between calls the threshold is never reached unpunished, however many calls overlap
\* (recordDecline, which counts after it has pushed).
THEOREM NoSlippingPast == DeclineSpec => []ThresholdEnforced
<1>1. DeclineInv => ThresholdEnforced
  BY DEF DeclineInv
<1> QED
  BY <1>1, DeclineInvariant, PTL

\* Every ban answers to Threshold declines made within one window, even when calls
\* count one another's entries or an old list was cleared (recordDecline).
THEOREM BansAreEarned == DeclineSpec => BanEarned
<1>1. DeclineInv /\ [DeclineNext]_declineVars => [bans' # bans => Recent(calls) >= Threshold]_declineVars
  BY DEF DeclineInv, Earned, DeclineNext, Push, LRange, IssueBan, WindowTick, declineVars
<1> QED
  BY <1>1, DeclineInvariant, PTL DEF DeclineSpec, BanEarned

-----------------------------------------------------------------------------

\* A list has no more entries of the window than entries.
LEMMA RecentIsBounded ==
    ASSUME NEW times \in Seq(Nat), NEW at
    PROVE  Cardinality(InWindow(times, at)) <= Len(times)
<1>1. InWindow(times, at) \in SUBSET (1..Len(times)) /\ Len(times) \in Nat
  BY DEF InWindow
<1>2. IsFiniteSet(1..Len(times)) /\ Cardinality(1..Len(times)) = Len(times)
  <2>1. \A a, b \in Int : IsFiniteSet(a..b) /\ Cardinality(a..b) = IF a > b THEN 0 ELSE b - a + 1
    BY FS_Interval
  <2>2. Cardinality(1..Len(times)) = IF 1 > Len(times) THEN 0 ELSE Len(times) - 1 + 1
    BY <1>1, <2>1
  <2>3. Cardinality(1..Len(times)) = Len(times)
    BY <1>1, <2>2
  <2> QED
    BY <1>1, <2>1, <2>3
<1> QED
  BY <1>1, <1>2, FS_Subset

\* BanDurationForOffense: five minutes at least, a day at most.
LEMMA BanLasts ==
    ASSUME NEW o \in Nat
    PROVE  BanMinutes(o) \in {5, 25, 125, 625, 1440}
<1>1. CASE o > 4
  BY <1>1 DEF BanMinutes
<1>2. CASE o <= 4
  <2>1. o = 0 \/ o = 1 \/ o = 2 \/ o = 3 \/ o = 4
    BY <1>2
  <2> QED
    BY <1>2, <2>1 DEF BanMinutes
<1> QED
  BY <1>1, <1>2

\* The types, with a count that justifies each ban under way.
SizeInv ==
    /\ DeclineTypeOK
    /\ Len(calls) <= MaxDeclines
    /\ \A c \in Callers : stage[c] = "ban" => found[c] >= Threshold

LEMMA SizesKeep ==
    ASSUME DeclineInv, SizeInv, [DeclineNext]_declineVars
    PROVE  SizeInv'
<1> USE DeclineAssumption
<1>0. /\ now \in Nat /\ Len(calls) \in Nat /\ Len(declines) \in Nat
      /\ declines \in Seq(0..MaxTime) /\ calls \in Seq(0..MaxTime)
      /\ Len(declines) <= Len(calls) /\ Len(calls) <= MaxDeclines
  BY DEF SizeInv, DeclineTypeOK
<1>1. ASSUME NEW c \in Callers, Push(c) PROVE SizeInv'
  <2>1. /\ declines' \in Seq(0..MaxTime) /\ Len(declines') = Len(declines) + 1
        /\ calls' \in Seq(0..MaxTime) /\ Len(calls') = Len(calls) + 1
        /\ Len(calls) < MaxDeclines
    BY <1>0, <1>1 DEF Push, SizeInv, DeclineTypeOK
  <2>2. listEnds' \in 0..(MaxTime + Window)
    BY <1>0, <1>1 DEF Push, SizeInv, DeclineTypeOK
  <2> QED
    BY <1>0, <1>1, <2>1, <2>2 DEF Push, SizeInv, DeclineTypeOK
<1>2. ASSUME NEW c \in Callers, LRange(c) PROVE SizeInv'
  <2>1. Recent(declines) \in 0..MaxDeclines
    BY <1>0, RecentCounts, RecentIsNat, RecentIsBounded DEF DeclineInv, ListOK
  <2> QED
    BY <1>0, <1>2, <2>1 DEF LRange, SizeInv, DeclineTypeOK
<1>3. ASSUME NEW c \in Callers, IssueBan(c) PROVE SizeInv'
  <2> DEFINE o == found[c] \div Threshold
  <2>1. found[c] \in Threshold..MaxDeclines
    BY <1>3 DEF IssueBan, SizeInv, DeclineTypeOK
  <2>2. o \in 1..MaxDeclines
    BY <2>1
  <2>3. bans' = Append(bans, BanMinutes(o)) /\ banLeft' = (BanMinutes(o) * Window + 59) \div 60
    BY <1>3 DEF IssueBan
  <2> HIDE DEF o
  <2>4. bans' \in Seq({BanMinutes(n) : n \in 1..MaxDeclines})
    <3> DEFINE M == {BanMinutes(n) : n \in 1..MaxDeclines}
    <3>1. BanMinutes(o) \in M
      BY <2>2
    <3>2. bans \in Seq(M)
      BY DEF SizeInv, DeclineTypeOK
    <3> HIDE DEF M
    <3>3. Append(bans, BanMinutes(o)) \in Seq(M)
      BY <3>1, <3>2
    <3> QED
      BY <2>3, <3>3 DEF M
  <2>5. banLeft' \in 0..(24 * Window)
    <3>1. PICK m \in {5, 25, 125, 625, 1440} : m = BanMinutes(o)
      BY <2>2, BanLasts
    <3>2. banLeft' = (m * Window + 59) \div 60
      BY <2>3, <3>1
    <3>3. CASE m = 5
      BY <3>2, <3>3
    <3>4. CASE m = 25
      BY <3>2, <3>4
    <3>5. CASE m = 125
      BY <3>2, <3>5
    <3>6. CASE m = 625
      BY <3>2, <3>6
    <3>7. CASE m = 1440
      BY <3>2, <3>7
    <3> QED
      BY <3>3, <3>4, <3>5, <3>6, <3>7
  <2>6. /\ declines' = <<>> /\ listEnds' = now
        /\ stage' = [stage EXCEPT ![c] = "idle"] /\ found' = [found EXCEPT ![c] = 0]
        /\ UNCHANGED <<now, calls>>
    BY <1>3 DEF IssueBan
  <2> QED
    BY <1>0, <2>4, <2>5, <2>6 DEF SizeInv, DeclineTypeOK
<1>4. ASSUME WindowTick PROVE SizeInv'
  <2>1. declines' \in Seq(0..MaxTime) /\ Len(declines') <= Len(calls)
    <3>1. declines' = declines \/ declines' = <<>>
      BY <1>4 DEF WindowTick
    <3>2. <<>> \in Seq(0..MaxTime) /\ Len(<<>>) = 0
      OBVIOUS
    <3>3. CASE declines' = <<>>
      BY <1>0, <3>2, <3>3
    <3>4. CASE declines' = declines
      BY <1>0, <3>4
    <3> QED
      BY <3>1, <3>3, <3>4
  <2>2. banLeft' \in 0..(24 * Window)
    BY <1>4 DEF WindowTick, SizeInv, DeclineTypeOK
  <2> QED
    BY <1>0, <1>4, <2>1, <2>2 DEF WindowTick, SizeInv, DeclineTypeOK
<1>5. ASSUME UNCHANGED declineVars PROVE SizeInv'
  BY <1>5 DEF declineVars, SizeInv, DeclineTypeOK
<1> QED
  BY <1>1, <1>2, <1>3, <1>4, <1>5 DEF DeclineNext

\* recordDecline and BanDurationForOffense: every ban has a duration of the table and
\* ends within a day, and the list holds nothing but declines.
THEOREM DeclineTypes == DeclineSpec => []DeclineTypeOK
<1>1. DeclineInit => SizeInv
  BY DeclineAssumption DEF DeclineInit, SizeInv, DeclineTypeOK
<1>2. SizeInv => DeclineTypeOK
  BY DEF SizeInv
<1> QED
  BY <1>1, <1>2, SizesKeep, DeclineInvariant, PTL DEF DeclineSpec
=============================================================================
