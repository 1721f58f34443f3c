---------------------------- MODULE ProcessProofs ----------------------------
(***************************************************************************)
(* What holds within one process: of the breaker its requests share, for   *)
(* every number of callers, every limit of the trip rule, every number of  *)
(* attempts, outages and cancellations; and of its boot and its shutdown,  *)
(* for every binary and configuration and every number of requests.        *)
(***************************************************************************)
EXTENDS CircuitBreaker, ServiceLifecycle, SumLemmas

-----------------------------------------------------------------------------
(* The circuit breaker *)

\* A generation begins with counts of nothing, and with no call of it but what the
\* step itself lets through.
LEMMA NewGeneration ==
    ASSUME BreakerTypes, NEW p \in Callers
    PROVE  /\ Stale(p) \in [Callers -> {"idle", "call", "stale"}]
           /\ \A q \in Callers : Stale(p)[q] = "call" => q = p
           /\ Stale(p)[p] = pc[p]
  BY DEF Stale, BreakerTypes

\* The invariant when the step leaves no call of the current generation.
LEMMA Emptied ==
    ASSUME BreakerTypes', \A p \in Callers : pc'[p] # "call",
           counts' = Zero, evidence' = 0
    PROVE  IInv'
  <1>1. InFlight' = {}
    BY DEF InFlight
  <1> QED
    BY <1>1, FS_EmptySet DEF IInv, CountsInv, Zero, ProbeLimit

LEMMA InitInv == Init => IInv
  <1> SUFFICES ASSUME Init PROVE IInv
    OBVIOUS
  <1>1. BreakerTypes
    BY DEF Init, BreakerTypes, Zero
  <1>2. InFlight = {}
    BY DEF Init, InFlight
  <1>3. CountsInv
    BY <1>2, FS_EmptySet DEF Init, CountsInv, Zero, ProbeLimit
  <1> QED
    BY <1>1, <1>3 DEF IInv

-----------------------------------------------------------------------------
(* beforeRequest *)

LEMMA BeginInv == ASSUME IInv, NEW p \in Callers, NEW k, Begin(p, k) PROVE IInv'
  <1> USE DEF IInv
  <1>1. /\ CountsNow \in [requests : Nat, failures : Nat, streak : Nat]
        /\ counts' = [CountsNow EXCEPT !.requests = @ + 1]
        /\ state' = StateNow /\ evidence' = EvidenceNow
    BY DEF Begin, Keep, CountsNow, BreakerTypes, Zero
  <1>2. /\ counts' \in [requests : Nat, failures : Nat, streak : Nat]
        /\ counts'.requests = CountsNow.requests + 1
        /\ counts'.failures = CountsNow.failures /\ counts'.streak = CountsNow.streak
    BY <1>1
  <1>3. BreakerTypes'
    <2>1. pc' \in [Callers -> {"idle", "call", "stale"}]
      BY NewGeneration DEF Begin, BreakerTypes
    <2> QED
      BY <1>1, <1>2, <2>1 DEF BreakerTypes, StateNow, EvidenceNow
  <1>4. state' = "halfopen" => counts'.requests <= ProbeLimit
    BY <1>1, <1>2 DEF Begin, Rejects, ProbeLimit
  <1>5. counts'.failures = evidence' /\ counts'.streak <= counts'.failures
    BY <1>1, <1>2 DEF CountsNow, EvidenceNow, CountsInv, Zero
  <1>6. CASE Lapsed
    <2>1. InFlight' = {p}
      <3>1. pc' = [Stale(p) EXCEPT ![p] = "call"]
        BY <1>6 DEF Begin
      <3>2. \A q \in Callers : pc'[q] = "call" <=> q = p
        BY <3>1, NewGeneration
      <3> QED
        BY <3>2 DEF InFlight
    <2>2. counts'.requests = 1
      BY <1>2, <1>6 DEF CountsNow, Zero
    <2>3. IsFiniteSet({p}) /\ Cardinality({p}) = 1
      BY FS_Singleton
    <2>4. IsFiniteSet(InFlight') /\ Cardinality(InFlight') <= counts'.requests
      BY <2>1, <2>2, <2>3
    <2> QED
      BY <1>3, <1>4, <1>5, <2>4 DEF CountsInv
  <1>7. CASE ~Lapsed
    <2>1. InFlight' = InFlight \cup {p} /\ p \notin InFlight
      BY <1>7 DEF Begin, InFlight, BreakerTypes
    <2>2. counts'.requests = counts.requests + 1
      BY <1>2, <1>7 DEF CountsNow
    <2>3. /\ IsFiniteSet(InFlight \cup {p})
          /\ Cardinality(InFlight \cup {p}) = Cardinality(InFlight) + 1
      BY <2>1, FS_AddElement DEF CountsInv
    <2>4. Cardinality(InFlight) \in Nat /\ counts.requests \in Nat
      BY FS_CardinalityType DEF CountsInv, BreakerTypes
    <2> QED
      BY <1>3, <1>4, <1>5, <2>1, <2>2, <2>3, <2>4 DEF CountsInv
  <1> QED
    BY <1>6, <1>7

LEMMA FallbackInv == ASSUME IInv, NEW p \in Callers, Fallback(p) PROVE IInv'
  <1> USE DEF IInv
  <1>1. ~Lapsed
    BY DEF Fallback, Rejects, Lapsed, StateNow, CountsNow, Zero, ProbeLimit, BreakerTypes
  <1>2. UNCHANGED <<state, counts, pc, evidence>>
    BY <1>1 DEF Fallback, Keep, StateNow, CountsNow, EvidenceNow
  <1> QED
    BY <1>2 DEF BreakerTypes, CountsInv, InFlight

-----------------------------------------------------------------------------
(* afterRequest *)

\* A call of the current generation that ends: its place may stay taken or be given back.
LEMMA EndsInv ==
    ASSUME IInv, NEW p \in Callers, pc[p] = "call", ~Lapsed, Idle(p, pc),
           state' = state, evidence' \in Nat,
           counts' \in [requests : Nat, failures : Nat, streak : Nat],
           counts'.requests \in {counts.requests - 1, counts.requests},
           counts'.failures = evidence', counts'.streak <= counts'.failures
    PROVE  IInv'
  <1>1. BreakerTypes'
    BY DEF IInv, BreakerTypes, Idle
  <1>2. InFlight' = InFlight \ {p} /\ p \in InFlight
    BY DEF IInv, BreakerTypes, InFlight, Idle
  <1>3. IsFiniteSet(InFlight) /\ Cardinality(InFlight) <= counts.requests
    BY DEF IInv, CountsInv
  <1>4. IsFiniteSet(InFlight') /\ Cardinality(InFlight') = Cardinality(InFlight) - 1
    BY <1>2, <1>3, FS_RemoveElement
  <1>5. Cardinality(InFlight) \in Nat /\ counts.requests \in Nat
    BY <1>3, FS_CardinalityType DEF IInv, BreakerTypes
  <1>6. Cardinality(InFlight') <= counts'.requests
    BY <1>3, <1>4, <1>5
  <1>7. state' = "halfopen" => counts'.requests <= ProbeLimit
    BY <1>5 DEF IInv, CountsInv, ProbeLimit
  <1> QED
    BY <1>1, <1>4, <1>6, <1>7 DEF IInv, CountsInv

\* The place of a call that ends is there to be given back.
LEMMA PlaceTaken ==
    ASSUME IInv, NEW p \in Callers, pc[p] = "call"
    PROVE  counts.requests - 1 \in Nat
  <1>1. p \in InFlight
    BY DEF InFlight
  <1>2. IsFiniteSet(InFlight) /\ Cardinality(InFlight) <= counts.requests
    BY DEF IInv, CountsInv
  <1>3. Cardinality(InFlight) \in Nat /\ Cardinality(InFlight) # 0
    BY <1>1, <1>2, FS_CardinalityType, FS_EmptySet
  <1> QED
    BY <1>2, <1>3 DEF IInv, BreakerTypes

LEMMA DropInv == ASSUME IInv, NEW p \in Callers, Dropped(p), Drop(p) PROVE IInv'
  <1> USE DEF IInv
  <1>1. CASE Lapsed
    <2>1. counts' = Zero /\ evidence' = 0 /\ state' \in {"closed", "halfopen", "open"}
      BY <1>1 DEF Drop, Keep, CountsNow, EvidenceNow, StateNow, BreakerTypes
    <2>2. pc' = [Stale(p) EXCEPT ![p] = "idle"]
      BY <1>1 DEF Drop
    <2>3. pc' \in [Callers -> {"idle", "call", "stale"}] /\ \A q \in Callers : pc'[q] # "call"
      BY <2>2, NewGeneration
    <2>4. BreakerTypes'
      BY <2>1, <2>3 DEF BreakerTypes, Zero
    <2> QED
      BY <2>1, <2>3, <2>4, Emptied
  <1>2. CASE ~Lapsed
    <2>1. pc[p] = "stale" /\ UNCHANGED <<state, counts, evidence>>
      BY <1>2 DEF Dropped, Drop, Keep, StateNow, CountsNow, EvidenceNow
    <2>2. pc' = [pc EXCEPT ![p] = "idle"]
      BY <1>2 DEF Drop
    <2>3. BreakerTypes' /\ InFlight' = InFlight
      BY <2>1, <2>2 DEF BreakerTypes, InFlight
    <2> QED
      BY <2>1, <2>3 DEF CountsInv
  <1> QED
    BY <1>1, <1>2

\* A change of state: the next generation begins with nothing.
LEMMA SetInv ==
    ASSUME IInv, NEW p \in Callers, NEW s \in {"closed", "open"}, Set(s, Zero, 0),
           Idle(p, Stale(p))
    PROVE  IInv'
  <1>1. pc' \in [Callers -> {"idle", "call", "stale"}] /\ \A q \in Callers : pc'[q] # "call"
    BY NewGeneration DEF Idle, IInv
  <1>2. counts' = Zero /\ evidence' = 0 /\ state' = s
    BY DEF Set
  <1>3. BreakerTypes'
    BY <1>1, <1>2 DEF BreakerTypes, Zero
  <1> QED
    BY <1>1, <1>2, <1>3, Emptied

LEMMA AfterSuccessInv ==
    ASSUME IInv, NEW p \in Callers, Calling(p), AfterSuccess(p)
    PROVE  IInv'
  <1>1. CASE Dropped(p)
    BY <1>1, DropInv DEF AfterSuccess
  <1>2. CASE ~Dropped(p) /\ state = "halfopen"
    BY <1>2, SetInv DEF AfterSuccess
  <1>3. CASE ~Dropped(p) /\ state # "halfopen"
    <2>1. pc[p] = "call" /\ ~Lapsed
      BY <1>3 DEF Calling, Dropped
    <2>2. /\ counts' = [counts EXCEPT !.streak = 0] /\ evidence' = evidence /\ state' = state
          /\ Idle(p, pc)
      BY <1>3, <2>1 DEF AfterSuccess, Keep, StateNow
    <2>3. /\ counts' \in [requests : Nat, failures : Nat, streak : Nat]
          /\ counts'.requests = counts.requests
          /\ counts'.failures = counts.failures /\ counts'.streak = 0
      BY <2>2 DEF IInv, BreakerTypes
    <2>4. evidence' \in Nat /\ counts'.failures = evidence' /\ counts'.streak <= counts'.failures
      BY <2>2, <2>3 DEF IInv, BreakerTypes, CountsInv
    <2> QED
      BY <2>1, <2>2, <2>3, <2>4, EndsInv
  <1> QED
    BY <1>1, <1>2, <1>3

LEMMA AfterFailureInv ==
    ASSUME IInv, NEW p \in Callers, Calling(p), AfterFailure(p)
    PROVE  /\ IInv'
           /\ state = "closed" /\ state' = "open" =>
                evidence + 1 >= ConsecutiveLimit \/ 2 * (evidence + 1) > MinVolume
  <1> DEFINE c == [counts EXCEPT !.failures = @ + 1, !.streak = @ + 1]
  <1> USE BreakerAssumption
  <1>1. /\ c \in [requests : Nat, failures : Nat, streak : Nat]
        /\ c.requests = counts.requests /\ c.failures = evidence + 1
        /\ c.streak <= c.failures /\ evidence \in Nat
    <2>1. /\ counts \in [requests : Nat, failures : Nat, streak : Nat] /\ evidence \in Nat
          /\ counts.failures = evidence /\ counts.streak <= counts.failures
      BY DEF IInv, BreakerTypes, CountsInv
    <2>2. counts.requests \in Nat /\ counts.failures \in Nat /\ counts.streak \in Nat
      BY <2>1
    <2>3. /\ c.requests = counts.requests /\ c.failures = counts.failures + 1
          /\ c.streak = counts.streak + 1
      BY <2>1
    <2>4. c \in [requests : Nat, failures : Nat, streak : Nat]
      <3> DEFINE d == [counts EXCEPT !.failures = counts.failures + 1]
      <3>1. d \in [requests : Nat, failures : Nat, streak : Nat]
        BY <2>1, <2>2
      <3>2. c = [d EXCEPT !.streak = counts.streak + 1]
        BY <2>1
      <3> HIDE DEF d, c
      <3> QED
        BY <2>2, <3>1, <3>2
    <2> HIDE DEF c
    <2> QED
      BY <2>1, <2>2, <2>3, <2>4
  <1>2. CASE Dropped(p)
    <2>1. state' = StateNow
      BY <1>2 DEF AfterFailure, Drop, Keep
    <2> QED
      BY <1>2, <2>1, DropInv DEF AfterFailure, StateNow
  <1>3. CASE ~Dropped(p) /\ (state = "halfopen" \/ ReadyToTrip(c))
    <2>1. Set("open", Zero, 0) /\ Idle(p, Stale(p))
      BY <1>3 DEF AfterFailure
    <2>2. IInv'
      BY <2>1, SetInv
    <2>3. ASSUME ReadyToTrip(c)
          PROVE  evidence + 1 >= ConsecutiveLimit \/ 2 * (evidence + 1) > MinVolume
      <3> HIDE DEF c
      <3> QED
        BY <1>1, <2>3 DEF ReadyToTrip
    <2> QED
      BY <1>3, <2>2, <2>3
  <1>4. CASE ~Dropped(p) /\ ~(state = "halfopen" \/ ReadyToTrip(c))
    <2>1. pc[p] = "call" /\ ~Lapsed
      BY <1>4 DEF Calling, Dropped
    <2>2. counts' = c /\ evidence' = evidence + 1 /\ state' = state /\ Idle(p, pc)
      BY <1>4, <2>1 DEF AfterFailure, Keep, StateNow
    <2>3. IInv'
      <3> HIDE DEF c
      <3> QED
        BY <1>1, <2>1, <2>2, EndsInv
    <2> QED
      BY <2>2, <2>3
  <1> QED
    BY <1>2, <1>3, <1>4

LEMMA CancelInv == ASSUME IInv, NEW p \in Callers, Cancel(p) PROVE IInv' /\ state' = StateNow
  <1>1. CASE Dropped(p)
    BY <1>1, DropInv DEF Cancel, Drop, Keep
  <1>2. CASE ~Dropped(p)
    <2>1. pc[p] = "call" /\ ~Lapsed
      BY <1>2 DEF Cancel, Calling, Dropped
    <2>2. /\ counts' \in {counts, [counts EXCEPT !.requests = @ - 1]}
          /\ evidence' = evidence /\ state' = state /\ state' = StateNow /\ Idle(p, pc)
      BY <1>2, <2>1 DEF Cancel, Keep, StateNow
    <2>3. /\ counts' \in [requests : Nat, failures : Nat, streak : Nat]
          /\ counts'.requests \in {counts.requests - 1, counts.requests}
          /\ counts'.failures = counts.failures /\ counts'.streak = counts.streak
      BY <2>1, <2>2, PlaceTaken DEF IInv, BreakerTypes
    <2>4. evidence' \in Nat /\ counts'.failures = evidence' /\ counts'.streak <= counts'.failures
      BY <2>2, <2>3 DEF IInv, BreakerTypes, CountsInv
    <2> QED
      BY <2>1, <2>2, <2>3, <2>4, EndsInv
  <1> QED
    BY <1>1, <1>2

-----------------------------------------------------------------------------
(* The theorems *)

\* A step that leaves the breaker and the calls alone.
LEMMA SameBreaker ==
    ASSUME IInv, UNCHANGED <<state, counts, pc, evidence>>
    PROVE  IInv'
  BY DEF IInv, BreakerTypes, CountsInv, InFlight

\* What a step may do, seen from the breaker.
FreshTrip ==
    (state = "closed" /\ state' = "open") =>
        evidence + 1 >= ConsecutiveLimit \/ 2 * (evidence + 1) > MinVolume

LEMMA NextInv == ASSUME IInv, [Next]_vars PROVE IInv' /\ FreshTrip
  <1>1. StateNow = "open" => state = "open"
    BY DEF StateNow
  <1>2. CASE UNCHANGED vars \/ Elapse \/ Outage
    <2>1. UNCHANGED <<state, counts, pc, evidence>>
      BY <1>2 DEF vars, Elapse, Outage, breaker
    <2> QED
      BY <2>1, SameBreaker DEF FreshTrip
  <1>3. ASSUME NEW p \in Callers, Ask(p) PROVE IInv' /\ FreshTrip
    <2>1. IInv'
      BY <1>3, BeginInv, FallbackInv DEF Ask
    <2>2. state' = StateNow
      BY <1>3 DEF Ask, Begin, Fallback, Keep
    <2> QED
      BY <1>1, <2>1, <2>2 DEF FreshTrip
  <1>4. ASSUME NEW p \in Callers, Succeed(p) PROVE IInv' /\ FreshTrip
    <2>1. IInv'
      BY <1>4, AfterSuccessInv DEF Succeed
    <2>2. state' = StateNow \/ state' = "closed"
      BY <1>4 DEF Succeed, AfterSuccess, Drop, Keep, Set
    <2> QED
      BY <1>1, <2>1, <2>2 DEF FreshTrip
  <1>5. ASSUME NEW p \in Callers, RetryAttempt(p) PROVE IInv' /\ FreshTrip
    <2>1. UNCHANGED <<state, counts, pc, evidence>>
      BY <1>5 DEF RetryAttempt, breaker
    <2> QED
      BY <2>1, SameBreaker DEF FreshTrip
  <1>6. ASSUME NEW p \in Callers, GiveUp(p) \/ NoTaskType(p) PROVE IInv' /\ FreshTrip
    BY <1>6, AfterFailureInv DEF GiveUp, NoTaskType, FreshTrip
  <1>7. ASSUME NEW p \in Callers, Cancel(p) PROVE IInv' /\ FreshTrip
    BY <1>1, <1>7, CancelInv DEF FreshTrip
  <1> QED
    BY <1>2, <1>3, <1>4, <1>5, <1>6, <1>7 DEF Next, Proceed

\* (IInv) The counts of a generation cover its calls in flight and its failures.
THEOREM Invariance == Spec => []IInv
  <1>1. IInv /\ [Next]_vars => IInv'
    BY NextInv
  <1> QED
    BY <1>1, InitInv, PTL DEF Spec

\* (DefaultMaxRequests) However many goroutines share the breaker and however they
\* interleave, a half-open breaker has at most one call of its generation in flight.
THEOREM ProbesAreSingle == Spec => []OneProbeAtATime
  <1>1. IInv => OneProbeAtATime
    <2> SUFFICES ASSUME IInv, state = "halfopen" PROVE Cardinality(InFlight) <= ProbeLimit
      BY DEF OneProbeAtATime
    <2>1. Cardinality(InFlight) \in Nat /\ counts.requests \in Nat
      BY FS_CardinalityType DEF IInv, CountsInv, BreakerTypes
    <2> QED
      BY <2>1 DEF IInv, CountsInv, ProbeLimit
  <1> QED
    BY <1>1, Invariance, PTL

\* (DefaultInterval, ReadyToTrip) No result of an earlier window or generation ever helps
\* to trip the breaker.
THEOREM TripsAreFresh == Spec => TripsOnFreshEvidence
  <1>1. IInv /\ [Next]_vars => [FreshTrip]_vars
    BY NextInv
  <1>2. TripsOnFreshEvidence <=> [][FreshTrip]_vars
    BY PTL DEF TripsOnFreshEvidence, FreshTrip
  <1> QED
    BY <1>1, <1>2, Invariance, PTL DEF Spec

-----------------------------------------------------------------------------
(* The delays of bootretry *)

\* d is the function by which DelayAfter is defined.
Doubles(d) == d = [n \in 0 .. Retries |-> IF n = 0 THEN Delay ELSE 2 * d[n - 1]]

LEMMA DelayUnfolds == DelayAfter = CHOOSE d : Doubles(d)
  BY DEF DelayAfter, Doubles

\* d is the delay up to an attempt.
DoublesTo(d, last) ==
    /\ d \in [0 .. last -> Nat]
    /\ d[0] = Delay
    /\ \A n \in 1 .. last : d[n] = 2 * d[n - 1]

LEMMA DelaysExist ==
    ASSUME NEW last \in Nat
    PROVE  \E d : DoublesTo(d, last)
  <1> USE LifecycleAssumption
  <1> DEFINE D == {k \in Nat : \E d : DoublesTo(d, k)}
  <1>1. 0 \in D
    <2> DEFINE d == [n \in 0 .. 0 |-> Delay]
    <2>1. DoublesTo(d, 0)
      BY DEF DoublesTo
    <2> HIDE DEF d
    <2> QED
      BY <2>1
  <1>2. ASSUME NEW k \in Nat, k \in D PROVE k + 1 \in D
    <2>1. PICK d : DoublesTo(d, k)
      BY <1>2
    <2> DEFINE e == [n \in 0 .. k + 1 |-> IF n = k + 1 THEN 2 * d[k] ELSE d[n]]
    <2>2. e \in [0 .. k + 1 -> Nat] /\ e[0] = Delay
      BY <2>1 DEF DoublesTo
    <2>3. ASSUME NEW n \in 1 .. k + 1 PROVE e[n] = 2 * e[n - 1]
      <3>1. e[n - 1] = d[n - 1] /\ (n # k + 1 => e[n] = d[n]) /\ (n = k + 1 => e[n] = 2 * d[k])
        OBVIOUS
      <3> HIDE DEF e
      <3>2. CASE n = k + 1
        <4>1. n - 1 = k
          BY <3>2
        <4> QED
          BY <3>1, <3>2, <4>1
      <3>3. CASE n # k + 1
        BY <2>1, <3>1, <3>3 DEF DoublesTo
      <3> QED
        BY <3>2, <3>3
    <2> HIDE DEF e
    <2>4. DoublesTo(e, k + 1)
      BY <2>2, <2>3 DEF DoublesTo
    <2> QED
      BY <2>4
  <1>3. last \in D
    <2> HIDE DEF D
    <2> QED
      BY <1>1, <1>2, CountingUp
  <1> QED
    BY <1>3

\* DelayAfter is the function it is meant to be.
LEMMA DelayDoubles ==
    /\ DelayAfter[0] = Delay
    /\ \A n \in 1 .. Retries : DelayAfter[n] = 2 * DelayAfter[n - 1]
  <1> USE LifecycleAssumption
  <1>1. PICK d : DoublesTo(d, Retries)
    BY DelaysExist
  <1>2. \A n \in 0 .. Retries : d[n] = IF n = 0 THEN Delay ELSE 2 * d[n - 1]
    BY <1>1 DEF DoublesTo
  <1>3. d = [n \in 0 .. Retries |-> d[n]]
    BY <1>1 DEF DoublesTo
  <1>4. d = [n \in 0 .. Retries |-> IF n = 0 THEN Delay ELSE 2 * d[n - 1]]
    BY <1>2, <1>3
  <1>5. Doubles(d)
    BY <1>4 DEF Doubles
  <1>6. Doubles(DelayAfter)
    BY <1>5, DelayUnfolds
  <1>7. \A n \in 0 .. Retries : DelayAfter[n] = IF n = 0 THEN Delay ELSE 2 * DelayAfter[n - 1]
    <2> HIDE DEF DelayAfter
    <2> QED
      BY <1>6 DEF Doubles
  <1> HIDE DEF DelayAfter
  <1> QED
    BY <1>7

-----------------------------------------------------------------------------
(* The order of the stages *)

BootStages == Retried \cup Replaying \cup {"loadFile"}

\* In a sequence of boot stages followed by others, what follows a stage is plain.
LEMMA Following ==
    ASSUME NEW first \in Seq(BootStages), NEW S, NEW rest \in Seq(S),
           config.steps = first \o rest,
           NEW k \in 1 .. Len(rest) - 1, NEW s, rest[k] = s, s \notin BootStages,
           \A j \in 1 .. Len(rest) : rest[j] = s => j = k
    PROVE  After(s) = rest[k + 1]
  <1>1. /\ Len(config.steps) = Len(first) + Len(rest)
        /\ Len(first) \in Nat /\ Len(rest) \in Nat
        /\ \A i \in 1 .. Len(first) : config.steps[i] = first[i] /\ first[i] \in BootStages
        /\ \A i \in 1 .. Len(rest) : config.steps[Len(first) + i] = rest[i]
    OBVIOUS
  <1>2. ASSUME NEW i \in 1 .. Len(config.steps), config.steps[i] = s
        PROVE  i = Len(first) + k
    <2>1. i \notin 1 .. Len(first)
      BY <1>1, <1>2
    <2>2. i - Len(first) \in 1 .. Len(rest) /\ Len(first) + (i - Len(first)) = i
      BY <1>1, <2>1
    <2>3. rest[i - Len(first)] = s
      BY <1>1, <1>2, <2>2
    <2> QED
      BY <1>1, <2>2, <2>3
  <1>3. Len(first) + k \in 1 .. Len(config.steps) /\ config.steps[Len(first) + k] = s
    BY <1>1
  <1>4. PlaceOf(s) = Len(first) + k
    BY <1>2, <1>3 DEF PlaceOf
  <1>5. k + 1 \in 1 .. Len(rest) /\ (Len(first) + k) + 1 = Len(first) + (k + 1)
    BY <1>1
  <1> QED
    BY <1>1, <1>4, <1>5 DEF After

\* The stages of the workforce service from serving to the end.
LEMMA WorkforceOrder ==
    ASSUME config \in Configurations, config.binary = "workforce"
    PROVE  /\ After("serve") = "notReady"
           /\ After("notReady") = "stopCatalogue"
           /\ After("stopCatalogue") = "stopRate"
           /\ After("shutdown") = "stopRelay"
           /\ After("stopRelay") = "awaitRelay"
           /\ After("awaitRelay") = "close"
           /\ After("close") = "exited"
  <1>1. PICK s \in {"file", "kafka"}, r \in {"kafka-cache", "other"}, p \in {"kafka", "log"} :
           config = Workforce(s, r, p)
    BY DEF Configurations, Mcp, Projector, Reports
  <1> DEFINE rest == <<"serve", "notReady", "stopCatalogue", "stopRate", "shutdown", "stopRelay",
                       "awaitRelay", "close", "exited">>
             from == IF s = "kafka" THEN <<"dialCatalogue", "replayCatalogue">> ELSE <<"loadFile">>
             rates == IF r = "kafka-cache" THEN <<"dialRate", "replayRate">> ELSE << >>
             first == from \o <<"migrate", "openPool">> \o rates
  <1>2. config.steps = first \o rest
    BY <1>1 DEF Workforce
  <1>3. first \in Seq(BootStages)
    <2>1. from \in Seq(BootStages)
      <3>1. <<"dialCatalogue", "replayCatalogue">> \in Seq(BootStages)
        BY DEF BootStages, Retried, Replaying
      <3>2. <<"loadFile">> \in Seq(BootStages)
        BY DEF BootStages
      <3> QED
        BY <3>1, <3>2
    <2>2. rates \in Seq(BootStages)
      <3>1. <<"dialRate", "replayRate">> \in Seq(BootStages)
        BY DEF BootStages, Retried, Replaying
      <3> QED
        BY <3>1
    <2>3. <<"migrate", "openPool">> \in Seq(BootStages)
      BY DEF BootStages, Retried, Replaying
    <2> HIDE DEF from, rates
    <2> QED
      BY <2>1, <2>2, <2>3
  <1>4. PICK tail : tail = rest
    OBVIOUS
  <1> DEFINE Late == {"serve", "notReady", "stopCatalogue", "stopRate", "shutdown", "stopRelay",
                      "awaitRelay", "close", "exited"}
  <1>5. tail \in Seq(Late) /\ Len(tail) = 9
    <2>1. tail \in Seq(Late)
      BY <1>4
    <2>2. Len(tail) = 9
      BY <1>4
    <2> QED
      BY <2>1, <2>2
  <1>6. /\ tail[1] = "serve" /\ tail[2] = "notReady" /\ tail[3] = "stopCatalogue"
        /\ tail[4] = "stopRate" /\ tail[5] = "shutdown" /\ tail[6] = "stopRelay"
        /\ tail[7] = "awaitRelay" /\ tail[8] = "close" /\ tail[9] = "exited"
    BY <1>4
  <1> HIDE DEF rest, first
  <1>7. config.steps = first \o tail
    BY <1>2, <1>4
  <1>8. ASSUME NEW k \in 1 .. 8, NEW name, tail[k] = name
        PROVE  After(name) = tail[k + 1]
    <2>1. name \notin BootStages /\ \A j \in 1 .. 9 : tail[j] = name => j = k
      BY <1>6, <1>8 DEF BootStages, Retried, Replaying
    <2>2. k \in 1 .. Len(tail) - 1
      BY <1>5
    <2> QED
      BY <1>3, <1>5, <1>7, <1>8, <2>1, <2>2, Following
  <1> QED
    BY <1>6, <1>8

-----------------------------------------------------------------------------
(* The boot *)

LEMMA BootInvInit == ASSUME LifecycleInit PROVE BootInv
  BY LifecycleAssumption, DelayDoubles DEF LifecycleInit, BootInv

\* Every failed attempt waits for the delay and doubles it.
LEMMA BootInvNext == ASSUME BootInv, [LifecycleNext]_lifecycleVars PROVE BootInv'
  <1> USE LifecycleAssumption
  <1> HIDE DEF DelayAfter
  <1>1. CASE UNCHANGED lifecycleVars
    BY <1>1 DEF lifecycleVars, BootInv
  <1>2. CASE BootStep
    BY <1>2, DelayDoubles DEF BootStep, BootInv
  <1>3. CASE BootWait
    <2>1. attempts' \in 1 .. Retries /\ attempts' - 1 = attempts
      BY <1>3 DEF BootWait, BootInv
    <2>2. DelayAfter[attempts'] = 2 * DelayAfter[attempts]
      BY <2>1, DelayDoubles
    <2>3. /\ attempts' = attempts + 1 /\ attempts + 1 < Retries /\ attempts \in Nat
          /\ delay \in Nat /\ delay' = 2 * delay /\ waited' = waited + delay
          /\ delay = DelayAfter[attempts] /\ waited = delay - Delay
          /\ stage' = stage /\ stage \in Retried /\ stage # "refused"
      BY <1>3 DEF BootWait, BootInv, Retried
    <2>4. attempts' \in 0 .. Retries - 1 /\ delay' \in Nat /\ waited' = delay' - Delay
      BY <2>3
    <2>5. delay' = DelayAfter[attempts']
      BY <2>2, <2>3
    <2> QED
      BY <2>3, <2>4, <2>5 DEF BootInv
  <1>4. CASE BootGivesUp
    BY <1>4 DEF BootGivesUp, Refuse, boot, BootInv
  <1>5. CASE LoadFile
    BY <1>5 DEF LoadFile, Refuse, boot, BootInv, Retried
  <1>6. CASE Wait
    BY <1>6 DEF Wait, Gate, GateTimesOut, Refuse, boot, BootInv, Retried, Replaying
  <1>7. CASE Advance
    BY <1>7 DEF Advance, StopReader, CancelConsumer, CloseListener, Drain, StopRelay, AwaitRelay,
       Exit, Leave, boot, BootInv, Retried
  <1>8. CASE Signal \/ Expire \/ ListenerFails \/ ListenerFailsUnnoticed
    BY <1>8 DEF Signal, Expire, ListenerFails, ListenerFailsUnnoticed, boot, BootInv, Retried
  <1>9. CASE \E c \in Caches : ReplayEnds(c) \/ ReaderFails(c)
    BY <1>9 DEF ReplayEnds, ReaderFails, boot, BootInv
  <1>10. CASE \E r \in Requests : Accept(r) \/ Serve(r)
    BY <1>10 DEF Accept, Serve, BeginTx, CommitTx, RollBack, AnswerRequest, RequestFrame,
       boot, BootInv
  <1>11. CASE Work
    BY <1>11 DEF Work, Claim, Fetch, Send, CommitPass, AbortPass, ConsumerFails, WorkerStops,
       WorkerFrame, boot, BootInv
  <1> QED
    BY <1>1, <1>2, <1>3, <1>4, <1>5, <1>6, <1>7, <1>8, <1>9, <1>10, <1>11 DEF LifecycleNext, Boot

\* (bootretry, "comfortably past the ~10s first-dial reset") Whatever a pod dials, in any
\* binary and configuration, it refuses to boot for a failing dial only after it has
\* waited for longer than the reset lasts.
THEOREM BootSurvivesTheReset == LifecycleSpec => []SurvivesTheReset
  <1>1. ASSUME BootInv PROVE SurvivesTheReset
    <2> HIDE DEF DelayAfter
    <2> QED
      BY <1>1, ResetAssumption, LifecycleAssumption DEF BootInv, SurvivesTheReset
  <1> QED
    BY <1>1, BootInvInit, BootInvNext, PTL DEF LifecycleSpec

-----------------------------------------------------------------------------
(* The shutdown *)

LEMMA ShutdownInvInit == ASSUME LifecycleInit PROVE ShutdownInv
  BY DEF LifecycleInit, ShutdownInv

\* Steps that move neither the stage nor the requests.
LEMMA ShutdownFrame ==
    ASSUME ShutdownInv, UNCHANGED <<config, stage, ready, req, cancelled>>,
           listening' => listening, deadline => deadline'
    PROVE  ShutdownInv'
  BY DEF ShutdownInv, RequestsInFlight

\* A request in flight may come to its end; none comes once the listener is closed.
LEMMA RequestShutdown ==
    ASSUME ShutdownInv, NEW r \in Requests, Accept(r) \/ Serve(r)
    PROVE  ShutdownInv'
  <1>1. UNCHANGED <<config, stage, ready, listening, deadline, cancelled>>
    BY DEF Accept, Serve, BeginTx, CommitTx, RollBack, AnswerRequest, RequestFrame
  <1>2. req' \in [Requests -> {"none", "begun", "open", "committed", "answered", "failed"}]
    BY DEF ShutdownInv, Accept, Serve, BeginTx, CommitTx, RollBack, AnswerRequest, Becomes
  <1>3. ~listening /\ RequestsInFlight = {} => RequestsInFlight' = {}
    BY DEF ShutdownInv, RequestsInFlight, Accept, Serve, BeginTx, CommitTx, RollBack, AnswerRequest
  <1> QED
    BY <1>1, <1>2, <1>3 DEF ShutdownInv

\* A stage of the shutdown leads to the next one of the binary's sequence.
LEMMA ShutdownInvNext == ASSUME ShutdownInv, [LifecycleNext]_lifecycleVars PROVE ShutdownInv'
  <1> DEFINE workforce == config.binary = "workforce"
  <1>0. /\ config \in Configurations
        /\ workforce => /\ After("serve") = "notReady"
                        /\ After("notReady") = "stopCatalogue"
                        /\ After("stopCatalogue") = "stopRate"
                        /\ After("shutdown") = "stopRelay"
                        /\ After("stopRelay") = "awaitRelay"
                        /\ After("awaitRelay") = "close"
                        /\ After("close") = "exited"
    BY WorkforceOrder DEF ShutdownInv
  <1>1. CASE UNCHANGED lifecycleVars
    BY <1>1, ShutdownFrame DEF lifecycleVars
  <1>2. CASE Boot \/ Wait
    <2>1. /\ UNCHANGED <<config, ready, deadline, req, cancelled>>
          /\ stage \in {"dialCatalogue", "migrate", "openPool", "dialRate", "replayCatalogue",
                        "replayRate", "loadFile"}
      BY <1>2 DEF Boot, BootStep, BootWait, BootGivesUp, LoadFile, Wait, Gate, GateTimesOut,
         Refuse, Retried, Replaying
    <2>2. ready /\ ~(workforce /\ cancelled)
      BY <2>1 DEF ShutdownInv
    <2> QED
      BY <2>1, <2>2 DEF ShutdownInv
  <1>3. CASE StopReader
    BY <1>0, <1>3 DEF StopReader, ShutdownInv, RequestsInFlight
  <1>4. CASE CancelConsumer
    BY <1>4 DEF CancelConsumer, ShutdownInv
  <1>5. CASE CloseListener
    BY <1>5 DEF CloseListener, ShutdownInv
  <1>6. CASE Drain
    BY <1>0, <1>6 DEF Drain, Leave, ShutdownInv, RequestsInFlight
  <1>7. CASE StopRelay
    BY <1>0, <1>7 DEF StopRelay, Leave, ShutdownInv, RequestsInFlight
  <1>8. CASE AwaitRelay \/ Exit
    <2>1. /\ UNCHANGED <<config, ready, listening, deadline, req, cancelled>>
          /\ \/ stage = "awaitRelay" /\ stage' = After("awaitRelay")
             \/ stage = "close" /\ stage' = After("close")
      BY <1>8 DEF AwaitRelay, Exit, Leave
    <2> QED
      BY <1>0, <2>1 DEF ShutdownInv, RequestsInFlight
  <1>9. CASE Signal
    <2>1. /\ stage = "serve" /\ stage' = After("serve") /\ ready' = (config.binary # "workforce")
          /\ UNCHANGED <<config, listening, deadline, req, cancelled>>
      BY <1>9 DEF Signal
    <2>2. ready /\ ~(workforce /\ cancelled)
      BY <2>1 DEF ShutdownInv
    <2> QED
      BY <1>0, <2>1, <2>2 DEF ShutdownInv
  <1>10. CASE ListenerFails
    <2>1. /\ stage = "serve" /\ stage' = "close" /\ listening' = FALSE
          /\ UNCHANGED <<config, ready, deadline, req>>
      BY <1>10 DEF ListenerFails
    <2> QED
      BY <2>1 DEF ShutdownInv
  <1>11. CASE Expire \/ ListenerFailsUnnoticed
    BY <1>11, ShutdownFrame DEF Expire, ListenerFailsUnnoticed
  <1>12. CASE \E c \in Caches : ReplayEnds(c) \/ ReaderFails(c)
    BY <1>12, ShutdownFrame DEF ReplayEnds, ReaderFails
  <1>13. CASE Work
    BY <1>13, ShutdownFrame DEF Work, Claim, Fetch, Send, CommitPass, AbortPass, ConsumerFails,
       WorkerStops, WorkerFrame
  <1> QED
    BY <1>1, <1>2, <1>3, <1>4, <1>5, <1>6, <1>7, <1>8, <1>9, <1>10, <1>11, <1>12, <1>13,
       RequestShutdown DEF LifecycleNext, Advance

\* (serveWorkforce) For any number of requests, the relay of a process that is shut down
\* is not cancelled, and the process does not end, while a request is in flight within
\* the deadline.
THEOREM RelayOutlivesThem == LifecycleSpec => []RelayOutlivesRequests
  <1>1. ASSUME ShutdownInv PROVE RelayOutlivesRequests
    BY <1>1 DEF ShutdownInv, RelayOutlivesRequests
  <1> QED
    BY <1>1, ShutdownInvInit, ShutdownInvNext, PTL DEF LifecycleSpec

=============================================================================
