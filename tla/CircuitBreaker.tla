---------------------------- MODULE CircuitBreaker ----------------------------
(***************************************************************************)
(* The circuit breaker around an outbound client (internal/resilience and  *)
(* the two BreakerClients), shared by the request goroutines of a process. *)
(* With MaxAttempts = 1 it is fulfillmentexecution's, with 3 it is         *)
(* laborperformance's, whose retry loop is one call of the breaker.        *)
(*                                                                         *)
(* The breaker itself is sony/gobreaker: states, counts and generations as *)
(* the code configures them.  A call belongs to the generation in which it *)
(* began: a change of state, and the end of a closed window, make the      *)
(* calls in flight stale.  Windows and cooldowns end at any time.          *)
(***************************************************************************)
EXTENDS Integers, FiniteSets

CONSTANTS
    Callers,           \* request goroutines
    Kinds,             \* kinds of calls: "mapped" paths, "unmapped" ones (no task type)
                       \* and "unmeasured" ones (no data recorded yet)
    ConsecutiveLimit,  \* ReadyToTrip: 5
    MinVolume,         \* minRequestVolumeForErrorRate: 10
    MaxAttempts,       \* maxRetryAttempts, or 1
    MaxVolume,         \* bound: requests of a closed window
    MaxOutages,        \* bound: changes of the dependency's health
    MaxCancels         \* bound: callers that give up

\* DefaultMaxRequests.
ProbeLimit == 1

ASSUME BreakerAssumption ==
    /\ ConsecutiveLimit \in Nat \ {0}
    /\ MinVolume \in Nat \ {0}
    /\ MaxAttempts \in Nat \ {0}
    /\ MaxVolume \in Nat /\ MaxOutages \in Nat /\ MaxCancels \in Nat

VARIABLES
    state,     \* "closed", "halfopen" or "open"
    counts,    \* gobreaker.Counts of the current generation
    due,       \* the window's or the cooldown's end has passed
    pc,        \* pc[p]: "idle", "call", or "stale" for a call of an old generation
    kind,      \* kind[p]: what p asks for
    attempt,   \* attempt[p]: attempts made by its retry loop
    reply,     \* reply[p]: how its last call ended
    healthy,   \* the dependency answers
    outages,   \* changes of its health so far
    cancels,   \* callers that have given up
    evidence   \* calls of this generation that have failed

breaker == <<state, counts, due, evidence>>
vars == <<state, counts, due, pc, kind, attempt, reply, healthy, outages, cancels, evidence>>

Zero == [requests |-> 0, failures |-> 0, streak |-> 0]

Init ==
    /\ state = "closed"
    /\ counts = Zero
    /\ due = FALSE
    /\ pc = [p \in Callers |-> "idle"]
    /\ kind = [p \in Callers |-> CHOOSE k \in Kinds : TRUE]
    /\ attempt = [p \in Callers |-> 0]
    /\ reply = [p \in Callers |-> "none"]
    /\ healthy = TRUE
    /\ outages = 0
    /\ cancels = 0
    /\ evidence = 0

-----------------------------------------------------------------------------
(* gobreaker *)

\* Mutant: the consecutive leg ignores how many calls have failed in a row.
TripOnAnyFailure(c) == c.failures >= 1

ReadyToTrip(c) ==
    \/ c.streak >= ConsecutiveLimit
    \/ c.requests >= MinVolume /\ 2 * c.failures > c.requests

\* The other calls in flight when p's step begins a generation.
Stale(p) == [q \in Callers |-> IF q # p /\ pc[q] = "call" THEN "stale" ELSE pc[q]]

\* currentState when p looks at the breaker: an elapsed window or cooldown is over.
Lapsed == due /\ state # "halfopen"
StateNow == IF Lapsed /\ state = "open" THEN "halfopen" ELSE state
CountsNow == IF Lapsed THEN Zero ELSE counts
EvidenceNow == IF Lapsed THEN 0 ELSE evidence

\* What p's step leaves in the breaker.
Set(s, c, e) == state' = s /\ counts' = c /\ due' = FALSE /\ evidence' = e
Keep(c, e) == state' = StateNow /\ counts' = c /\ evidence' = e /\ due' = (due /\ ~Lapsed)

Elapse ==
    /\ ~due
    /\ state # "halfopen"
    /\ due' = TRUE
    /\ UNCHANGED <<state, counts, pc, kind, attempt, reply, healthy, outages, cancels, evidence>>

\* Mutant: half-open lets every call through.
RejectsWhenOpen == StateNow = "open"

Rejects == StateNow = "open" \/ (StateNow = "halfopen" /\ CountsNow.requests >= ProbeLimit)

\* beforeRequest lets the call through.
Begin(p, k) ==
    /\ pc[p] = "idle"
    /\ ~Rejects
    /\ CountsNow.requests < MaxVolume
    /\ Keep([CountsNow EXCEPT !.requests = @ + 1], EvidenceNow)
    /\ pc' = [(IF Lapsed THEN Stale(p) ELSE pc) EXCEPT ![p] = "call"]
    /\ kind' = [kind EXCEPT ![p] = k]
    /\ attempt' = [attempt EXCEPT ![p] = 0]
    /\ reply' = [reply EXCEPT ![p] = "none"]
    /\ UNCHANGED <<healthy, outages, cancels>>

\* ErrOpenState or ErrTooManyRequests: the PermissiveClient answers "unavailable".
Fallback(p) ==
    /\ pc[p] = "idle"
    /\ Rejects
    /\ Keep(CountsNow, EvidenceNow)
    /\ pc' = IF Lapsed THEN Stale(p) ELSE pc
    /\ reply' = [reply EXCEPT ![p] = "unavailable"]
    /\ UNCHANGED <<kind, attempt, healthy, outages, cancels>>

Answer(p, r) == reply' = [reply EXCEPT ![p] = r] /\ UNCHANGED <<kind, attempt>>

\* A result of an old generation, or of a window that has just ended, is dropped.
Dropped(p) == pc[p] = "stale" \/ Lapsed
Drop(p) ==
    /\ Keep(CountsNow, EvidenceNow)
    /\ pc' = [(IF Lapsed THEN Stale(p) ELSE pc) EXCEPT ![p] = "idle"]

Idle(p, callers) == pc' = [callers EXCEPT ![p] = "idle"]

\* Mutant: a successful probe leaves the breaker half-open.
AfterSuccessStillProbing(p) ==
    IF Dropped(p) THEN Drop(p)
    ELSE Keep([counts EXCEPT !.streak = 0], evidence) /\ Idle(p, pc)

\* afterRequest with a success: it ends a streak, or closes a half-open breaker.
AfterSuccess(p) ==
    IF Dropped(p) THEN Drop(p)
    ELSE IF state = "halfopen" THEN Set("closed", Zero, 0) /\ Idle(p, Stale(p))
    ELSE Keep([counts EXCEPT !.streak = 0], evidence) /\ Idle(p, pc)

\* afterRequest with a failure: it may trip the breaker, and re-opens a half-open one.
AfterFailure(p) ==
    LET c == [counts EXCEPT !.failures = @ + 1, !.streak = @ + 1]
    IN  IF Dropped(p) THEN Drop(p)
        ELSE IF state = "halfopen" \/ ReadyToTrip(c) THEN Set("open", Zero, 0) /\ Idle(p, Stale(p))
        ELSE Keep(c, evidence + 1) /\ Idle(p, pc)

-----------------------------------------------------------------------------
(* The clients *)

Calling(p) == pc[p] \in {"call", "stale"}

\* An attempt fails when the dependency is down, and when it answers that nothing has
\* been measured yet: Client.MeanActualSeconds returns the same error for both.
Failing(p) == kind[p] = "unmeasured" \/ (kind[p] = "mapped" /\ ~healthy)

\* An attempt that answers.
Succeed(p) ==
    /\ Calling(p)
    /\ kind[p] = "mapped"
    /\ healthy
    /\ AfterSuccess(p)
    /\ Answer(p, "value")
    /\ UNCHANGED <<healthy, outages, cancels>>

\* retryingFetch: another attempt.
RetryAttempt(p) ==
    /\ Calling(p)
    /\ Failing(p)
    /\ attempt[p] + 1 < MaxAttempts
    /\ attempt' = [attempt EXCEPT ![p] = @ + 1]
    /\ UNCHANGED <<breaker, pc, kind, reply, healthy, outages, cancels>>

\* The last attempt fails, or the deadline of CallTimeout passes.
GiveUp(p) ==
    /\ Calling(p)
    /\ Failing(p)
    /\ AfterFailure(p)
    /\ Answer(p, "unavailable")
    /\ UNCHANGED <<healthy, outages, cancels>>

\* retryingFetch of a path without a task type: no HTTP call, and an error.
NoTaskType(p) ==
    /\ Calling(p)
    /\ kind[p] = "unmapped"
    /\ AfterFailure(p)
    /\ Answer(p, "unavailable")
    /\ UNCHANGED <<healthy, outages, cancels>>

\* IsExcluded: the caller's context is cancelled.  The result counts neither way; the
\* library may or may not give the request's place back.
Cancel(p) ==
    /\ Calling(p)
    /\ cancels < MaxCancels
    /\ cancels' = cancels + 1
    /\ IF Dropped(p) THEN Drop(p)
       ELSE /\ \/ Keep(counts, evidence)
               \/ Keep([counts EXCEPT !.requests = @ - 1], evidence)
            /\ Idle(p, pc)
    /\ Answer(p, "cancelled")
    /\ UNCHANGED <<healthy, outages>>

\* The dependency goes down or comes back.
Outage ==
    /\ outages < MaxOutages
    /\ outages' = outages + 1
    /\ healthy' = ~healthy
    /\ UNCHANGED <<breaker, pc, kind, attempt, reply, cancels>>

-----------------------------------------------------------------------------
Proceed(p) == Succeed(p) \/ RetryAttempt(p) \/ GiveUp(p) \/ NoTaskType(p)
Ask(p) == Fallback(p) \/ \E k \in Kinds : Begin(p, k)

Next ==
    \/ Elapse
    \/ Outage
    \/ \E p \in Callers : Ask(p) \/ Proceed(p) \/ Cancel(p)

Spec == Init /\ [][Next]_vars

\* Time passes, a call that was let through ends (its timeout sees to that), and
\* requests keep coming.
FairSpec ==
    /\ Spec
    /\ WF_vars(Elapse)
    /\ \A p \in Callers : WF_vars(Proceed(p)) /\ WF_vars(Ask(p))

-----------------------------------------------------------------------------
(* Properties *)

\* The calls of the current generation.
InFlight == {p \in Callers : pc[p] = "call"}

\* (DefaultMaxRequests) While the breaker is half-open at most one call of the probing
\* generation is in flight: those that began before it opened are stale.
OneProbeAtATime == state = "halfopen" => Cardinality(InFlight) <= ProbeLimit

\* (DefaultInterval, "a failure streak from an hour ago could combine with a fresh one")
\* A closed breaker opens only on failures of its current window: a streak of the
\* limit, or enough of them to be more than half of the minimum volume.
TripsOnFreshEvidence ==
    [][(state = "closed" /\ state' = "open") =>
        evidence + 1 >= ConsecutiveLimit \/ 2 * (evidence + 1) > MinVolume]_vars

\* (DefaultTimeout, "before allowing a half-open probe") Once the dependency stays up
\* and is asked only what it can answer, the breaker closes again and again: it is never
\* open or half-open for good.  A probe whose caller gives up is left out.
Recovers ==
    <>[](healthy /\ cancels = 0 /\ \A p \in Callers : Calling(p) => kind[p] = "mapped")
        => []<>(state = "closed")

-----------------------------------------------------------------------------
(* The inductive invariant of ProcessProofs *)

BreakerTypes ==
    /\ state \in {"closed", "halfopen", "open"}
    /\ counts \in [requests : Nat, failures : Nat, streak : Nat]
    /\ pc \in [Callers -> {"idle", "call", "stale"}]
    /\ evidence \in Nat

\* The counts are of the current generation: every call of it in flight has its place
\* among the requests, and every failure its evidence.
CountsInv ==
    /\ IsFiniteSet(InFlight)
    /\ Cardinality(InFlight) <= counts.requests
    /\ state = "halfopen" => counts.requests <= ProbeLimit
    /\ counts.failures = evidence
    /\ counts.streak <= counts.failures

IInv == BreakerTypes /\ CountsInv

=============================================================================
