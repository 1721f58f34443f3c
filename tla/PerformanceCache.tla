--------------------------- MODULE PerformanceCache ---------------------------
(***************************************************************************)
(* The Kafka-fed measured rates (laborperformancecache.Consumer): running  *)
(* totals per task type, guarded by the set of event ids already folded    *)
(* in.  A message is [kind, id, type, actual, idle]; a producer that sends *)
(* an event again uses its id again.  Times are in seconds.                *)
(***************************************************************************)
EXTENDS ReplayReader, FiniteSetsExt

CONSTANTS
    TaskTopics, \* the topics considered at boot: [Partitions -> Seq(message)]
    Events,     \* the events labor-performance may record
    Route(_),   \* the partition an event is written to
    TaskTypes,  \* PICK, PACK, SLAM: the types with a process path
    NoIdle      \* idle_seconds_before = null

\* Everything the topic may hold.
Written == Events \cup
    UNION {{h[t][n] : n \in 1 .. Len(h[t])} : h \in TaskTopics, t \in Partitions}

\* actual_seconds and idle_seconds_before are whatever int64 the producer writes; an id
\* is that of one occurrence.
ASSUME CacheAssumption ==
    /\ TaskTopics \subseteq [Partitions -> Seq(Written)]
    /\ \A m \in Events : Route(m) \in Partitions
    /\ \A m \in Written : m.kind = "task" => m.actual \in Int /\ m.idle \in Int \cup {NoIdle}
    /\ \A m, n \in Written : m.kind = "task" /\ n.kind = "task" /\ m.id = n.id => m = n

VARIABLES
    totals,     \* Consumer.totals: [sum, count] by task type
    idle,       \* Consumer.idleTotals: [idle, actual, observed] by task type
    seen        \* Consumer.seen

cache == <<totals, idle, seen>>
NoTotals == [k \in TaskTypes |-> [sum |-> 0, count |-> 0]]
NoIdleTotals == [k \in TaskTypes |-> [idle |-> 0, actual |-> 0, observed |-> FALSE]]

CacheInit ==
    /\ ReaderInit(TaskTopics)
    /\ totals = NoTotals
    /\ idle = NoIdleTotals
    /\ seen = {}

\* Mutant: a task whose idle gap was not observed is left out of the share altogether.
FoldObservedOnly(m) ==
    IF m.type \notin TaskTypes THEN UNCHANGED <<totals, idle>>
    ELSE /\ totals' = [totals EXCEPT ![m.type] = [sum |-> @.sum + m.actual, count |-> @.count + 1]]
         /\ idle' = IF m.idle = NoIdle THEN idle
                    ELSE [idle EXCEPT ![m.type] =
                            [idle |-> @.idle + m.idle, actual |-> @.actual + m.actual, observed |-> TRUE]]

\* applyTaskPerformanceRecorded; a task type without a name is dropped.
Fold(m) ==
    IF m.type \notin TaskTypes THEN UNCHANGED <<totals, idle>>
    ELSE /\ totals' = [totals EXCEPT ![m.type] = [sum |-> @.sum + m.actual, count |-> @.count + 1]]
         /\ idle' = [idle EXCEPT ![m.type] =
                [idle     |-> @.idle + (IF m.idle = NoIdle THEN 0 ELSE m.idle),
                 actual   |-> @.actual + m.actual,
                 observed |-> @.observed \/ m.idle # NoIdle]]

\* Mutant: no dedupe, as in the catalogue's consumer.
HandleAlways(m) ==
    IF m.kind = "task" THEN seen' = seen \cup {m.id} /\ Fold(m) ELSE UNCHANGED cache

\* handle: markSeen, then the fold; what does not decode or is of another type is skipped.
Handle(m) ==
    IF m.kind = "task" /\ m.id \notin seen THEN seen' = seen \cup {m.id} /\ Fold(m)
    ELSE UNCHANGED cache

ReadTask(t) == Read(t) /\ Handle(log[t][NextOf(t)])

NewProcess == Restart /\ totals' = NoTotals /\ idle' = NoIdleTotals /\ seen' = {}

CacheNext ==
    \/ \E t \in Partitions :
        \/ ReadTask(t)
        \/ (Capture(t) \/ CommitOffset(t) \/ Rejoin(t) \/ Expire(t)) /\ UNCHANGED cache
    \/ \E m \in Events : Produce(Route(m), m) /\ UNCHANGED cache
    \/ (CaptureFails \/ Start \/ ReaderFails) /\ UNCHANGED cache

-----------------------------------------------------------------------------
(* What the clients ask, as fractions [n, d] *)

\* MeanActualSeconds; a path without a task type has no rate.
RateAvailable(k) == k \in TaskTypes /\ totals[k].count # 0
MeanActualSeconds(k) == [n |-> totals[k].sum, d |-> totals[k].count]

\* IdleSharePct.
ShareAvailable(k) == k \in TaskTypes /\ idle[k].observed /\ idle[k].idle + idle[k].actual > 0
IdleSharePct(k) == [n |-> idle[k].idle, d |-> idle[k].idle + idle[k].actual]

-----------------------------------------------------------------------------
(* Properties *)

\* The distinct tasks among the handled messages, and those of a type.
HandledTasks ==
    {m \in UNION {{log[t][n] : n \in handled[t]} : t \in Partitions} : m.kind = "task"}
Tasks(k) == {m \in HandledTasks : m.type = k}

Observed(S) == {m \in S : m.idle # NoIdle}

\* The seconds that tasks took, and the idle gaps before them that were observed.
Actual == [m \in Written |-> m.actual]
Gap == [m \in Written |-> m.idle]
ActualSeconds(S) == SumFunctionOnSet(Actual, S)
IdleSeconds(S) == SumFunctionOnSet(Gap, Observed(S))

\* (markSeen, "must not be folded in twice") The running totals are those of the
\* distinct tasks handled: a redelivery after a rebalance, or an event the producer
\* has sent twice, counts once, and a restart begins with none.  A share is offered
\* only after a task whose idle gap was observed.
EachTaskCountsOnce ==
    \A k \in TaskTypes :
        /\ totals[k].count = Cardinality(Tasks(k))
        /\ totals[k].sum = ActualSeconds(Tasks(k))
        /\ idle[k].actual = totals[k].sum
        /\ idle[k].idle = IdleSeconds(Tasks(k))
        /\ idle[k].observed <=> Observed(Tasks(k)) # {}

-----------------------------------------------------------------------------
(* The inductive invariant of the cache *)

TotalsInv ==
    /\ totals \in [TaskTypes -> [sum : Int, count : Nat]]
    /\ idle \in [TaskTypes -> [idle : Int, actual : Int, observed : BOOLEAN]]

\* An id was seen with a task that was handled, and with no other.
SeenInv ==
    /\ IsFiniteSet(HandledTasks)
    /\ seen = {m.id : m \in HandledTasks}

TasksInv == ReaderInv /\ LogsOf(Written) /\ TotalsInv /\ SeenInv /\ EachTaskCountsOnce

=============================================================================
