----------------------------- MODULE MemoryStore -----------------------------
(***************************************************************************)
(* MemoryStore (internal/adapters/outbound/analyticsstore): the projection *)
(* port as one mutex-guarded object.  Every Apply method is one step, and  *)
(* a second Apply of an event id does nothing.  It is what a projection    *)
(* promises to the consumer; PostgresProjection is shown to keep it.       *)
(***************************************************************************)
EXTENDS LaborReport

VARIABLES
    seen,    \* the event ids applied
    rows,    \* the report
    breaks,  \* breaks[a]: when a's break began, or NoStart
    latest   \* the newest OccurredAt applied

vars == <<seen, rows, breaks, latest>>

Init ==
    /\ seen = {}
    /\ rows = NoRows
    /\ breaks = [a \in Who |-> NoStart]
    /\ latest = Never

\* The first time an event id is applied; the caller holds the mutex.
firstApply(m) ==
    /\ m.id \notin seen
    /\ seen' = seen \cup {m.id}
    /\ latest' = IF m.at > latest THEN m.at ELSE latest

ApplyCounted(m) ==
    /\ m.kind \in Counted
    /\ firstApply(m)
    /\ rows' = Add(rows, m.path, m.at, One(m.kind))
    /\ UNCHANGED breaks

ApplyBreakStarted(m) ==
    /\ m.kind = "breakStarted"
    /\ firstApply(m)
    /\ rows' = Add(rows, m.path, m.at, One("breaks"))
    /\ breaks' = [breaks EXCEPT ![m.who] = m.at]

\* The duration goes to the hour in which the break began, when that is known.
ApplyBreakEnded(m) ==
    /\ m.kind = "breakEnded"
    /\ firstApply(m)
    /\ breaks' = [breaks EXCEPT ![m.who] = NoStart]
    /\ rows' = IF breaks[m.who] = NoStart THEN rows
               ELSE Add(rows, m.path, breaks[m.who], Break(m.at - breaks[m.who]))

Next == \E m \in Everything : ApplyCounted(m) \/ ApplyBreakStarted(m) \/ ApplyBreakEnded(m)

Spec == Init /\ [][Next]_vars

=============================================================================
