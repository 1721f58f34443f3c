----------------------------- MODULE LaborReport -----------------------------
(***************************************************************************)
(* The labor report (internal/analytics/report): the rows the projection   *)
(* adds to and the reports service reads, and the query that selects them. *)
(* The table is a function of cells <<column, path, hour>>, 0 where there  *)
(* is no row.  The average of a row is breakSeconds / breaksWithDuration.  *)
(***************************************************************************)
EXTENDS Integers, Sequences, FiniteSetsExt

CONSTANTS
    Topics,      \* the partitions considered: sequences of messages
    HourLength,  \* clock ticks in an hour bucket
    NoStart      \* an associate without the start of a break

ASSUME ReportAssumption ==
    /\ HourLength \in Nat \ {0}
    /\ NoStart \notin Int

\* Events by what they do to the report.  "poison" does not decode; "ignored" is
\* outside the projection contract (ShiftPlanProposed, ShiftPlanCommitted).
Counted == {"shiftsStarted", "shiftsEnded", "certifications",
            "laborAssigned", "laborReassigned", "understaffing"}
BreakKinds == {"breakStarted", "breakEnded"}
Kinds == Counted \cup BreakKinds \cup {"poison", "ignored"}

Messages(t) == {t[i] : i \in 1 .. Len(t)}
Everything == UNION {Messages(t) : t \in Topics}

\* NewId of the publisher mints an id for every event.  The events of breaks go to the
\* building-wide row: they have one path, the empty one.
ASSUME EventAssumption ==
    /\ \A t \in Topics : t \in Seq(Messages(t))
    /\ IsFiniteSet(Everything)
    /\ \A m \in Everything : m.at \in Nat /\ m.kind \in Kinds
    /\ \A m, n \in Everything : m.id = n.id => m = n
    /\ \A m, n \in Everything : {m.kind, n.kind} \subseteq BreakKinds => m.path = n.path

Who == {m.who : m \in Everything}
PathIds == {m.path : m \in Everything}
Columns == Counted \cup {"breaks", "breakSeconds", "breaksWithDuration"}
Bucket(at) == at \div HourLength
Hours == {Bucket(m.at) : m \in Everything}
Cells == Columns \X PathIds \X Hours

NoRows == [cell \in Cells |-> 0]

\* The increments of one event are added to the row of a path and an hour.
Add(table, path, at, delta) ==
    [cell \in Cells |-> IF cell[1] \in DOMAIN delta /\ cell[2] = path /\ cell[3] = Bucket(at)
                        THEN table[cell] + delta[cell[1]] ELSE table[cell]]

One(column) == [c \in {column} |-> 1]
Break(seconds) ==
    [c \in {"breakSeconds", "breaksWithDuration"} |-> IF c = "breakSeconds" THEN seconds ELSE 1]

\* A report is asked for a path, or for all of them.
AnyPath == ""
Filters == PathIds \cup {AnyPath}
AsksFor(filter, path) == filter \in {AnyPath, path}

\* Mutant: the last bucket of the window is included, too.
SelectedToTheEnd(path, hour, from, to, filter) ==
    /\ hour * HourLength >= from
    /\ hour * HourLength <= to
    /\ AsksFor(filter, path)

\* WHERE hour_bucket >= from AND hour_bucket < to AND (filter = '' OR path_id = filter)
Selected(path, hour, from, to, filter) ==
    /\ hour * HourLength >= from
    /\ hour * HourLength < to
    /\ AsksFor(filter, path)

\* What the rows of a report add up to in one column.
Total(table, column, from, to, filter) ==
    SumFunctionOnSet([r \in PathIds \X Hours |-> table[<<column, r[1], r[2]>>]],
                     {r \in PathIds \X Hours : Selected(r[1], r[2], from, to, filter)})

\* FreshnessLag is the clock less the newest of the events applied; Never is its zero time.
Never == -1
Times(ids) == {Never} \cup {m.at : m \in {n \in Everything : n.id \in ids}}
Newest(ids) == Max(Times(ids))

=============================================================================
