---------------------------- MODULE RosterDomain ----------------------------
(***************************************************************************)
(* The two roster aggregates as values and the methods of the domain layer *)
(* as operators on them: AssociateShift (internal/domain/associate) and    *)
(* LaborAssignment (internal/domain/assignment).  A method that can return *)
(* an error is a pair: a predicate Can... (no error) and the new value.    *)
(* One tick of the clock is one hour.                                      *)
(***************************************************************************)
EXTENDS Integers, Sequences

CONSTANTS
    Associates,        \* shared.AssociateId
    Paths,             \* shared.PathId; a path's certification has its name
    MaxHoursPerShift,  \* MAX_HOURS_PER_SHIFT
    MaxTime,           \* bound: the clock stops here
    NoRow,             \* pgx.ErrNoRows / ports.ErrNotFound
    NoInterval         \* LaborAssignment.active = nil

ASSUME DomainAssumption ==
    /\ MaxHoursPerShift \in Nat
    /\ MaxTime \in Nat

Times == 0 .. MaxTime

\* Every difference of two clock readings.
Durations == (-MaxTime) .. MaxTime

-----------------------------------------------------------------------------
(* AssociateShift *)

Shift == [certs : SUBSET Paths, onBreak : BOOLEAN, hours : Int, ended : BOOLEAN]

NewAssociateShift(certs) ==
    [certs |-> certs, onBreak |-> FALSE, hours |-> 0, ended |-> FALSE]

CanCertify(s) == ~s.ended
Certify(s, c) == [s EXCEPT !.certs = @ \cup {c}]

CanStartBreak(s) == ~s.ended /\ ~s.onBreak
StartBreak(s) == [s EXCEPT !.onBreak = TRUE]

CanEndBreak(s) == ~s.ended /\ s.onBreak
EndBreak(s) == [s EXCEPT !.onBreak = FALSE]

CanBeAssigned(s) == ~s.ended /\ ~s.onBreak

CanLogHours(s, h) == ~s.ended /\ s.hours + h <= MaxHoursPerShift

\* Mutant: the hours of the last interval replace the total.
LogHoursOverwriting(s, h) == [s EXCEPT !.hours = h]

LogHours(s, h) == [s EXCEPT !.hours = @ + h]

EndShift(s) == [s EXCEPT !.ended = TRUE]

-----------------------------------------------------------------------------
(* LaborAssignment: an open interval at most, and the closed ones in order *)

Interval == [path : Paths, start : Times]
Closed == [path : Paths, start : Times, end : Times]

ASSUME NilAssumption ==
    /\ NoInterval \notin Interval
    /\ NoRow \notin Shift

Hours(iv) == iv.end - iv.start

CloseAt(iv, at) == [path |-> iv.path, start |-> iv.start, end |-> at]

\* Mutant: the interval enters the history before its end is set.
CloseActiveWithoutEnd(active, history, at) ==
    IF active = NoInterval THEN history ELSE Append(history, active)

\* Mutant: the latest interval first, as a query ordered the other way returns them.
CloseActiveInFront(active, history, at) ==
    IF active = NoInterval THEN history ELSE <<CloseAt(active, at)>> \o history

\* closeActive: the active interval, if any, moves to the end of the history.
CloseActive(active, history, at) ==
    IF active = NoInterval THEN history ELSE Append(history, CloseAt(active, at))

=============================================================================
