----------------------------- MODULE AtomicShift -----------------------------
(***************************************************************************)
(* What the roster promises for AssociateShift: one object per associate,  *)
(* changed only by whole domain methods applied to its latest value, one   *)
(* at a time.  No reader ever sees, and no writer ever builds on, anything *)
(* but the value the previous method left.  LaborRoster implements it with *)
(* reads outside the transaction and a version column.                     *)
(***************************************************************************)
EXTENDS RosterDomain

VARIABLE object   \* object[a]: the associate's shift, NoRow before the first

Update(a, value) == object' = [object EXCEPT ![a] = value]

Init == object = [a \in Associates |-> NoRow]

Restart(a) == \E certs \in SUBSET Paths : Update(a, NewAssociateShift(certs))

Modify(a) ==
    LET s == object[a]
    IN  /\ s # NoRow
        /\ \/ CanCertify(s) /\ \E c \in Paths : Update(a, Certify(s, c))
           \/ CanStartBreak(s) /\ Update(a, StartBreak(s))
           \/ CanEndBreak(s) /\ Update(a, EndBreak(s))
           \/ \E h \in Durations : CanLogHours(s, h) /\ Update(a, LogHours(s, h))
           \/ \E h \in Durations : CanLogHours(s, h) /\ Update(a, EndShift(LogHours(s, h)))
           \/ Update(a, EndShift(s))

Next == \E a \in Associates : Restart(a) \/ Modify(a)

Spec == Init /\ [][Next]_object

=============================================================================
