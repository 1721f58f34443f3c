-------------------------- MODULE AtomicAssignment --------------------------
(***************************************************************************)
(* The same promise for LaborAssignment: one object per associate, changed *)
(* only by Assign and EndActive applied to its latest value.  An interval  *)
(* that was active is closed into the history before another replaces it.  *)
(***************************************************************************)
EXTENDS RosterDomain

VARIABLE object   \* object[a]: NoRow or the active interval and the history

Fresh == [active |-> NoInterval, history |-> << >>]

Latest(a) == IF object[a] = NoRow THEN Fresh ELSE object[a]

Init == object = [a \in Associates |-> NoRow]

Assign(a) ==
    \E path \in Paths, at \in Times :
        object' = [object EXCEPT ![a] =
            [active  |-> [path |-> path, start |-> at],
             history |-> CloseActive(Latest(a).active, Latest(a).history, at)]]

EndActive(a) ==
    /\ Latest(a).active # NoInterval
    /\ \E at \in Times :
        object' = [object EXCEPT ![a] =
            [active  |-> NoInterval,
             history |-> CloseActive(Latest(a).active, Latest(a).history, at)]]

Next == \E a \in Associates : Assign(a) \/ EndActive(a)

Spec == Init /\ [][Next]_object

=============================================================================
