--------------------------- MODULE MCPlanProposal ---------------------------
(***************************************************************************)
(* PlanProposal for TLC: four tasks of one type, two of them with an       *)
(* observed idle gap, one all idle, three that make a mean no float64 is   *)
(* equal to; a task without a type and a message that does not decode.     *)
(* Charges and rates that divide each other and that do not, none, and     *)
(* negative ones.                                                          *)
(***************************************************************************)
EXTENDS PlanProposal

Task(id, type, actual, gap) ==
    [kind |-> "task", id |-> id, type |-> type, actual |-> actual, idle |-> gap]

First == Task("e1", "PICK", 2, NoIdle)
Second == Task("e2", "PICK", 4, 9)
Third == Task("e3", "PICK", 1, NoIdle)
Instant == Task("e4", "PICK", 0, 3)
Unnamed == Task("e5", "", 1, 1)
Undecodable == [kind |-> "skipped", id |-> "e6", type |-> "PICK", actual |-> 0, idle |-> NoIdle]

AllEvents == {First, Second, Third}
OnePartition(m) == 0

AllTopics == {[t \in {0} |-> l] :
    l \in {<< >>, <<First, Second>>, <<Unnamed, Undecodable>>, <<Instant>>}}

Asked(c, r, k) == [charge |-> c, rate |-> r, type |-> k]
AllRequests == {Asked(0, 0, "PICK"), Asked(7, 0, "PICK"), Asked(28, 7, "PICK"), Asked(30, 7, "PICK"),
                Asked(-40, 30, ""), Asked(7, -1, "")}

=============================================================================
