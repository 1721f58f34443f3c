------------------------ MODULE MCAnalyticsProjector ------------------------
(***************************************************************************)
(* AnalyticsProjector for TLC: the partitions of the runs.  "Redelivered"  *)
(* is what a relay that crashed before its commit sends.                   *)
(***************************************************************************)
EXTENDS AnalyticsProjector

Message(id, kind, path, at) == [id |-> id, kind |-> kind, who |-> "a1", path |-> path, at |-> at]

BreakStart(id, at) == Message(id, "breakStarted", "", at)
BreakEnd(id, at) == Message(id, "breakEnded", "", at)

TwoBreaks == <<BreakStart(1, 0), BreakEnd(2, 1), BreakStart(3, 2), BreakEnd(4, 5)>>
Redelivered == <<BreakStart(5, 0), BreakEnd(6, 1), BreakStart(5, 0), BreakEnd(6, 1)>>
Mixed == <<Message(7, "laborAssigned", "p1", 0), Message(8, "poison", "p1", 0),
           Message(7, "laborAssigned", "p1", 0), Message(9, "ignored", "p1", 1),
           Message(10, "laborReassigned", "p1", 3)>>

\* A deployment of one pod, or the two of a rebalance.
MCCrews == {{"c1"}, {"c1", "c2"}}
OnePod == {{"c1"}}

AllTopics == {TwoBreaks, Redelivered, Mixed}
MixedTopics == {Mixed}

=============================================================================
