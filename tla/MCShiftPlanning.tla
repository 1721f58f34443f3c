--------------------------- MODULE MCShiftPlanning ---------------------------
(***************************************************************************)
(* ShiftPlanning for TLC: a catalogue of two families with a more specific *)
(* zone, and the request bodies of the runs.                               *)
(***************************************************************************)
EXTENDS ShiftPlanning, TLC

Pick == <<"pick">>
ZoneA == <<"pick", "zone", "a">>
Pack == <<"pack">>

MCCatalogue == <<[id |-> "PICK", prefix |-> <<"pick">>, caps |-> {"pick"}],
                 [id |-> "ZONE", prefix |-> <<"pick", "zone">>, caps |-> {"pick", "pack"}],
                 [id |-> "PACK", prefix |-> <<"pack">>, caps |-> {"pack"}]>>

Line(path, heads) == [path |-> path, heads |-> heads, hours |-> heads]
Body(ls) == [lines |-> ls, installed |-> (Pick :> 1 @@ ZoneA :> 1 @@ Pack :> 2)]

\* Accepted bodies: they share a path, each has one the other has not.
Both == Body(<<Line(Pack, 1), Line(Pick, 1)>>)
ZoneAndPack == Body(<<Line(ZoneA, 1), Line(Pack, 1)>>)

\* A path no prefix recognizes, more hours than heads can work, a path twice, no line
\* at all.  More heads than live stations: any body, where a count of 0 is fetched.
Unknown == Body(<<Line(Pack, 1), Line(<<"packing">>, 1)>>)
TooLong == Body(<<[path |-> Pack, heads |-> 1, hours |-> 3]>>)
Twice == Body(<<Line(Pack, 1), Line(Pack, 1)>>)
Empty == Body(<< >>)

AllBodies == {Both, ZoneAndPack, Unknown, TooLong, Twice, Empty}

=============================================================================
