--------------------------- MODULE MCCatalogueCache ---------------------------
(***************************************************************************)
(* CatalogueCache for TLC: two paths, on partitions of their own.  One is  *)
(* the more specific, until the other takes the same prefix.               *)
(***************************************************************************)
EXTENDS CatalogueCache

Def(id, prefix) == [id |-> id, prefix |-> prefix, caps |-> {id}]
Pick == Def("pick", <<"pick">>)
PickZone == Def("pick", <<"pick", "zone">>)
Zone == Def("zone", <<"pick", "zone">>)
Anything == Def("zone", << >>)

Upsert(def) == [kind |-> "upsert", path |-> def.id, def |-> def]
Deactivated(path) == [kind |-> "deactivated", path |-> path, def |-> Def(path, << >>)]
Skipped(path) == [kind |-> "skipped", path |-> path, def |-> Def(path, << >>)]

PathPartition(path) == IF path = "pick" THEN 0 ELSE 1

AllPublished == {Upsert(PickZone), Deactivated("pick"), Upsert(Zone), Skipped("zone")}

AllPathIds == {<<"pick">>, <<"pick", "zone">>, <<"pick", "zone", "a">>, <<"picking">>}

Topic(l0, l1) == [t \in {0, 1} |-> IF t = 0 THEN l0 ELSE l1]

\* A new topic; two histories, one with a path without a prefix, one whose last message
\* about a path retention can delete while there are others to read.
AllTopics == {Topic(<< >>, << >>),
                 Topic(<<Upsert(Pick)>>, <<Upsert(Anything)>>),
                 Topic(<<Upsert(Pick), Deactivated("pick"), Skipped("pick")>>, <<Upsert(Zone)>>)}

=============================================================================
