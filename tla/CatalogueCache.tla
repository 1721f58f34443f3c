---------------------------- MODULE CatalogueCache ----------------------------
(***************************************************************************)
(* The Kafka-fed process-path catalogue (kafkacatalog.Consumer): the       *)
(* latest definition of every path, and the lookups in it.  A message is   *)
(* [kind, path, def]; the producer keys messages by path, so a path's      *)
(* messages are in order.  A definition may have an empty prefix, or the   *)
(* prefix of another path: only the file loader validates.                 *)
(***************************************************************************)
EXTENDS ReplayReader, PathCatalogue, SequencesExt

CONSTANTS
    CatalogueTopics, \* the topics considered at boot: [Partitions -> Seq(message)]
    PartitionOf(_),  \* the partition of a path's messages
    PathIds,         \* the path ids looked up
    Published        \* the messages the producer may still write

\* Everything the topic may hold.
Messages == Published \cup
    UNION {{h[t][n] : n \in 1 .. Len(h[t])} : h \in CatalogueTopics, t \in Partitions}

\* A path id or a match prefix, split at its dashes.
Split(s) == s \in Seq(ToSet(s))

ASSUME CatalogueAssumption ==
    /\ CatalogueTopics \subseteq [Partitions -> Seq(Messages)]
    /\ \A m \in Messages :
        /\ m.kind \in {"upsert", "deactivated", "skipped"}
        /\ PartitionOf(m.path) \in Partitions
        /\ m.kind = "upsert" => Split(m.def.prefix)
    /\ \A id \in PathIds : Split(id)
    /\ \A h \in CatalogueTopics : \A t \in Partitions :
        \A n \in 1 .. Len(h[t]) : PartitionOf(h[t][n].path) = t

VARIABLE paths       \* Consumer.paths: a function on the known paths

catalogueVars == <<log, expired, phase, captured, goal, target, pos, offset, handled,
                   ready, upsets, paths>>

NoPaths == [id \in {} |-> 0]

CatalogueInit == ReaderInit(CatalogueTopics) /\ paths = NoPaths

\* Mutant: a deactivated path stays in the cache.
HandledWithoutRemoval(known, m) ==
    IF m.kind # "upsert" THEN known
    ELSE [id \in DOMAIN known \cup {m.path} |-> IF id = m.path THEN m.def ELSE known[id]]

\* handle: "skipped" stands for what does not decode or is outside the contract.
Handled(known, m) ==
    CASE m.kind = "upsert" ->
            [id \in DOMAIN known \cup {m.path} |-> IF id = m.path THEN m.def ELSE known[id]]
      [] m.kind = "deactivated" -> [id \in DOMAIN known \ {m.path} |-> known[id]]
      [] m.kind = "skipped" -> known

\* Consumer.Lookup: a Catalogue of the known definitions, in the order in which the map
\* happens to be iterated, is built for every call.
Definitions == {paths[id] : id \in DOMAIN paths}
Answers(id) == {Lookup(defs, id) : defs \in {d \in SetToSeqs(Definitions) : Known(d, id)}}

ReadPath(t) == Read(t) /\ paths' = Handled(paths, log[t][NextOf(t)])

\* Mutant: the next process inherits the cache.
NewCatalogueKeepingPaths == Restart /\ UNCHANGED paths

NewCatalogue == Restart /\ paths' = NoPaths

CatalogueNext ==
    \/ \E t \in Partitions :
        \/ ReadPath(t)
        \/ (Capture(t) \/ CommitOffset(t) \/ Rejoin(t) \/ Expire(t)) /\ UNCHANGED paths
    \/ \E m \in Published : Produce(PartitionOf(m.path), m) /\ UNCHANGED paths
    \/ (CaptureFails \/ Start \/ ReaderFails) /\ UNCHANGED paths
    \/ NewCatalogue

CatalogueSpec == CatalogueInit /\ [][CatalogueNext]_catalogueVars

\* The boot sequence and the Run goroutine keep running; a rebalance, a restart or
\* a write need not happen.
FairCatalogueSpec ==
    /\ CatalogueSpec
    /\ WF_catalogueVars(Start /\ UNCHANGED paths)
    /\ \A t \in Partitions :
        WF_catalogueVars(Capture(t) /\ UNCHANGED paths) /\ WF_catalogueVars(ReadPath(t))

-----------------------------------------------------------------------------
(* Properties *)

\* The handled messages of a path, and the last of them.
About(id) == {n \in handled[PartitionOf(id)] : log[PartitionOf(id)][n].path = id
                                            /\ log[PartitionOf(id)][n].kind # "skipped"}
LastAbout(id) == log[PartitionOf(id)][CHOOSE n \in About(id) : \A k \in About(id) : k <= n]

UpToDate(id) ==
    IF About(id) = {} \/ (About(id) # {} /\ LastAbout(id).kind = "deactivated")
    THEN id \notin DOMAIN paths
    ELSE id \in DOMAIN paths /\ paths[id] = LastAbout(id).def

AllPaths == {m.path : m \in Messages}

\* A reader that was sent back is settled again when it is past what it had read.
Settled(t) == \A n \in handled[t] : n <= pos[t]

\* Retention has deleted all that was handled about id: a reader that was sent back and
\* has read an older message again may have found the later ones gone.
Outrun(id) ==
    upsets > 0 /\ About(id) # {} /\ \A n \in About(id) : n <= expired[PartitionOf(id)]

\* (kafkacatalog, "a latest-value-per-path cache") Wherever the reader is not behind
\* what it has already handled, the cache holds the latest handled message of every
\* path of the partition: redeliveries leave no trace once they are over, unless
\* retention has overtaken them.
SettledCacheIsLatest ==
    \A id \in AllPaths : Settled(PartitionOf(id)) /\ ~Outrun(id) => UpToDate(id)

\* (Lookup, "a more specific declaration always takes precedence over a more general
\* one") In a settled cache a path id is unknown exactly when no path, by its latest
\* message, has a prefix of it; and whatever the order of the map, a lookup answers a
\* latest definition than which no other of a longer prefix of the id exists.  Of two
\* paths that declare the same prefix it may answer either.
LookupsSeeTheLatest ==
    (\A id \in AllPaths : Settled(PartitionOf(id)) /\ ~Outrun(id)) =>
        LET live == {id \in AllPaths : About(id) # {} /\ LastAbout(id).kind = "upsert"}
            defs == {LastAbout(id).def : id \in live}
        IN  \A id \in PathIds :
                LET prefixes == {SubSeq(id, 1, n) : n \in 1 .. Len(id)}
                    own == {d \in defs : d.prefix \in prefixes}
                IN  Answers(id) = {d \in own : \A c \in own : Len(c.prefix) <= Len(d.prefix)}

\* (WaitReady, NewConsumerForTopic) A process whose reader keeps running becomes
\* ready, also on an empty topic and when nothing new is written, unless retention
\* has deleted the tail it waits for.
BecomesReady ==
    <>[](phase # "stopped" /\ expired = Nothing) => <>[]ready

-----------------------------------------------------------------------------
(* The inductive invariant of ReplayedCachesProofs *)

\* The partitions hold what was written to them, each message in its path's partition.
TopicInv ==
    /\ LogsOf(Messages)
    /\ \A t \in Partitions : \A n \in 1 .. Len(log[t]) : PartitionOf(log[t][n].path) = t

\* The cache shows the message n about id, and only messages that the reader has yet to
\* read again, or can no longer, are newer.
Shows(id, n) ==
    LET t == PartitionOf(id)
        m == log[t][n]
    IN  /\ IF m.kind = "deactivated" THEN id \notin DOMAIN paths
           ELSE id \in DOMAIN paths /\ paths[id] = m.def
        /\ \A k \in About(id) : k <= n \/ pos[t] < k \/ (k <= expired[t] /\ upsets > 0)

CacheInv(id) ==
    \/ About(id) = {} /\ id \notin DOMAIN paths
    \/ \E n \in About(id) : Shows(id, n)

CatalogueIInv ==
    /\ TopicInv
    /\ ReaderInv
    /\ IsFiniteSet(DOMAIN paths) /\ DOMAIN paths \subseteq AllPaths
    /\ \A id \in AllPaths : CacheInv(id)

=============================================================================
