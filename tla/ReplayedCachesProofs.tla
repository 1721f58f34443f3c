------------------------- MODULE ReplayedCachesProofs -------------------------
(***************************************************************************)
(* What the replay consumer, the two caches it feeds and the proposals     *)
(* that read one of them guarantee for every topic, every number of        *)
(* partitions, every retention and every number of rebalances and          *)
(* restarts.                                                               *)
(***************************************************************************)
EXTENDS CatalogueCache, PlanProposal, SumLemmas

-----------------------------------------------------------------------------
(* The reader, over a topic of any messages *)

\* The reader finds its next message in the log, beyond what retention has deleted.
LEMMA NextOfFacts ==
    ASSUME ReaderInv, NEW t \in Partitions
    PROVE  /\ NextOf(t) \in Nat /\ pos[t] < NextOf(t) /\ expired[t] < NextOf(t)
           /\ \A k \in Nat : pos[t] < k /\ k < NextOf(t) => k <= expired[t]
  <1>1. pos[t] \in Nat /\ expired[t] \in Nat
    BY DEF ReaderInv
  <1> QED
    BY <1>1 DEF NextOf

LEMMA ReaderInitInv == ASSUME NEW M, LogsOf(M), NEW topics, ReaderInit(topics) PROVE ReaderInv
  <1> USE DEF ReaderInit, Nothing
  <1>1. ASSUME NEW t \in Partitions PROVE PositionInv(t)
    <2>1. Len(log[t]) \in Nat
      BY DEF LogsOf
    <2>2. expired[t] = 0 /\ goal[t] = 0 /\ pos[t] = 0 /\ offset[t] = 0 /\ handled[t] = {}
      OBVIOUS
    <2>3. expired[t] + 1 .. pos[t] = {}
      BY <2>2
    <2> QED
      BY <2>1, <2>2, <2>3 DEF PositionInv
  <1> QED
    BY <1>1 DEF ReaderInv

\* The producer appends: what is in the log stays where it is.
LEMMA ProduceInv ==
    ASSUME NEW M, LogsOf(M), ReaderInv, NEW u \in Partitions, NEW m \in M, Produce(u, m)
    PROVE  /\ LogsOf(M)' /\ ReaderInv'
           /\ UNCHANGED <<expired, pos, handled, upsets, goal, ready>>
           /\ \A t \in Partitions : \A n \in 1 .. Len(log[t]) : log'[t][n] = log[t][n]
           /\ \A t \in Partitions : \A n \in 1 .. Len(log'[t]) :
                n \in 1 .. Len(log[t]) \/ (t = u /\ log'[t][n] = m)
  <1> USE DEF Produce, memory
  <1>1. log[u] \in Seq(M)
    BY DEF LogsOf
  <1>2. log' = [log EXCEPT ![u] = Append(log[u], m)]
    OBVIOUS
  <1>3. /\ Append(log[u], m) \in Seq(M)
        /\ Len(Append(log[u], m)) = Len(log[u]) + 1 /\ Len(log[u]) \in Nat
        /\ Append(log[u], m)[Len(log[u]) + 1] = m
        /\ \A n \in 1 .. Len(log[u]) : Append(log[u], m)[n] = log[u][n]
    BY <1>1
  <1>4. /\ log' \in [Partitions -> Seq(M)] /\ log'[u] = Append(log[u], m)
        /\ \A t \in Partitions \ {u} : log'[t] = log[t]
    BY <1>1, <1>2, <1>3 DEF LogsOf
  <1>5. /\ \A t \in Partitions : Len(log'[t]) >= Len(log[t]) /\ Len(log[t]) \in Nat
                                 /\ Len(log'[t]) \in Nat
        /\ \A t \in Partitions : \A n \in 1 .. Len(log[t]) : log'[t][n] = log[t][n]
    BY <1>1, <1>3, <1>4 DEF LogsOf
  <1>6. ASSUME NEW t \in Partitions, NEW n \in 1 .. Len(log'[t]), n \notin 1 .. Len(log[t])
        PROVE  t = u /\ log'[t][n] = m
    <2>1. t = u
      BY <1>4, <1>6
    <2>2. n = Len(log[u]) + 1
      BY <1>3, <1>4, <1>6, <2>1
    <2> QED
      BY <1>3, <1>4, <2>1, <2>2
  <1>7. ASSUME NEW t \in Partitions PROVE PositionInv(t)'
    BY <1>5 DEF ReaderInv, PositionInv
  <1>8. ReaderInv'
    BY <1>7 DEF ReaderInv
  <1> QED
    BY <1>4, <1>5, <1>6, <1>8 DEF LogsOf

\* The actions that do not write to the topic.
LEMMA SameTopic == ASSUME NEW M, LogsOf(M), UNCHANGED log PROVE LogsOf(M)'
  BY DEF LogsOf

LEMMA LogLength == ASSUME NEW M, LogsOf(M), NEW t \in Partitions PROVE Len(log[t]) \in Nat
  BY DEF LogsOf

LEMMA ExpireInv ==
    ASSUME NEW M, LogsOf(M), ReaderInv, NEW u \in Partitions, Expire(u)
    PROVE  /\ ReaderInv' /\ expired' \in [Partitions -> Nat]
           /\ \A t \in Partitions : expired[t] <= expired'[t] /\ expired[t] \in Nat
  <1> USE DEF Expire, memory
  <1>1. /\ expired' \in [Partitions -> Nat]
        /\ \A t \in Partitions : expired[t] <= expired'[t] /\ expired[t] \in Nat
    BY DEF ReaderInv
  <1>2. ASSUME NEW t \in Partitions PROVE PositionInv(t)'
    <2>1. expired'[t] <= Len(log[t]) /\ Len(log[t]) \in Nat
      BY LogLength DEF ReaderInv, PositionInv
    <2>2. PositionInv(t) /\ expired'[t] \in Nat /\ expired[t] \in Nat /\ expired[t] <= expired'[t]
      BY <1>1 DEF ReaderInv
    <2> QED
      BY <2>1, <2>2 DEF PositionInv
  <1>3. ASSUME NEW t \in captured \ target PROVE expired'[t] + 1 .. goal[t] \subseteq handled[t]
    BY <1>1, <1>3 DEF ReaderInv
  <1> QED
    BY <1>1, <1>2, <1>3 DEF ReaderInv

LEMMA CaptureInv ==
    ASSUME NEW M, LogsOf(M), ReaderInv, NEW u \in Partitions, Capture(u)
    PROVE  ReaderInv'
  <1> USE DEF Capture, broker
  <1>1. Len(log[u]) \in Nat /\ expired[u] \in Nat
    BY LogLength DEF ReaderInv
  <1>2. goal' \in [Partitions -> Nat] /\ goal'[u] = Len(log[u])
        /\ \A t \in Partitions \ {u} : goal'[t] = goal[t]
    BY <1>1 DEF ReaderInv
  <1>3. ASSUME NEW t \in Partitions PROVE PositionInv(t)'
    <2>1. goal'[t] \in 0 .. Len(log[t])
      BY <1>1, <1>2 DEF ReaderInv, PositionInv
    <2> QED
      BY <2>1 DEF ReaderInv, PositionInv
  <1>4. ASSUME NEW t \in captured' \ target' PROVE expired[t] + 1 .. goal'[t] \subseteq handled[t]
    <2>1. CASE t = u
      <3>1. Len(log[u]) <= expired[u]
        BY <1>1, <1>4, <2>1
      <3>2. expired[u] + 1 .. goal'[u] = {}
        BY <1>1, <1>2, <3>1
      <3> QED
        BY <2>1, <3>2
    <2>2. CASE t # u
      BY <1>2, <1>4, <2>2 DEF ReaderInv
    <2> QED
      BY <2>1, <2>2
  <1> QED
    BY <1>2, <1>3, <1>4 DEF ReaderInv

\* A process that begins again: nothing captured, nothing read.
LEMMA CaptureFailsInv == ASSUME NEW M, LogsOf(M), ReaderInv, CaptureFails PROVE ReaderInv'
  <1> USE DEF CaptureFails, Upset, Nothing, broker
  <1>1. upsets' \in Nat /\ upsets' > 0 /\ goal' \in [Partitions -> Nat]
    BY DEF ReaderInv
  <1>2. ASSUME NEW t \in Partitions PROVE PositionInv(t)'
    <2>1. goal'[t] \in 0 .. Len(log[t])
      BY LogLength
    <2>2. PositionInv(t)
      BY DEF ReaderInv
    <2> QED
      BY <1>1, <2>1, <2>2 DEF PositionInv
  <1> QED
    BY <1>1, <1>2 DEF ReaderInv

LEMMA RestartInv == ASSUME NEW M, LogsOf(M), ReaderInv, Restart PROVE ReaderInv'
  <1> USE DEF Restart, Upset, Nothing, broker
  <1>1. /\ upsets' \in Nat /\ upsets' > 0 /\ goal' \in [Partitions -> Nat]
        /\ pos' \in [Partitions -> Nat] /\ offset' \in [Partitions -> Nat]
        /\ handled' \in [Partitions -> SUBSET Nat]
    BY DEF ReaderInv
  <1>2. ASSUME NEW t \in Partitions PROVE PositionInv(t)'
    <2>1. Len(log[t]) \in Nat /\ expired[t] \in 0 .. Len(log[t])
      BY LogLength DEF ReaderInv, PositionInv
    <2>2. goal'[t] = 0 /\ pos'[t] = 0 /\ offset'[t] = 0 /\ handled'[t] = {}
      OBVIOUS
    <2>3. expired[t] + 1 .. 0 = {}
      BY <2>1
    <2> QED
      BY <1>1, <2>1, <2>2, <2>3 DEF PositionInv
  <1> QED
    BY <1>1, <1>2 DEF ReaderInv

LEMMA StartInv == ASSUME ReaderInv, Start PROVE ReaderInv'
  <1>1. ASSUME NEW t \in Partitions PROVE PositionInv(t)'
    BY DEF ReaderInv, PositionInv, Start, broker
  <1> QED
    BY <1>1 DEF ReaderInv, Start, broker

LEMMA ReaderFailsInv == ASSUME ReaderInv, ReaderFails PROVE ReaderInv'
  <1> USE DEF ReaderFails, Upset, broker, memory
  <1>1. upsets' \in Nat /\ upsets' > 0
    BY DEF ReaderInv
  <1>2. ASSUME NEW t \in Partitions PROVE PositionInv(t)'
    BY <1>1 DEF ReaderInv, PositionInv
  <1> QED
    BY <1>1, <1>2 DEF ReaderInv

LEMMA CommitOffsetInv ==
    ASSUME ReaderInv, NEW u \in Partitions, CommitOffset(u)
    PROVE  ReaderInv'
  <1> USE DEF CommitOffset, broker
  <1>1. offset' \in [Partitions -> Nat]
    BY DEF ReaderInv
  <1>2. ASSUME NEW t \in Partitions PROVE PositionInv(t)'
    <2>1. PositionInv(t) /\ pos[t] \in Nat
      BY DEF ReaderInv
    <2>2. offset'[t] \in 0 .. pos[t]
      BY <2>1 DEF ReaderInv, PositionInv
    <2> QED
      BY <2>1, <2>2 DEF PositionInv
  <1> QED
    BY <1>1, <1>2 DEF ReaderInv

\* A rebalance only ever moves the reader back.
LEMMA RejoinInv ==
    ASSUME NEW M, LogsOf(M), ReaderInv, NEW u \in Partitions, Rejoin(u)
    PROVE  /\ ReaderInv'
           /\ \A t \in Partitions : pos'[t] <= pos[t]
           /\ upsets' > 0
  <1> USE DEF Rejoin, Upset, broker
  <1>1. pos' \in [Partitions -> Nat] /\ upsets' \in Nat /\ upsets' > 0
    BY DEF ReaderInv
  <1>2. ASSUME NEW t \in Partitions PROVE pos'[t] <= pos[t] /\ PositionInv(t)'
    <2>1. /\ PositionInv(t) /\ pos[t] \in Nat /\ offset[t] \in Nat
          /\ expired[t] \in Nat /\ Len(log[t]) \in Nat
      BY LogLength DEF ReaderInv
    <2>2. /\ pos'[t] \in Nat /\ pos'[t] <= pos[t] /\ offset[t] <= pos'[t]
      BY <2>1 DEF ReaderInv, PositionInv
    <2>3. expired[t] + 1 .. pos'[t] \subseteq expired[t] + 1 .. pos[t]
      BY <2>1, <2>2
    <2> QED
      BY <1>1, <2>1, <2>2, <2>3 DEF PositionInv
  <1> QED
    BY <1>1, <1>2 DEF ReaderInv

\* What the reader captured it has handled or lost to retention once it has read as far:
\* it passes over deleted messages only.
LEMMA ReadInv ==
    ASSUME NEW M, LogsOf(M), ReaderInv, NEW u \in Partitions, Read(u)
    PROVE  ReaderInv'
  <1> USE DEF Read, broker
  <1> DEFINE n == NextOf(u)
  <1>1. /\ n \in Nat /\ pos[u] < n /\ expired[u] < n
        /\ \A k \in Nat : pos[u] < k /\ k < n => k <= expired[u]
    BY NextOfFacts
  <1>2. /\ Len(log[u]) \in Nat /\ pos[u] \in Nat /\ expired[u] \in Nat /\ n <= Len(log[u])
        /\ goal[u] \in Nat
    BY LogLength DEF ReaderInv
  <1>3. /\ pos' = [pos EXCEPT ![u] = n]
        /\ handled' = [handled EXCEPT ![u] = @ \cup {n}]
    OBVIOUS
  <1> HIDE DEF n
  <1>4. /\ pos' \in [Partitions -> Nat] /\ handled' \in [Partitions -> SUBSET Nat]
        /\ pos'[u] = n /\ handled'[u] = handled[u] \cup {n}
        /\ \A t \in Partitions \ {u} : pos'[t] = pos[t] /\ handled'[t] = handled[t]
    BY <1>1, <1>3 DEF ReaderInv
  <1>5. expired[u] + 1 .. n \subseteq handled'[u]
    <2>1. expired[u] + 1 .. pos[u] \subseteq handled[u]
      BY DEF ReaderInv, PositionInv
    <2>2. \A k \in expired[u] + 1 .. n : k \in expired[u] + 1 .. pos[u] \/ k = n
      BY <1>1, <1>2
    <2> QED
      BY <1>4, <2>1, <2>2
  <1>6. ASSUME NEW t \in Partitions PROVE PositionInv(t)'
    <2>1. CASE t = u
      <3>1. PositionInv(u)
        BY DEF ReaderInv
      <3>2. handled'[u] \subseteq 1 .. Len(log[u])
        BY <1>1, <1>2, <1>4, <3>1 DEF PositionInv
      <3>3. upsets = 0 => handled'[u] \subseteq 1 .. n
        BY <1>1, <1>2, <1>4, <3>1 DEF PositionInv
      <3>4. offset[u] \in 0 .. n
        BY <1>1, <1>2, <3>1 DEF PositionInv
      <3> QED
        BY <1>1, <1>2, <1>4, <1>5, <2>1, <3>1, <3>2, <3>3, <3>4 DEF PositionInv
    <2>2. CASE t # u
      BY <1>4, <2>2 DEF ReaderInv, PositionInv
    <2> QED
      BY <2>1, <2>2
  <1>7. \A t \in Partitions : handled[t] \subseteq handled'[t]
    BY <1>4
  <1>8. ASSUME NEW t \in captured \ target' PROVE expired[t] + 1 .. goal[t] \subseteq handled'[t]
    <2>0. t \in Partitions
      BY DEF ReaderInv
    <2>1. CASE t \notin target
      BY <1>7, <2>0, <2>1 DEF ReaderInv
    <2>2. CASE t \in target
      <3>1. t = u /\ n >= goal[u]
        BY <1>8, <2>2 DEF CaughtUp, n
      <3> QED
        BY <1>1, <1>2, <1>5, <3>1
    <2> QED
      BY <2>1, <2>2
  <1>9. ready' \in BOOLEAN /\ (ready' => target' = {})
    BY DEF ReaderInv, AllCaughtUp
  <1> QED
    BY <1>4, <1>6, <1>8, <1>9 DEF ReaderInv

\* A step of the broker or of the boot sequence: nothing is handled, the reader may be
\* sent back, retention may go on.
LEMMA QuietInv ==
    ASSUME NEW M, LogsOf(M), ReaderInv,
           \/ \E t \in Partitions : Capture(t) \/ CommitOffset(t) \/ Rejoin(t) \/ Expire(t)
           \/ CaptureFails \/ Start \/ ReaderFails
    PROVE  /\ LogsOf(M)' /\ ReaderInv' /\ UNCHANGED <<log, handled>>
           /\ upsets' >= upsets
           /\ \A t \in Partitions : pos'[t] <= pos[t] /\ expired[t] <= expired'[t]
           /\ phase # "capture" => UNCHANGED <<goal, ready>>
  <1>0. /\ upsets \in Nat
        /\ \A t \in Partitions : pos[t] \in Nat /\ expired[t] \in Nat
    BY DEF ReaderInv
  <1>1. UNCHANGED <<log, handled>>
    BY DEF Capture, CommitOffset, Rejoin, Expire, CaptureFails, Start, ReaderFails, broker, memory
  <1>2. LogsOf(M)'
    BY <1>1, SameTopic
  <1>3. ASSUME NEW t \in Partitions, Capture(t) \/ CommitOffset(t)
        PROVE  /\ ReaderInv' /\ UNCHANGED <<pos, expired, upsets>>
               /\ phase # "capture" => UNCHANGED <<goal, ready>>
    <2>1. ReaderInv'
      BY <1>3, CaptureInv, CommitOffsetInv
    <2> QED
      BY <1>3, <2>1 DEF Capture, CommitOffset, broker
  <1>4. ASSUME NEW t \in Partitions, Rejoin(t)
        PROVE  /\ ReaderInv' /\ UNCHANGED <<expired, goal, ready>> /\ upsets' = upsets + 1
               /\ \A v \in Partitions : pos'[v] <= pos[v]
    <2>1. ReaderInv' /\ \A v \in Partitions : pos'[v] <= pos[v]
      BY <1>4, RejoinInv
    <2> QED
      BY <1>4, <2>1 DEF Rejoin, Upset, broker
  <1>5. ASSUME NEW t \in Partitions, Expire(t)
        PROVE  /\ ReaderInv' /\ UNCHANGED <<pos, goal, ready, upsets>>
               /\ \A v \in Partitions : expired[v] <= expired'[v]
    <2>1. ReaderInv' /\ \A v \in Partitions : expired[v] <= expired'[v]
      BY <1>5, ExpireInv
    <2> QED
      BY <1>5, <2>1 DEF Expire, memory
  <1>6. ASSUME CaptureFails \/ Start \/ ReaderFails
        PROVE  /\ ReaderInv' /\ UNCHANGED <<pos, expired>>
               /\ upsets' = upsets \/ upsets' = upsets + 1
               /\ phase # "capture" => UNCHANGED <<goal, ready>>
    <2>1. ReaderInv'
      BY <1>6, CaptureFailsInv, StartInv, ReaderFailsInv
    <2> QED
      BY <1>6, <2>1 DEF CaptureFails, Start, ReaderFails, Upset, broker, memory
  <1> QED
    BY <1>0, <1>1, <1>2, <1>3, <1>4, <1>5, <1>6

\* The message that is read: one of the log, handled from now on.
LEMMA ReadStep ==
    ASSUME NEW M, LogsOf(M), ReaderInv, NEW u \in Partitions, Read(u)
    PROVE  /\ LogsOf(M)' /\ ReaderInv' /\ UNCHANGED <<log, expired, goal, upsets>>
           /\ NextOf(u) \in 1 .. Len(log[u]) /\ log[u][NextOf(u)] \in M
           /\ pos'[u] = NextOf(u) /\ handled'[u] = handled[u] \cup {NextOf(u)}
           /\ \A v \in Partitions \ {u} : pos'[v] = pos[v] /\ handled'[v] = handled[v]
           /\ ready => ready'
  <1>1. NextOf(u) \in 1 .. Len(log[u])
    <2>1. NextOf(u) \in Nat /\ pos[u] < NextOf(u) /\ pos[u] \in Nat
      BY NextOfFacts DEF ReaderInv
    <2>2. NextOf(u) <= Len(log[u]) /\ Len(log[u]) \in Nat
      BY LogLength DEF Read
    <2> QED
      BY <2>1, <2>2
  <1>2. log[u][NextOf(u)] \in M
    BY <1>1 DEF LogsOf
  <1>3. LogsOf(M)' /\ ReaderInv'
    BY SameTopic, ReadInv DEF Read, broker
  <1>4. /\ pos' = [pos EXCEPT ![u] = NextOf(u)]
        /\ handled' = [handled EXCEPT ![u] = handled[u] \cup {NextOf(u)}]
        /\ UNCHANGED <<log, expired, goal, upsets>> /\ (ready => ready')
    BY DEF Read, broker
  <1>5. pos \in [Partitions -> Nat] /\ handled \in [Partitions -> SUBSET Nat]
    BY DEF ReaderInv
  <1> QED
    BY <1>1, <1>2, <1>3, <1>4, <1>5

-----------------------------------------------------------------------------
(* The catalogue *)

LEMMA IdFacts ==
    ASSUME TopicInv, ReaderInv, NEW id \in AllPaths
    PROVE  /\ PartitionOf(id) \in Partitions
           /\ About(id) \subseteq handled[PartitionOf(id)]
           /\ About(id) \subseteq 1 .. Len(log[PartitionOf(id)])
           /\ About(id) \subseteq Nat
  <1>1. PartitionOf(id) \in Partitions
    BY CatalogueAssumption DEF AllPaths
  <1>2. About(id) \subseteq handled[PartitionOf(id)]
    BY DEF About
  <1> QED
    BY <1>1, <1>2 DEF ReaderInv, PositionInv

\* What handle does to the entry of a path.
LEMMA HandledFacts ==
    ASSUME NEW m \in Messages, NEW known, NEW id
    PROVE  /\ (id # m.path \/ m.kind = "skipped") =>
                /\ id \in DOMAIN Handled(known, m) <=> id \in DOMAIN known
                /\ id \in DOMAIN known => Handled(known, m)[id] = known[id]
           /\ (id = m.path /\ m.kind = "deactivated") => id \notin DOMAIN Handled(known, m)
           /\ (id = m.path /\ m.kind = "upsert") =>
                id \in DOMAIN Handled(known, m) /\ Handled(known, m)[id] = m.def
  <1>1. m.kind \in {"upsert", "deactivated", "skipped"}
    BY CatalogueAssumption
  <1>2. CASE m.kind = "upsert"
    <2>1. Handled(known, m) =
            [i \in DOMAIN known \cup {m.path} |-> IF i = m.path THEN m.def ELSE known[i]]
      BY <1>2 DEF Handled
    <2> QED
      BY <1>2, <2>1
  <1>3. CASE m.kind = "deactivated"
    <2>1. Handled(known, m) = [i \in DOMAIN known \ {m.path} |-> known[i]]
      BY <1>3 DEF Handled
    <2> QED
      BY <1>3, <2>1
  <1>4. CASE m.kind = "skipped"
    <2>1. Handled(known, m) = known
      BY <1>4 DEF Handled
    <2> QED
      BY <1>4, <2>1
  <1> QED
    BY <1>1, <1>2, <1>3, <1>4

\* A step that neither reads nor restarts leaves the cache as up to date as it was: the
\* reader may be sent back, retention may go on, the producer may write.
LEMMA SameCache ==
    ASSUME TopicInv, ReaderInv, NEW id \in AllPaths, CacheInv(id),
           UNCHANGED <<paths, handled>>, upsets' >= upsets, upsets' \in Nat,
           \A t \in Partitions :
              /\ pos'[t] <= pos[t] /\ pos'[t] \in Nat
              /\ expired[t] <= expired'[t] /\ expired'[t] \in Nat
              /\ \A n \in 1 .. Len(log[t]) : log'[t][n] = log[t][n]
    PROVE  CacheInv(id)'
  <1> DEFINE t == PartitionOf(id)
  <1>1. /\ t \in Partitions /\ About(id) \subseteq 1 .. Len(log[t]) /\ About(id) \subseteq Nat
        /\ pos[t] \in Nat /\ expired[t] \in Nat /\ upsets \in Nat
        /\ handled[t] \subseteq 1 .. Len(log[t])
    BY IdFacts DEF ReaderInv, PositionInv
  <1>2. \A n \in handled[t] : log'[t][n] = log[t][n]
    BY <1>1
  <1>3. About(id)' = About(id)
    BY <1>2 DEF About
  <1>4. ASSUME NEW n \in About(id), Shows(id, n) PROVE Shows(id, n)'
    <2>1. log'[t][n] = log[t][n]
      BY <1>1
    <2>2. ASSUME NEW k \in About(id)
          PROVE  k <= n \/ pos'[t] < k \/ (k <= expired'[t] /\ upsets' > 0)
      <3>1. k <= n \/ pos[t] < k \/ (k <= expired[t] /\ upsets > 0)
        BY <1>4 DEF Shows
      <3> QED
        BY <1>1, <3>1
    <2> QED
      BY <1>3, <1>4, <2>1, <2>2 DEF Shows
  <1> QED
    BY <1>3, <1>4 DEF CacheInv

\* Reading a message about a path shows it; reading another moves the reader on, past
\* nothing newer about the path unless retention has deleted it.
LEMMA ReadCache ==
    ASSUME TopicInv, ReaderInv, NEW id \in AllPaths, CacheInv(id), NEW u \in Partitions, ReadPath(u)
    PROVE  CacheInv(id)'
  <1> DEFINE t == PartitionOf(id)
             n == NextOf(u)
             m == log[u][n]
  <1>1. /\ n \in Nat /\ pos[u] < n /\ expired[u] < n
        /\ \A k \in Nat : pos[u] < k /\ k < n => k <= expired[u]
    BY NextOfFacts
  <1>2. /\ t \in Partitions /\ About(id) \subseteq handled[t] /\ About(id) \subseteq Nat
        /\ pos[u] \in Nat /\ expired[u] \in Nat /\ upsets \in Nat /\ Len(log[u]) \in Nat
    BY IdFacts, LogLength DEF ReaderInv
  <1>3. n \in 1 .. Len(log[u])
    BY <1>1, <1>2 DEF ReadPath, Read
  <1>4. m \in Messages /\ PartitionOf(m.path) = u
    BY <1>3 DEF TopicInv, LogsOf
  <1>5. /\ pos'[u] = n /\ handled'[u] = handled[u] \cup {n}
        /\ \A v \in Partitions \ {u} : pos'[v] = pos[v] /\ handled'[v] = handled[v]
        /\ UNCHANGED <<log, expired, upsets>> /\ paths' = Handled(paths, m)
    BY DEF ReadPath, Read, ReaderInv, broker
  <1> HIDE DEF t, n, m
  <1>6. CASE id = m.path /\ m.kind # "skipped"
    <2>1. t = u
      BY <1>4, <1>6 DEF t
    <2>2. About(id)' = About(id) \cup {n}
      BY <1>5, <1>6, <2>1 DEF About, t, m
    <2>3. m.kind \in {"upsert", "deactivated"}
      BY <1>4, <1>6, CatalogueAssumption
    <2>4. IF m.kind = "deactivated" THEN id \notin DOMAIN paths'
          ELSE id \in DOMAIN paths' /\ paths'[id] = m.def
      BY <1>4, <1>5, <1>6, <2>3, HandledFacts
    <2>5. \A k \in About(id)' : k <= n \/ pos'[t] < k
      <3>1. \A k \in About(id)' : k \in Nat
        BY <1>1, <1>2, <2>2
      <3> QED
        BY <1>1, <1>5, <2>1, <3>1
    <2>6. log'[t][n] = m
      BY <1>5, <2>1 DEF m
    <2>7. PICK i \in Nat : i = n
      BY <1>1
    <2>8. Shows(id, i)'
      BY <2>4, <2>5, <2>6, <2>7 DEF Shows, t
    <2> QED
      BY <2>2, <2>7, <2>8 DEF CacheInv
  <1>7. CASE ~(id = m.path /\ m.kind # "skipped")
    <2>1. About(id)' = About(id)
      <3>1. CASE t = u
        BY <1>5, <1>7, <3>1 DEF About, t, m
      <3>2. CASE t # u
        BY <1>2, <1>5, <3>2 DEF About, t
      <3> QED
        BY <3>1, <3>2
    <2>2. /\ id \in DOMAIN paths' <=> id \in DOMAIN paths
          /\ id \in DOMAIN paths => paths'[id] = paths[id]
      BY <1>4, <1>5, <1>7, HandledFacts
    <2>3. ASSUME NEW i \in About(id), Shows(id, i) PROVE Shows(id, i)'
      <3>1. ASSUME NEW k \in About(id)
            PROVE  k <= i \/ pos'[t] < k \/ (k <= expired[t] /\ upsets > 0)
        <4>1. k <= i \/ pos[t] < k \/ (k <= expired[t] /\ upsets > 0)
          BY <2>3 DEF Shows, t
        <4>2. CASE t # u
          BY <1>2, <1>5, <4>1, <4>2
        <4>3. CASE t = u /\ pos[t] < k
          <5>1. k # n
            BY <1>7, <4>3 DEF About, t, m
          <5>2. n < k \/ k <= expired[u]
            BY <1>1, <1>2, <4>3, <5>1
          <5>3. upsets > 0
            <6>1. upsets = 0 => k <= pos[u]
              BY <1>2, <4>3 DEF ReaderInv, PositionInv
            <6> QED
              BY <1>2, <4>3, <6>1
          <5> QED
            BY <1>5, <4>3, <5>2, <5>3
        <4> QED
          BY <4>1, <4>2, <4>3
      <3> QED
        BY <1>5, <2>1, <2>2, <2>3, <3>1 DEF Shows, t
    <2> QED
      BY <2>1, <2>2, <2>3 DEF CacheInv
  <1> QED
    BY <1>6, <1>7

\* The known paths stay a finite number of those of the topic.
LEMMA HandledPaths ==
    ASSUME NEW known, NEW m \in Messages, IsFiniteSet(DOMAIN known), DOMAIN known \subseteq AllPaths
    PROVE  /\ IsFiniteSet(DOMAIN Handled(known, m))
           /\ DOMAIN Handled(known, m) \subseteq AllPaths
  <1>1. m.kind \in {"upsert", "deactivated", "skipped"} /\ m.path \in AllPaths
    BY CatalogueAssumption DEF AllPaths
  <1>2. DOMAIN Handled(known, m) \in {DOMAIN known \cup {m.path}, DOMAIN known \ {m.path}, DOMAIN known}
    BY <1>1 DEF Handled
  <1> QED
    BY <1>1, <1>2, FS_AddElement, FS_RemoveElement

LEMMA NewCatalogueCache ==
    ASSUME TopicInv, ReaderInv, NEW id \in AllPaths, NewCatalogue
    PROVE  CacheInv(id)'
  <1>1. handled'[PartitionOf(id)] = {} /\ id \notin DOMAIN paths'
    BY IdFacts DEF NewCatalogue, Restart, NoPaths
  <1> QED
    BY <1>1 DEF CacheInv, About

-----------------------------------------------------------------------------
(* The inductive invariant of the catalogue *)

LEMMA CatalogueInitInv == CatalogueInit => CatalogueIInv
  <1> SUFFICES ASSUME CatalogueInit PROVE CatalogueIInv
    OBVIOUS
  <1>1. TopicInv
    BY CatalogueAssumption DEF CatalogueInit, ReaderInit, TopicInv, LogsOf
  <1>2. ReaderInv
    BY <1>1, ReaderInitInv DEF CatalogueInit, TopicInv
  <1>3. ASSUME NEW id \in AllPaths PROVE CacheInv(id)
    <2>1. handled[PartitionOf(id)] = {} /\ id \notin DOMAIN paths
      BY <1>1, <1>2, IdFacts DEF CatalogueInit, ReaderInit, NoPaths
    <2> QED
      BY <2>1 DEF CacheInv, About
  <1> QED
    BY <1>1, <1>2, <1>3, FS_EmptySet DEF CatalogueIInv, CatalogueInit, NoPaths

\* A step of the broker or of the boot sequence leaves the cache as up to date as it was.
LEMMA QuietCatalogue ==
    ASSUME CatalogueIInv, TopicInv', ReaderInv', UNCHANGED <<paths, handled>>, upsets' >= upsets,
           \A t \in Partitions :
              /\ pos'[t] <= pos[t] /\ expired[t] <= expired'[t]
              /\ \A n \in 1 .. Len(log[t]) : log'[t][n] = log[t][n]
    PROVE  CatalogueIInv'
  <1>1. /\ \A t \in Partitions : pos'[t] \in Nat /\ expired'[t] \in Nat
        /\ upsets' \in Nat
    BY DEF ReaderInv
  <1>2. ASSUME NEW id \in AllPaths PROVE CacheInv(id)'
    <2>1. TopicInv /\ ReaderInv /\ CacheInv(id)
      BY DEF CatalogueIInv
    <2> QED
      BY <1>1, <2>1, SameCache
  <1> QED
    BY <1>2 DEF CatalogueIInv

LEMMA CatalogueNextInv == CatalogueIInv /\ [CatalogueNext]_catalogueVars => CatalogueIInv'
  <1> SUFFICES ASSUME CatalogueIInv, [CatalogueNext]_catalogueVars PROVE CatalogueIInv'
    OBVIOUS
  <1>1. /\ TopicInv /\ LogsOf(Messages) /\ ReaderInv /\ \A id \in AllPaths : CacheInv(id)
        /\ IsFiniteSet(DOMAIN paths) /\ DOMAIN paths \subseteq AllPaths
    BY DEF CatalogueIInv, TopicInv
  <1>2. /\ \A t \in Partitions : pos[t] \in Nat /\ expired[t] \in Nat
        /\ upsets \in Nat
    BY <1>1 DEF ReaderInv
  <1>3. CASE UNCHANGED catalogueVars
    <2>1. TopicInv'
      BY <1>1, <1>3 DEF catalogueVars, TopicInv, LogsOf
    <2>2. ReaderInv'
      BY <1>1, <1>3 DEF catalogueVars, ReaderInv, PositionInv
    <2> QED
      BY <1>2, <1>3, <2>1, <2>2, QuietCatalogue DEF catalogueVars
  <1>4. ASSUME NEW t \in Partitions, ReadPath(t) PROVE CatalogueIInv'
    <2>1. LogsOf(Messages)' /\ ReaderInv' /\ UNCHANGED log
      BY <1>1, <1>4, ReadStep DEF ReadPath
    <2>2. TopicInv'
      BY <1>1, <2>1 DEF TopicInv
    <2>3. \A id \in AllPaths : CacheInv(id)'
      BY <1>1, <1>4, ReadCache
    <2>4. IsFiniteSet(DOMAIN paths') /\ DOMAIN paths' \subseteq AllPaths
      BY <1>1, <1>4, ReadStep, HandledPaths DEF ReadPath
    <2> QED
      BY <2>1, <2>2, <2>3, <2>4 DEF CatalogueIInv
  <1>5. CASE /\ UNCHANGED paths
             /\ \/ \E t \in Partitions : Capture(t) \/ CommitOffset(t) \/ Rejoin(t) \/ Expire(t)
                \/ CaptureFails \/ Start \/ ReaderFails
    <2>1. /\ LogsOf(Messages)' /\ ReaderInv' /\ UNCHANGED <<log, handled>> /\ upsets' >= upsets
          /\ \A t \in Partitions : pos'[t] <= pos[t] /\ expired[t] <= expired'[t]
      BY <1>1, <1>5, QuietInv
    <2>2. TopicInv'
      BY <1>1, <2>1 DEF TopicInv
    <2> QED
      BY <1>5, <2>1, <2>2, QuietCatalogue
  <1>6. ASSUME NEW m \in Published, Produce(PartitionOf(m.path), m), UNCHANGED paths
        PROVE  CatalogueIInv'
    <2> DEFINE u == PartitionOf(m.path)
    <2>1. m \in Messages /\ u \in Partitions
      BY CatalogueAssumption DEF Messages
    <2>2. /\ LogsOf(Messages)' /\ ReaderInv' /\ UNCHANGED <<expired, pos, handled, upsets>>
          /\ \A t \in Partitions : \A n \in 1 .. Len(log[t]) : log'[t][n] = log[t][n]
          /\ \A t \in Partitions : \A n \in 1 .. Len(log'[t]) :
               n \in 1 .. Len(log[t]) \/ (t = u /\ log'[t][n] = m)
      BY <1>1, <1>6, <2>1, ProduceInv
    <2>3. TopicInv'
      BY <1>1, <2>2 DEF TopicInv
    <2> QED
      BY <1>2, <1>6, <2>2, <2>3, QuietCatalogue
  <1>7. CASE NewCatalogue
    <2>1. UNCHANGED log
      BY <1>7 DEF NewCatalogue, Restart, broker
    <2>2. LogsOf(Messages)' /\ TopicInv' /\ ReaderInv'
      BY <1>1, <1>7, <2>1, SameTopic, RestartInv DEF NewCatalogue, TopicInv
    <2>3. \A id \in AllPaths : CacheInv(id)'
      BY <1>1, <1>7, NewCatalogueCache
    <2> QED
      BY <1>7, <2>2, <2>3, FS_EmptySet DEF CatalogueIInv, NewCatalogue, NoPaths
  <1> QED
    BY <1>3, <1>4, <1>5, <1>6, <1>7 DEF CatalogueNext

\* What the cache shows about a path is, once the reader has settled, the last handled.
LEMMA LatestIsShown ==
    ASSUME CatalogueIInv, NEW id \in AllPaths, Settled(PartitionOf(id)), ~Outrun(id),
           About(id) # {}
    PROVE  \E n \in About(id) : Shows(id, n) /\ LastAbout(id) = log[PartitionOf(id)][n]
  <1> DEFINE t == PartitionOf(id)
             last == CHOOSE i \in About(id) : \A k \in About(id) : k <= i
  <1>1. /\ t \in Partitions /\ About(id) \subseteq Nat /\ About(id) \subseteq handled[t]
        /\ pos[t] \in Nat /\ expired[t] \in Nat /\ upsets \in Nat
    BY IdFacts DEF CatalogueIInv, ReaderInv
  <1>2. PICK n \in About(id) : Shows(id, n)
    BY DEF CatalogueIInv, CacheInv
  <1>3. \A k \in About(id) : k <= n \/ (k <= expired[t] /\ upsets > 0)
    BY <1>1, <1>2 DEF Shows, Settled
  <1>4. \A k \in About(id) : k <= n
    BY <1>1, <1>3 DEF Outrun
  <1>5. last \in About(id) /\ \A k \in About(id) : k <= last
    BY <1>2, <1>4
  <1> HIDE DEF last
  <1>6. last = n
    BY <1>1, <1>2, <1>4, <1>5
  <1> QED
    BY <1>2, <1>6 DEF LastAbout, last

LEMMA SettledIsLatest == ASSUME CatalogueIInv PROVE SettledCacheIsLatest
  <1> SUFFICES ASSUME NEW id \in AllPaths, Settled(PartitionOf(id)), ~Outrun(id)
               PROVE  UpToDate(id)
    BY DEF SettledCacheIsLatest
  <1>1. CASE About(id) = {}
    BY <1>1 DEF UpToDate, CatalogueIInv, CacheInv
  <1>2. CASE About(id) # {}
    BY <1>2, LatestIsShown DEF UpToDate, Shows
  <1> QED
    BY <1>1, <1>2

-----------------------------------------------------------------------------
(* The lookup *)

\* A set of natural numbers with a member has a least one.
LEMMA LeastOf == ASSUME NEW S \in SUBSET Nat, S # {} PROVE \E n \in S : \A k \in S : n <= k
  <1>1. PICK n \in S : \A k \in S : <<k, n>> \notin OpToRel(<, Nat)
    BY NatLessThanWellFounded, WFMin
  <1>2. \A k \in S : ~(k < n)
    BY <1>1 DEF OpToRel
  <1> QED
    BY <1>2

\* The definitions that are a match for id.
Own(defs, id) == {d \in defs : d.prefix \in {SubSeq(id, 1, n) : n \in 1 .. Len(id)}}

\* They are those that the lookup recognizes.
LEMMA OwnMatches ==
    ASSUME NEW id, Split(id), NEW d, Split(d.prefix)
    PROVE  d.prefix \in {SubSeq(id, 1, n) : n \in 1 .. Len(id)} <=>
                d.prefix # << >> /\ MatchesPrefix(id, d.prefix)
  <1>1. PICK p : p = d.prefix
    OBVIOUS
  <1>2. id \in Seq(ToSet(id)) /\ p \in Seq(ToSet(p)) /\ Len(id) \in Nat /\ Len(p) \in Nat
    BY <1>1 DEF Split
  <1>3. ASSUME NEW n \in 1 .. Len(id), p = SubSeq(id, 1, n)
        PROVE  p # << >> /\ MatchesPrefix(id, p)
    <2>1. Len(p) = n
      BY <1>2, <1>3
    <2> QED
      BY <1>2, <1>3, <2>1 DEF MatchesPrefix
  <1>4. ASSUME p # << >>, MatchesPrefix(id, p)
        PROVE  \E n \in 1 .. Len(id) : p = SubSeq(id, 1, n)
    <2>1. Len(p) # 0
      BY <1>2, <1>4
    <2>2. Len(p) \in 1 .. Len(id) /\ p = SubSeq(id, 1, Len(p))
      BY <1>2, <1>4, <2>1 DEF MatchesPrefix
    <2> QED
      BY <2>2
  <1> QED
    BY <1>1, <1>3, <1>4

\* A lookup answers a definition of the longest matching prefix, the first of these.
LEMMA LookupAnswers ==
    ASSUME NEW D, \A d \in D : Split(d.prefix), NEW defs \in Seq(D), NEW id, Split(id),
           Known(defs, id)
    PROVE  \E i \in Matching(defs, id) :
              /\ Lookup(defs, id) = defs[i]
              /\ \A j \in Matching(defs, id) :
                    \/ Len(defs[j].prefix) < Len(defs[i].prefix)
                    \/ Len(defs[j].prefix) = Len(defs[i].prefix) /\ i <= j
  <1> DEFINE M == Matching(defs, id)
             length(i) == Len(defs[i].prefix)
             Short == {Len(id) - length(i) : i \in M}
  <1>1. M \subseteq Nat /\ M # {} /\ Len(id) \in Nat
    BY DEF Matching, Known, Split
  <1>2. \A i \in M : length(i) \in Nat /\ length(i) <= Len(id)
    BY DEF Matching, MatchesPrefix, Split
  <1>3. Short \in SUBSET Nat /\ Short # {}
    BY <1>1, <1>2
  <1> HIDE DEF M, length
  <1>4. PICK k \in M : \A j \in M : length(j) <= length(k)
    <2>1. PICK s \in Short : \A r \in Short : s <= r
      <3> HIDE DEF Short
      <3> QED
        BY <1>3, LeastOf
    <2>2. PICK k \in M : s = Len(id) - length(k)
      OBVIOUS
    <2>3. ASSUME NEW j \in M PROVE length(j) <= length(k)
      <3>1. Len(id) - length(k) <= Len(id) - length(j)
        BY <2>1, <2>2
      <3> QED
        BY <1>1, <1>2, <3>1
    <2> QED
      BY <2>3
  <1> DEFINE Longest == {i \in M : length(i) = length(k)}
  <1>5. PICK i \in Longest : \A j \in Longest : i <= j
    <2>1. Longest \in SUBSET Nat /\ Longest # {}
      BY <1>1
    <2> HIDE DEF Longest
    <2> QED
      BY <2>1, LeastOf
  <1>6. i \in M /\ \A j \in M : length(j) < length(i) \/ (length(j) = length(i) /\ i <= j)
    BY <1>2, <1>4, <1>5
  <1>7. ASSUME NEW h \in M,
               \A j \in M : length(j) < length(h) \/ (length(j) = length(h) /\ h <= j)
        PROVE  h = i
    <2>1. length(h) < length(i) \/ (length(h) = length(i) /\ i <= h)
      BY <1>6
    <2>2. length(i) < length(h) \/ (length(i) = length(h) /\ h <= i)
      BY <1>6, <1>7
    <2>3. length(h) \in Nat /\ length(i) \in Nat /\ h \in Nat /\ i \in Nat
      BY <1>1, <1>2, <1>6
    <2> QED
      BY <2>1, <2>2, <2>3
  <1>8. (CHOOSE h \in M : \A j \in M : length(j) < length(h) \/ (length(j) = length(h) /\ h <= j)) = i
    BY <1>6, <1>7
  <1> QED
    BY <1>6, <1>8 DEF Lookup, M, length

\* Every definition of a finite set comes first in some order.
LEMMA FirstInAnOrder ==
    ASSUME NEW S, IsFiniteSet(S), NEW d \in S
    PROVE  \E f \in SetToSeqs(S) : f[1] = d
  <1>1. PICK n \in Nat : n = Cardinality(S)
    BY FS_CardinalityType
  <1>2. PICK g \in Bijection(1 .. n, S) : TRUE
    BY <1>1, FS_CardinalityType DEF ExistsBijection
  <1>3. /\ g \in [1 .. n -> S] /\ \A i, j \in 1 .. n : g[i] = g[j] => i = j
        /\ \A e \in S : \E i \in 1 .. n : g[i] = e
    BY <1>2 DEF Bijection, Injection, Surjection, IsInjective
  <1>4. PICK i \in 1 .. n : g[i] = d
    BY <1>3
  <1> DEFINE f == [j \in 1 .. n |-> IF j = 1 THEN d ELSE IF j = i THEN g[1] ELSE g[j]]
  <1>5. 1 \in 1 .. n
    BY <1>4
  <1>6. f \in [1 .. n -> S] /\ f[1] = d
    BY <1>3, <1>5
  <1>7. ASSUME NEW j \in 1 .. n, NEW k \in 1 .. n, j # k PROVE f[j] # f[k]
    BY <1>3, <1>4, <1>5, <1>7
  <1> HIDE DEF f
  <1> QED
    BY <1>1, <1>6, <1>7 DEF SetToSeqs

\* Over all orders of a finite set of definitions, the lookups answer the ones of the
\* longest prefix of id, and nothing when none matches.
LEMMA LookupsOfAllOrders ==
    ASSUME NEW S, IsFiniteSet(S), \A d \in S : Split(d.prefix), NEW id, Split(id)
    PROVE  {Lookup(f, id) : f \in {g \in SetToSeqs(S) : Known(g, id)}} =
              {d \in Own(S, id) : \A c \in Own(S, id) : Len(c.prefix) <= Len(d.prefix)}
  <1> DEFINE n == Cardinality(S)
             Best == {d \in Own(S, id) : \A c \in Own(S, id) : Len(c.prefix) <= Len(d.prefix)}
  <1>0. n \in Nat
    BY FS_CardinalityType
  <1>1. ASSUME NEW f \in SetToSeqs(S)
        PROVE  /\ f \in Seq(S) /\ Len(f) = n
               /\ \A d \in S : \E i \in 1 .. n : f[i] = d
               /\ \A i \in 1 .. n : i \in Matching(f, id) <=> f[i] \in Own(S, id)
               /\ Matching(f, id) \subseteq 1 .. n
    <2>1. f \in [1 .. n -> S] /\ \A i, j \in 1 .. n : i # j => f[i] # f[j]
      BY DEF SetToSeqs
    <2>2. f \in Seq(S) /\ Len(f) = n
      BY <1>0, <2>1
    <2>3. \A d \in S : \E i \in 1 .. n : f[i] = d
      <3>1. f \in Injection(1 .. n, S)
        BY <2>1 DEF Injection, IsInjective
      <3>2. Cardinality(1 .. n) = n
        BY <1>0, FS_Interval
      <3>3. f \in Surjection(1 .. n, S)
        BY <3>1, <3>2, FS_Injection
      <3> QED
        BY <3>3 DEF Surjection
    <2>4. ASSUME NEW i \in 1 .. n PROVE i \in Matching(f, id) <=> f[i] \in Own(S, id)
      BY <2>1, <2>2, OwnMatches DEF Matching, Own
    <2> QED
      BY <2>2, <2>3, <2>4 DEF Matching
  <1>2. ASSUME NEW f \in SetToSeqs(S), Known(f, id) PROVE Lookup(f, id) \in Best
    <2>1. PICK i \in Matching(f, id) :
             /\ Lookup(f, id) = f[i]
             /\ \A j \in Matching(f, id) :
                   \/ Len(f[j].prefix) < Len(f[i].prefix)
                   \/ Len(f[j].prefix) = Len(f[i].prefix) /\ i <= j
      BY <1>1, <1>2, LookupAnswers
    <2>2. f[i] \in Own(S, id) /\ f[i] \in S
      BY <1>1 DEF Own
    <2>3. ASSUME NEW c \in Own(S, id) PROVE Len(c.prefix) <= Len(f[i].prefix)
      <3>1. PICK j \in 1 .. n : f[j] = c
        BY <1>1 DEF Own
      <3>2. Len(c.prefix) < Len(f[i].prefix) \/ Len(c.prefix) = Len(f[i].prefix)
        BY <1>1, <2>1, <3>1
      <3>3. Len(c.prefix) \in Nat /\ Len(f[i].prefix) \in Nat
        BY <2>2 DEF Own, Split
      <3> QED
        BY <3>2, <3>3
    <2> QED
      BY <2>1, <2>2, <2>3
  <1>3. ASSUME NEW d \in Best
        PROVE  \E f \in SetToSeqs(S) : Known(f, id) /\ Lookup(f, id) = d
    <2>1. d \in S /\ d \in Own(S, id)
      BY DEF Own
    <2>2. PICK f \in SetToSeqs(S) : f[1] = d
      BY <2>1, FirstInAnOrder
    <2>3. 1 \in Matching(f, id)
      <3>1. 1 \in 1 .. n
        <4>1. n # 0
          BY <2>1, FS_EmptySet
        <4> QED
          BY <1>0, <4>1
      <3> QED
        BY <1>1, <2>1, <2>2, <3>1
    <2>4. Known(f, id)
      BY <2>3 DEF Known
    <2>5. PICK i \in Matching(f, id) :
             /\ Lookup(f, id) = f[i]
             /\ \A j \in Matching(f, id) :
                   \/ Len(f[j].prefix) < Len(f[i].prefix)
                   \/ Len(f[j].prefix) = Len(f[i].prefix) /\ i <= j
      BY <1>1, <2>4, LookupAnswers
    <2>6. f[i] \in Own(S, id) /\ i \in Nat /\ i >= 1
      BY <1>0, <1>1
    <2>7. Len(f[i].prefix) \in Nat /\ Len(d.prefix) \in Nat
      BY <2>1, <2>6 DEF Own, Split
    <2>8. Len(f[i].prefix) <= Len(d.prefix)
      BY <2>6
    <2>9. i = 1
      BY <2>2, <2>3, <2>5, <2>6, <2>7, <2>8
    <2> QED
      BY <2>2, <2>4, <2>5, <2>9
  <1> HIDE DEF Best
  <1>4. {Lookup(f, id) : f \in {g \in SetToSeqs(S) : Known(g, id)}} = Best
    BY <1>2, <1>3
  <1> QED
    BY <1>4 DEF Best

\* In a settled cache the known definitions are those of the paths whose latest message
\* is an upsert.
LEMMA DefinitionsAreLatest ==
    ASSUME CatalogueIInv, \A id \in AllPaths : Settled(PartitionOf(id)) /\ ~Outrun(id)
    PROVE  /\ Definitions =
                {LastAbout(id).def :
                    id \in {i \in AllPaths : About(i) # {} /\ LastAbout(i).kind = "upsert"}}
           /\ IsFiniteSet(Definitions)
           /\ \A d \in Definitions : Split(d.prefix)
  <1> DEFINE live == {i \in AllPaths : About(i) # {} /\ LastAbout(i).kind = "upsert"}
  <1>1. /\ TopicInv /\ ReaderInv /\ IsFiniteSet(DOMAIN paths) /\ DOMAIN paths \subseteq AllPaths
        /\ \A id \in AllPaths : UpToDate(id)
    BY SettledIsLatest DEF CatalogueIInv, SettledCacheIsLatest
  <1>2. ASSUME NEW id \in AllPaths, About(id) # {}
        PROVE  LastAbout(id) \in Messages /\ LastAbout(id).kind \in {"upsert", "deactivated"}
    <2> DEFINE t == PartitionOf(id)
    <2>1. t \in Partitions /\ About(id) \subseteq 1 .. Len(log[t])
      BY <1>1, IdFacts
    <2>2. PICK n \in About(id) : LastAbout(id) = log[t][n]
      BY <1>2, LatestIsShown
    <2>3. log[t][n] \in Messages
      BY <1>1, <2>1, <2>2 DEF TopicInv, LogsOf
    <2> QED
      BY <2>2, <2>3, CatalogueAssumption DEF About
  <1>3. ASSUME NEW id \in AllPaths
        PROVE  /\ id \in DOMAIN paths <=> id \in live
               /\ id \in live => paths[id] = LastAbout(id).def
    BY <1>1, <1>2, <1>3 DEF UpToDate
  <1>4. Definitions = {LastAbout(id).def : id \in live}
    BY <1>1, <1>3 DEF Definitions
  <1>5. IsFiniteSet(Definitions)
    <2> DEFINE f == [i \in DOMAIN paths |-> paths[i]]
    <2>1. f \in Surjection(DOMAIN paths, Definitions)
      BY DEF Surjection, Definitions
    <2> QED
      BY <1>1, <2>1, FS_Surjection
  <1>6. ASSUME NEW d \in Definitions PROVE Split(d.prefix)
    <2>1. PICK id \in live : d = LastAbout(id).def
      BY <1>4
    <2> QED
      BY <1>2, <2>1, CatalogueAssumption
  <1> QED
    BY <1>4, <1>5, <1>6

LEMMA LookupsAreLatest == ASSUME CatalogueIInv PROVE LookupsSeeTheLatest
  <1> DEFINE live == {i \in AllPaths : About(i) # {} /\ LastAbout(i).kind = "upsert"}
             defs == {LastAbout(id).def : id \in live}
  <1> SUFFICES ASSUME \A id \in AllPaths : Settled(PartitionOf(id)) /\ ~Outrun(id),
                      NEW id \in PathIds
               PROVE  Answers(id) = {d \in Own(defs, id) :
                                        \A c \in Own(defs, id) : Len(c.prefix) <= Len(d.prefix)}
    BY DEF LookupsSeeTheLatest, Own
  <1>1. /\ Definitions = defs /\ IsFiniteSet(Definitions)
        /\ \A d \in Definitions : Split(d.prefix)
    BY DefinitionsAreLatest
  <1>2. Split(id)
    BY CatalogueAssumption
  <1> HIDE DEF defs
  <1> QED
    BY <1>1, <1>2, LookupsOfAllOrders DEF Answers

-----------------------------------------------------------------------------
(* The theorems about the catalogue *)

\* (CatalogueIInv) What the reader has passed it has handled or lost to retention, and the cache
\* shows a handled message of every path.
THEOREM CatalogueInvariance == CatalogueSpec => []CatalogueIInv
  BY CatalogueInitInv, CatalogueNextInv, PTL DEF CatalogueSpec

\* (Ready, newTargetOffsets, checkReady) A process is never ready before it has itself
\* handled all that existed when it captured the offsets and still does.
THEOREM ReadinessIsEarned == CatalogueSpec => []ReadyMeansReplayed
  <1>1. CatalogueIInv => ReadyMeansReplayed
    BY DEF CatalogueIInv, ReaderInv, ReadyMeansReplayed
  <1> QED
    BY <1>1, CatalogueInvariance, PTL

\* (kafkacatalog.Consumer.handle) The cache is the latest value per path, whatever was
\* redelivered, once the reader has caught up with itself.
THEOREM CacheIsLatest == CatalogueSpec => []SettledCacheIsLatest
  <1> QED
    BY SettledIsLatest, CatalogueInvariance, PTL

\* (Catalogue.Lookup, "a more specific declaration always takes precedence over a more
\* general one") The lookups in a settled cache answer the latest definitions of the
\* longest matching prefix, in whatever order the map is iterated.
THEOREM LookupsAnswerTheLatest == CatalogueSpec => []LookupsSeeTheLatest
  <1> QED
    BY LookupsAreLatest, CatalogueInvariance, PTL

-----------------------------------------------------------------------------
(* The cache of the measured rates *)

\* The tasks that were handled are messages of the topic.
LEMMA TasksAreWritten ==
    ASSUME LogsOf(Written), ReaderInv
    PROVE  /\ HandledTasks \subseteq {m \in Written : m.kind = "task"}
           /\ \A m, n \in HandledTasks : m.id = n.id => m = n
  <1>1. ASSUME NEW t \in Partitions, NEW n \in handled[t] PROVE log[t][n] \in Written
    <2>1. log[t] \in Seq(Written) /\ n \in 1 .. Len(log[t])
      BY DEF LogsOf, ReaderInv, PositionInv
    <2> QED
      BY <2>1
  <1>2. HandledTasks \subseteq {m \in Written : m.kind = "task"}
    BY <1>1 DEF HandledTasks
  <1> QED
    BY <1>2, CacheAssumption

\* The sums over a set of tasks, and over one task more.
LEMMA SumsOfTasks ==
    ASSUME NEW S, IsFiniteSet(S), S \subseteq {m \in Written : m.kind = "task"}
    PROVE  /\ ActualSeconds(S) \in Int /\ IdleSeconds(S) \in Int
           /\ Cardinality(S) \in Nat
           /\ IsFiniteSet(Observed(S))
           /\ \A x \in S : Actual[x] = x.actual /\ x.actual \in Int
           /\ \A x \in Observed(S) : Gap[x] = x.idle /\ x.idle \in Int
  <1>1. IsFiniteSet(Observed(S))
    BY FS_Subset DEF Observed
  <1>2. \A x \in S : Actual[x] = x.actual /\ x.actual \in Int
    BY CacheAssumption DEF Actual
  <1>3. \A x \in Observed(S) : Gap[x] = x.idle /\ x.idle \in Int
    BY CacheAssumption DEF Gap, Observed
  <1> QED
    BY <1>1, <1>2, <1>3, SumInt, FS_CardinalityType DEF ActualSeconds, IdleSeconds

LEMMA OneTaskMore ==
    ASSUME NEW S, IsFiniteSet(S), S \subseteq {m \in Written : m.kind = "task"},
           NEW m \in Written, m.kind = "task", m \notin S
    PROVE  /\ Cardinality(S \cup {m}) = Cardinality(S) + 1
           /\ ActualSeconds(S \cup {m}) = ActualSeconds(S) + m.actual
           /\ IdleSeconds(S \cup {m}) = IdleSeconds(S) + (IF m.idle = NoIdle THEN 0 ELSE m.idle)
           /\ Observed(S \cup {m}) # {} <=> Observed(S) # {} \/ m.idle # NoIdle
  <1> DEFINE T == S \cup {m}
  <1>1. IsFiniteSet(T) /\ T \subseteq {n \in Written : n.kind = "task"}
        /\ Cardinality(T) = Cardinality(S) + 1
    BY FS_AddElement
  <1>2. /\ \A x \in T : Actual[x] = x.actual /\ x.actual \in Int
        /\ \A x \in Observed(T) : Gap[x] = x.idle /\ x.idle \in Int
        /\ IsFiniteSet(Observed(S))
        /\ ActualSeconds(S) \in Int /\ IdleSeconds(S) \in Int
    BY <1>1, SumsOfTasks
  <1>3. ActualSeconds(T) = ActualSeconds(S) + m.actual
    <2>1. SumFunctionOnSet(Actual, S \cup {m}) = Actual[m] + SumFunctionOnSet(Actual, S)
      BY <1>2, SumAdd
    <2>2. Actual[m] = m.actual /\ m.actual \in Int
      BY <1>2
    <2> QED
      BY <1>2, <2>1, <2>2 DEF ActualSeconds
  <1>4. CASE m.idle = NoIdle
    <2>1. Observed(T) = Observed(S)
      BY <1>4 DEF Observed
    <2>2. IdleSeconds(T) = IdleSeconds(S)
      BY <2>1, Zenon DEF IdleSeconds
    <2>3. IdleSeconds(T) = IdleSeconds(S) + 0
      BY <1>2, <2>2
    <2> QED
      BY <1>1, <1>3, <1>4, <2>1, <2>3
  <1>5. CASE m.idle # NoIdle
    <2>1. Observed(T) = Observed(S) \cup {m} /\ m \notin Observed(S)
      BY <1>5 DEF Observed
    <2>2. SumFunctionOnSet(Gap, Observed(S) \cup {m}) = Gap[m] + SumFunctionOnSet(Gap, Observed(S))
      BY <1>2, <2>1, SumAdd
    <2>3. Gap[m] = m.idle /\ m.idle \in Int
      BY <1>2, <2>1
    <2>4. IdleSeconds(T) = Gap[m] + IdleSeconds(S)
      BY <2>1, <2>2, Zenon DEF IdleSeconds
    <2>5. IdleSeconds(T) = IdleSeconds(S) + m.idle
      BY <1>2, <2>3, <2>4
    <2> QED
      BY <1>1, <1>3, <1>5, <2>1, <2>5
  <1> QED
    BY <1>4, <1>5

LEMMA TaskIsHandled ==
    ASSUME NEW x
    PROVE  x \in HandledTasks <=>
              x.kind = "task" /\ \E t \in Partitions : \E n \in handled[t] : x = log[t][n]
  BY DEF HandledTasks

\* What is written or deleted, and where the reader stands, adds no task.
LEMMA SameTasks ==
    ASSUME ReaderInv, UNCHANGED handled,
           \A t \in Partitions : \A n \in 1 .. Len(log[t]) : log'[t][n] = log[t][n]
    PROVE  HandledTasks' = HandledTasks
  <1>1. \A t \in Partitions : \A n \in handled[t] : log'[t][n] = log[t][n]
    BY DEF ReaderInv, PositionInv
  <1>2. ASSUME NEW x
        PROVE  x \in HandledTasks' <=>
                  x.kind = "task" /\ \E t \in Partitions : \E n \in handled'[t] : x = log'[t][n]
    BY DEF HandledTasks
  <1>3. ASSUME NEW x PROVE x \in HandledTasks' <=> x \in HandledTasks
    BY <1>1, <1>2, TaskIsHandled
  <1> QED
    BY <1>3

\* Reading adds the message read when it is a task.
LEMMA ReadAddsTask ==
    ASSUME LogsOf(Written), ReaderInv, NEW u \in Partitions, Read(u)
    PROVE  HandledTasks' = HandledTasks \cup {m \in {log[u][NextOf(u)]} : m.kind = "task"}
  <1>1. /\ UNCHANGED log /\ handled'[u] = handled[u] \cup {NextOf(u)}
        /\ \A v \in Partitions \ {u} : handled'[v] = handled[v]
    BY ReadStep
  <1>2. ASSUME NEW x
        PROVE  x \in HandledTasks' <=>
                  x.kind = "task" /\ \E t \in Partitions : \E n \in handled'[t] : x = log'[t][n]
    BY DEF HandledTasks
  <1>3. ASSUME NEW x
        PROVE  x \in HandledTasks' <=>
                  x \in HandledTasks \/ (x.kind = "task" /\ x = log[u][NextOf(u)])
    BY <1>1, <1>2, TaskIsHandled
  <1> QED
    BY <1>3

\* Folding a task in keeps the totals numbers.
LEMMA FoldKeepsTotals ==
    ASSUME TotalsInv, NEW m \in Written, m.kind = "task", m.type \in TaskTypes, Fold(m)
    PROVE  /\ TotalsInv'
           /\ totals'[m.type].sum = totals[m.type].sum + m.actual
           /\ totals'[m.type].count = totals[m.type].count + 1
           /\ idle'[m.type].idle = idle[m.type].idle + (IF m.idle = NoIdle THEN 0 ELSE m.idle)
           /\ idle'[m.type].actual = idle[m.type].actual + m.actual
           /\ idle'[m.type].observed <=> idle[m.type].observed \/ m.idle # NoIdle
           /\ \A k \in TaskTypes \ {m.type} : totals'[k] = totals[k] /\ idle'[k] = idle[k]
  <1> DEFINE gap == IF m.idle = NoIdle THEN 0 ELSE m.idle
             newTotals == [sum |-> totals[m.type].sum + m.actual,
                           count |-> totals[m.type].count + 1]
             newIdle == [idle     |-> idle[m.type].idle + gap,
                         actual   |-> idle[m.type].actual + m.actual,
                         observed |-> idle[m.type].observed \/ m.idle # NoIdle]
  <1>1. m.actual \in Int /\ gap \in Int
    BY CacheAssumption
  <1>2. /\ totals[m.type].sum \in Int /\ totals[m.type].count \in Nat
        /\ idle[m.type].idle \in Int /\ idle[m.type].actual \in Int
        /\ idle[m.type].observed \in BOOLEAN
    BY DEF TotalsInv
  <1>3. newTotals \in [sum : Int, count : Nat]
    BY <1>1, <1>2
  <1>4. newIdle \in [idle : Int, actual : Int, observed : BOOLEAN]
    <2>1. (idle[m.type].observed \/ m.idle # NoIdle) \in BOOLEAN
      OBVIOUS
    <2> HIDE DEF gap
    <2> QED
      BY <1>1, <1>2, <2>1
  <1>5. totals' = [totals EXCEPT ![m.type] = newTotals]
    BY DEF Fold, TotalsInv
  <1>6. idle' = [idle EXCEPT ![m.type] = newIdle]
    BY DEF Fold, TotalsInv
  <1> HIDE DEF newTotals, newIdle
  <1>7. TotalsInv'
    BY <1>3, <1>4, <1>5, <1>6 DEF TotalsInv
  <1>8. /\ totals'[m.type] = newTotals /\ idle'[m.type] = newIdle
        /\ \A k \in TaskTypes \ {m.type} : totals'[k] = totals[k] /\ idle'[k] = idle[k]
    BY <1>5, <1>6 DEF TotalsInv
  <1>9. /\ totals'[m.type].sum = totals[m.type].sum + m.actual
        /\ totals'[m.type].count = totals[m.type].count + 1
        /\ idle'[m.type].idle = idle[m.type].idle + gap
        /\ idle'[m.type].actual = idle[m.type].actual + m.actual
    BY <1>8 DEF newTotals, newIdle
  <1>10. idle'[m.type].observed <=> idle[m.type].observed \/ m.idle # NoIdle
    <2>1. idle'[m.type].observed = newIdle.observed
      BY <1>8
    <2>2. newIdle.observed = (idle[m.type].observed \/ m.idle # NoIdle)
      BY DEF newIdle
    <2> QED
      BY <2>1, <2>2, Zenon
  <1> QED
    BY <1>7, <1>8, <1>9, <1>10

\* A task that is handled a second time is already among the tasks; a new one is added to
\* the totals and to the tasks.
LEMMA ReadTaskInv ==
    ASSUME TasksInv, NEW u \in Partitions, ReadTask(u)
    PROVE  TasksInv' /\ HandledTasks \subseteq HandledTasks'
  <1> DEFINE m == log[u][NextOf(u)]
  <1>1. /\ LogsOf(Written) /\ ReaderInv /\ TotalsInv
        /\ IsFiniteSet(HandledTasks) /\ seen = {x.id : x \in HandledTasks}
        /\ Read(u) /\ Handle(m)
    BY DEF TasksInv, SeenInv, ReadTask
  <1>2. LogsOf(Written)' /\ ReaderInv' /\ m \in Written
    BY <1>1, ReadStep
  <1>3. HandledTasks' = HandledTasks \cup {x \in {m} : x.kind = "task"}
    BY <1>1, ReadAddsTask
  <1>4. /\ HandledTasks \subseteq {x \in Written : x.kind = "task"}
        /\ \A x, y \in HandledTasks : x.id = y.id => x = y
    BY <1>1, TasksAreWritten
  <1> HIDE DEF m
  <1>5. CASE m.kind # "task" \/ m.id \in seen
    <2>1. UNCHANGED cache
      BY <1>1, <1>5 DEF Handle
    <2>2. HandledTasks' = HandledTasks
      <3>1. CASE m.kind # "task"
        BY <1>3, <3>1
      <3>2. CASE m.kind = "task" /\ m.id \in seen
        <4>1. PICK x \in HandledTasks : x.id = m.id
          BY <1>1, <3>2
        <4>2. x = m
          BY <1>2, <1>4, <3>2, <4>1, CacheAssumption
        <4> QED
          BY <1>3, <4>1, <4>2
      <3> QED
        BY <1>5, <3>1, <3>2
    <2>3. \A k : Tasks(k)' = Tasks(k)
      BY <2>2 DEF Tasks
    <2>4. TotalsInv' /\ SeenInv'
      BY <1>1, <2>1, <2>2 DEF TotalsInv, SeenInv, cache
    <2>5. EachTaskCountsOnce'
      BY <2>1, <2>3 DEF TasksInv, EachTaskCountsOnce, cache
    <2> QED
      BY <1>2, <2>2, <2>4, <2>5 DEF TasksInv
  <1>6. CASE m.kind = "task" /\ m.id \notin seen
    <2>1. seen' = seen \cup {m.id} /\ Fold(m)
      BY <1>1, <1>6 DEF Handle
    <2>2. HandledTasks' = HandledTasks \cup {m} /\ m \notin HandledTasks
      BY <1>1, <1>3, <1>6
    <2>3. SeenInv'
      <3>1. IsFiniteSet(HandledTasks')
        BY <1>1, <2>2, FS_AddElement
      <3> QED
        BY <1>1, <2>1, <2>2, <3>1 DEF SeenInv
    <2>4. \A k : Tasks(k)' = IF m.type = k THEN Tasks(k) \cup {m} ELSE Tasks(k)
      BY <2>2 DEF Tasks
    <2>5. CASE m.type \notin TaskTypes
      <3>1. UNCHANGED <<totals, idle>>
        BY <2>1, <2>5 DEF Fold
      <3>2. \A k \in TaskTypes : Tasks(k)' = Tasks(k)
        BY <2>4, <2>5
      <3>3. TotalsInv'
        BY <1>1, <3>1 DEF TotalsInv
      <3>4. EachTaskCountsOnce'
        BY <3>1, <3>2 DEF TasksInv, EachTaskCountsOnce
      <3> QED
        BY <1>2, <2>2, <2>3, <3>3, <3>4 DEF TasksInv
    <2>6. CASE m.type \in TaskTypes
      <3>1. /\ TotalsInv'
            /\ totals'[m.type].sum = totals[m.type].sum + m.actual
            /\ totals'[m.type].count = totals[m.type].count + 1
            /\ idle'[m.type].idle = idle[m.type].idle + (IF m.idle = NoIdle THEN 0 ELSE m.idle)
            /\ idle'[m.type].actual = idle[m.type].actual + m.actual
            /\ idle'[m.type].observed <=> idle[m.type].observed \/ m.idle # NoIdle
            /\ \A k \in TaskTypes \ {m.type} : totals'[k] = totals[k] /\ idle'[k] = idle[k]
        BY <1>1, <1>2, <1>6, <2>1, <2>6, FoldKeepsTotals
      <3> DEFINE Counts(S, n, i) ==
                    /\ n.count = Cardinality(S)
                    /\ n.sum = ActualSeconds(S)
                    /\ i.actual = n.sum
                    /\ i.idle = IdleSeconds(S)
                    /\ i.observed <=> Observed(S) # {}
      <3>2. \A k \in TaskTypes : Counts(Tasks(k), totals[k], idle[k])
        BY DEF TasksInv, EachTaskCountsOnce
      <3>3. ASSUME NEW k \in TaskTypes PROVE Counts(Tasks(k)', totals'[k], idle'[k])
        <4>1. CASE k # m.type
          <5>1. Tasks(k)' = Tasks(k) /\ totals'[k] = totals[k] /\ idle'[k] = idle[k]
            BY <2>4, <3>1, <4>1
          <5> HIDE DEF Counts
          <5> QED
            BY <3>2, <5>1
        <4>2. CASE k = m.type
          <5> DEFINE S == Tasks(k)
          <5>1. /\ IsFiniteSet(S) /\ S \subseteq {x \in Written : x.kind = "task"} /\ m \notin S
            <6>1. S \subseteq HandledTasks
              BY DEF Tasks
            <6> QED
              BY <1>1, <1>4, <2>2, <6>1, FS_Subset
          <5>2. Tasks(k)' = S \cup {m}
            BY <2>4, <4>2
          <5> HIDE DEF S
          <5>3. /\ Cardinality(S \cup {m}) = Cardinality(S) + 1
                /\ ActualSeconds(S \cup {m}) = ActualSeconds(S) + m.actual
                /\ IdleSeconds(S \cup {m}) =
                     IdleSeconds(S) + (IF m.idle = NoIdle THEN 0 ELSE m.idle)
                /\ Observed(S \cup {m}) # {} <=> Observed(S) # {} \/ m.idle # NoIdle
            BY <1>2, <1>6, <5>1, OneTaskMore
          <5>4. Counts(S, totals[k], idle[k])
            BY <3>2 DEF S
          <5>5. Counts(S \cup {m}, totals'[k], idle'[k])
            BY <3>1, <4>2, <5>3, <5>4
          <5> QED
            BY <5>2, <5>5
        <4> QED
          BY <4>1, <4>2
      <3>4. EachTaskCountsOnce'
        BY <3>3 DEF EachTaskCountsOnce
      <3> QED
        BY <1>2, <2>2, <2>3, <3>1, <3>4 DEF TasksInv
    <2> QED
      BY <2>5, <2>6
  <1> QED
    BY <1>5, <1>6

\* Neither the broker nor the boot sequence touches the totals.
LEMMA QuietTasks ==
    ASSUME TasksInv, LogsOf(Written)', ReaderInv', UNCHANGED <<totals, idle, seen, handled>>,
           \A t \in Partitions : \A n \in 1 .. Len(log[t]) : log'[t][n] = log[t][n]
    PROVE  TasksInv' /\ HandledTasks' = HandledTasks
  <1>1. HandledTasks' = HandledTasks
    BY SameTasks DEF TasksInv
  <1>2. \A k : Tasks(k)' = Tasks(k)
    BY <1>1 DEF Tasks
  <1>3. TotalsInv' /\ SeenInv' /\ EachTaskCountsOnce'
    BY <1>1, <1>2 DEF TasksInv, TotalsInv, SeenInv, EachTaskCountsOnce
  <1> QED
    BY <1>1, <1>3 DEF TasksInv

\* A process without tasks has empty totals.
LEMMA NoTasks ==
    ASSUME totals = NoTotals, idle = NoIdleTotals, seen = {},
           handled = [t \in Partitions |-> {}]
    PROVE  TotalsInv /\ SeenInv /\ EachTaskCountsOnce
  <1>1. HandledTasks = {} /\ \A k : Tasks(k) = {} /\ Observed(Tasks(k)) = {}
    BY DEF HandledTasks, Tasks, Observed
  <1>2. SeenInv
    BY <1>1, FS_EmptySet DEF SeenInv
  <1>3. TotalsInv
    <2>1. NoTotals \in [TaskTypes -> [sum : Int, count : Nat]]
      BY DEF NoTotals
    <2>2. NoIdleTotals \in [TaskTypes -> [idle : Int, actual : Int, observed : BOOLEAN]]
      BY DEF NoIdleTotals
    <2> QED
      BY <2>1, <2>2 DEF TotalsInv
  <1>4. Cardinality({}) = 0 /\ ActualSeconds({}) = 0 /\ SumFunctionOnSet(Gap, {}) = 0
    BY FS_EmptySet, SumEmpty DEF ActualSeconds
  <1>5. EachTaskCountsOnce
    BY <1>1, <1>4 DEF EachTaskCountsOnce, NoTotals, NoIdleTotals, IdleSeconds
  <1> QED
    BY <1>2, <1>3, <1>5

-----------------------------------------------------------------------------
(* Rounding *)

\* Products that grow with a factor.
LEMMA ProductGrows ==
    ASSUME NEW a \in Int, NEW b \in Int, NEW d \in Nat, a <= b
    PROVE  a * d <= b * d
  <1>1. (b - a) * d >= 0
    OBVIOUS
  <1>2. (b - a) * d = b * d - a * d
    OBVIOUS
  <1> QED
    BY <1>1, <1>2

\* Ceil(n, d) is the least integer that is not below n / d.
LEMMA CeilIsLeast ==
    ASSUME NEW n \in Int, NEW d \in Nat \ {0}
    PROVE  /\ Ceil(n, d) \in Int
           /\ Ceil(n, d) * d >= n
           /\ (Ceil(n, d) - 1) * d < n
  <1> DEFINE q == (-n) \div d
             r == (-n) % d
  <1>1. q \in Int /\ r \in 0 .. d - 1 /\ -n = d * q + r
    OBVIOUS
  <1>2. Ceil(n, d) = -q
    BY DEF Ceil
  <1> HIDE DEF q, r
  <1>3. (-q) * d = n + r
    <2>1. (-q) * d = -(d * q)
      BY <1>1
    <2> QED
      BY <1>1, <2>1
  <1>4. (-q - 1) * d = n + r - d
    <2>1. (-q - 1) * d = (-q) * d - d
      BY <1>1
    <2> QED
      BY <1>3, <2>1, <1>1
  <1>5. (-q) * d >= n /\ (-q - 1) * d < n
    BY <1>1, <1>3, <1>4
  <1> QED
    BY <1>1, <1>2, <1>5

\* The ceiling of a whole number is that number.
LEMMA CeilOfWhole ==
    ASSUME NEW n \in Int, NEW d \in Nat \ {0}, n % d = 0
    PROVE  Ceil(n, d) * d = n
  <1> DEFINE k == n \div d
             c == Ceil(n, d)
  <1>1. k \in Int /\ n = d * k
    OBVIOUS
  <1>2. n = k * d
    BY <1>1
  <1>3. c \in Int /\ c * d >= n /\ (c - 1) * d < n
    BY CeilIsLeast
  <1> HIDE DEF k, c
  <1>4. ~(c - 1 >= k)
    <2> SUFFICES ASSUME c - 1 >= k PROVE FALSE
      OBVIOUS
    <2>1. k * d <= (c - 1) * d
      BY <1>1, <1>3, ProductGrows
    <2>2. k * d \in Int /\ (c - 1) * d \in Int
      BY <1>1, <1>3
    <2> QED
      BY <1>2, <1>3, <2>1, <2>2
  <1>5. ~(c <= k - 1)
    <2> SUFFICES ASSUME c <= k - 1 PROVE FALSE
      OBVIOUS
    <2>1. c * d <= (k - 1) * d
      BY <1>1, <1>3, ProductGrows
    <2>2. (k - 1) * d = k * d - d /\ k * d \in Int /\ c * d \in Int
      BY <1>1, <1>3
    <2> QED
      BY <1>2, <1>3, <2>1, <2>2
  <1>6. c = k
    BY <1>1, <1>3, <1>4, <1>5
  <1> QED
    BY <1>2, <1>6 DEF c

\* The heads for a charge cover it, and one head fewer does not, or just does where the
\* rate is rounded.
LEMMA HeadsOfARate ==
    ASSUME NEW charge \in Int, NEW r \in Fraction, NEW h \in ProposedHeads(charge, r)
    PROVE  /\ h \in Int
           /\ r.n <= 0 => h = 0
           /\ r.n > 0 => /\ h * r.n >= charge * r.d
                         /\ \/ (h - 1) * r.n < charge * r.d
                            \/ (h - 1) * r.n = charge * r.d /\ ~ Exact(r)
  <1>1. r.n \in Int /\ r.d \in Nat
    BY DEF Fraction
  <1>2. CASE r.n <= 0
    BY <1>1, <1>2 DEF ProposedHeads
  <1>3. CASE r.n > 0
    <2>1. PICK n \in Nat \ {0} : n = r.n
      BY <1>1, <1>3
    <2>2. PICK a \in Int : a = charge * r.d
      BY <1>1
    <2>3. PICK c \in Int : c = Ceil(a, n) /\ c * n >= a /\ (c - 1) * n < a
      BY CeilIsLeast
    <2>4. h = c \/ (h = c + 1 /\ a % n = 0 /\ ~ Exact(r))
      BY <1>1, <1>3, <2>1, <2>2, <2>3 DEF ProposedHeads
    <2>5. CASE h = c
      BY <1>1, <1>3, <2>1, <2>2, <2>3, <2>5
    <2>6. CASE h = c + 1 /\ a % n = 0 /\ ~ Exact(r)
      <3>1. c * n = a
        BY <2>3, <2>6, CeilOfWhole
      <3>2. h - 1 = c /\ h \in Int
        BY <2>6
      <3>3. h * n = c * n + n
        BY <2>6
      <3>4. h * n >= a
        BY <3>1, <3>3
      <3> QED
        BY <1>1, <1>3, <2>1, <2>2, <2>6, <3>1, <3>2, <3>4
    <2> QED
      BY <2>4, <2>5, <2>6
  <1> QED
    BY <1>1, <1>2, <1>3

\* A trim leaves at least one head, and the share of the heads that is not idle.
LEMMA TrimmedHeads ==
    ASSUME NEW h \in Int, h > 0, NEW s \in Fraction, NEW t \in Trimmed(h, s), t < h
    PROVE  /\ t \in Int /\ 1 <= t
           /\ t * s.d >= h * (s.d - s.n)
  <1>1. PICK d \in Nat \ {0} : d = s.d
    BY DEF Fraction
  <1>2. s.n \in Int
    BY DEF Fraction
  <1>3. PICK a \in Int : a = h * (s.d - s.n)
    BY <1>1, <1>2
  <1>4. PICK c \in Int : c = Ceil(a, d) /\ c * d >= a
    BY CeilIsLeast
  <1>5. PICK u \in RoundedUp(h, s) : t = IF u < 1 THEN 1 ELSE IF u >= h THEN h ELSE u
    BY DEF Trimmed
  <1>6. u = c \/ u = c + 1
    BY <1>1, <1>3, <1>4, <1>5 DEF RoundedUp
  <1>7. u \in Int /\ c <= u /\ u <= t /\ t \in Int /\ 1 <= t
    BY <1>4, <1>5, <1>6
  <1>8. c * d <= t * d
    BY <1>4, <1>7, ProductGrows
  <1>9. t * d >= a
    <2>1. c * d \in Int /\ t * d \in Int
      BY <1>4, <1>7
    <2> QED
      BY <1>4, <1>8, <2>1
  <1> QED
    BY <1>1, <1>3, <1>7, <1>9

-----------------------------------------------------------------------------
(* What a proposal rests on *)

\* A ready process has counted every task it found.
LEMMA FoundIsHandled == ASSUME ReaderInv, ready, NEW k PROVE Found(k) \subseteq Tasks(k)
  <1>1. \A t \in Partitions : expired[t] + 1 .. goal[t] \subseteq handled[t]
    BY DEF ReaderInv
  <1> QED
    BY <1>1, TaskIsHandled DEF Found, Tasks

\* It finds no more than it did: what is deleted need not have been counted.
LEMMA FoundShrinks ==
    ASSUME ReaderInv, UNCHANGED goal,
           \A t \in Partitions : expired[t] <= expired'[t] /\ expired'[t] \in Nat,
           \A t \in Partitions : \A n \in 1 .. Len(log[t]) : log'[t][n] = log[t][n],
           NEW k
    PROVE  Found(k)' \subseteq Found(k)
  <1>1. ASSUME NEW t \in Partitions, NEW n \in expired'[t] + 1 .. goal[t]
        PROVE  n \in expired[t] + 1 .. goal[t] /\ log'[t][n] = log[t][n]
    <2>1. expired[t] \in Nat /\ goal[t] \in Nat /\ goal[t] <= Len(log[t]) /\ Len(log[t]) \in Nat
      BY DEF ReaderInv, PositionInv
    <2>2. n \in expired[t] + 1 .. goal[t] /\ n \in 1 .. Len(log[t])
      BY <1>1, <2>1
    <2> QED
      BY <2>2
  <1> QED
    BY <1>1 DEF Found

\* A step of the cache: tasks are only added, and a ready process finds no more.
LEMMA CacheStep ==
    ASSUME TasksInv, CacheNext
    PROVE  /\ TasksInv' /\ HandledTasks \subseteq HandledTasks'
           /\ ready => ready' /\ \A k : Found(k)' \subseteq Found(k)
  <1>1. LogsOf(Written) /\ ReaderInv
    BY DEF TasksInv
  <1>2. \A t \in Partitions : expired[t] \in Nat
    BY <1>1 DEF ReaderInv
  <1>3. ASSUME NEW t \in Partitions, ReadTask(t)
        PROVE  /\ TasksInv' /\ HandledTasks \subseteq HandledTasks'
               /\ ready => ready' /\ \A k : Found(k)' \subseteq Found(k)
    <2>1. UNCHANGED <<log, expired, goal>> /\ (ready => ready')
      BY <1>1, <1>3, ReadStep DEF ReadTask
    <2> QED
      BY <1>3, <2>1, ReadTaskInv DEF Found
  <1>4. CASE /\ UNCHANGED cache
             /\ \/ \E t \in Partitions : Capture(t) \/ CommitOffset(t) \/ Rejoin(t) \/ Expire(t)
                \/ CaptureFails \/ Start \/ ReaderFails
    <2>1. /\ LogsOf(Written)' /\ ReaderInv' /\ UNCHANGED <<log, handled>>
          /\ \A t \in Partitions : expired[t] <= expired'[t]
          /\ phase # "capture" => UNCHANGED <<goal, ready>>
      BY <1>1, <1>4, QuietInv
    <2>2. TasksInv' /\ HandledTasks' = HandledTasks
      BY <1>4, <2>1, QuietTasks DEF cache
    <2>3. ready => ready' /\ \A k : Found(k)' \subseteq Found(k)
      <3> SUFFICES ASSUME ready, NEW k PROVE ready' /\ Found(k)' \subseteq Found(k)
        OBVIOUS
      <3>1. UNCHANGED <<goal, ready>> /\ \A t \in Partitions : expired'[t] \in Nat
        BY <1>1, <2>1 DEF ReaderInv
      <3> QED
        BY <1>1, <2>1, <3>1, FoundShrinks
    <2> QED
      BY <2>2, <2>3
  <1>5. ASSUME NEW m \in Events, Produce(Route(m), m), UNCHANGED cache
        PROVE  /\ TasksInv' /\ HandledTasks' = HandledTasks
               /\ UNCHANGED ready /\ \A k : Found(k)' \subseteq Found(k)
    <2>0. Route(m) \in Partitions
      BY CacheAssumption
    <2>1. m \in Written
      BY DEF Written
    <2>2. /\ LogsOf(Written)' /\ ReaderInv'
          /\ UNCHANGED <<expired, pos, handled, upsets, goal, ready>>
          /\ \A t \in Partitions : \A n \in 1 .. Len(log[t]) : log'[t][n] = log[t][n]
      BY <1>1, <1>5, <2>0, <2>1, ProduceInv
    <2>3. TasksInv' /\ HandledTasks' = HandledTasks
      BY <1>5, <2>2, QuietTasks DEF cache
    <2>4. \A k : Found(k)' \subseteq Found(k)
      <3>1. \A t \in Partitions : expired[t] <= expired'[t] /\ expired'[t] \in Nat
        BY <1>2, <2>2
      <3> QED
        BY <1>1, <2>2, <3>1, FoundShrinks
    <2> QED
      BY <2>2, <2>3, <2>4
  <1> QED
    BY <1>3, <1>4, <1>5 DEF CacheNext

\* The next process begins with no tasks.
LEMMA NewProcessInv == ASSUME TasksInv, NewProcess PROVE TasksInv'
  <1>1. LogsOf(Written) /\ ReaderInv /\ UNCHANGED log
    BY DEF TasksInv, NewProcess, Restart, broker
  <1>2. LogsOf(Written)' /\ ReaderInv'
    BY <1>1, SameTopic, RestartInv DEF NewProcess
  <1>3. (totals = NoTotals /\ idle = NoIdleTotals /\ seen = {}
            /\ handled = [t \in Partitions |-> {}])'
    BY DEF NewProcess, Restart
  <1>4. TotalsInv' /\ SeenInv' /\ EachTaskCountsOnce'
    BY <1>3, NoTasks, PTL
  <1> QED
    BY <1>2, <1>4 DEF TasksInv

\* What the handler has asked rests on the tasks of a ready process.
RestInv == ServedInv /\ RateInv /\ ProposalsRestOnTasks

\* While the cache moves on, the tasks that an answer rests on remain counted.
LEMMA RestGrows ==
    ASSUME RestInv, UNCHANGED handler, HandledTasks \subseteq HandledTasks',
           ready => ready' /\ \A k : Found(k)' \subseteq Found(k)
    PROVE  RestInv'
  <1>1. UNCHANGED <<mode, pc, req, rate, source, share>>
    BY DEF handler
  <1>2. \A k : Tasks(k) \subseteq Tasks(k)'
    BY DEF Tasks
  <1>3. ServedInv'
    BY <1>1 DEF RestInv, ServedInv
  <1>4. ASSUME pc # "idle", mode = "kafka-cache"
        PROVE  Found(req.type)' \subseteq Found(req.type)
    BY <1>1, <1>4 DEF RestInv, ServedInv, Found
  <1>5. RateInv'
    BY <1>1, <1>2, <1>4 DEF RestInv, RateInv, MeanOf
  <1>6. ProposalsRestOnTasks'
    BY <1>1, <1>2, <1>4 DEF RestInv, ProposalsRestOnTasks, MeanOf, ShareOf
  <1> QED
    BY <1>3, <1>5, <1>6 DEF RestInv

\* A handler that is done, or has only begun, rests on nothing.
LEMMA RestOfNothing ==
    ASSUME pc' \in {"idle", "rate"}, pc' = "rate" => ServedInv'
    PROVE  RestInv'
  BY DEF RestInv, ServedInv, RateInv, ProposalsRestOnTasks

\* The cache does not move while the handler does.
LEMMA SameCacheTasks ==
    ASSUME UNCHANGED <<reader, cache>>
    PROVE  \A k : /\ Tasks(k)' = Tasks(k) /\ Found(k)' = Found(k)
  BY DEF reader, Tasks, HandledTasks, Found

\* The measured rate is the mean of the tasks counted so far.
LEMMA MeanRests ==
    ASSUME EachTaskCountsOnce, TotalsInv, SeenInv, mode = "kafka-cache", NEW k, NEW r \in MeanSeconds(k)
    PROVE  MeanOf(r, Tasks(k))
  <1>1. /\ k \in TaskTypes /\ totals[k].count # 0
        /\ r.n = totals[k].sum /\ r.d = totals[k].count
    BY DEF MeanSeconds, RateAvailable, MeanActualSeconds
  <1>2. IsFiniteSet(Tasks(k))
    BY FS_Subset DEF SeenInv, Tasks
  <1>3. totals[k].count = Cardinality(Tasks(k)) /\ totals[k].sum = ActualSeconds(Tasks(k))
    BY <1>1 DEF EachTaskCountsOnce
  <1>4. Tasks(k) # {}
    BY <1>1, <1>3, FS_EmptySet
  <1>5. totals[k].count \in Int /\ totals[k].sum \in Int
    BY <1>1 DEF TotalsInv
  <1> QED
    BY <1>1, <1>3, <1>4, <1>5 DEF MeanOf

-----------------------------------------------------------------------------
(* The inductive invariant of the proposals *)

\* A step that leaves the answer and the stage alone keeps what holds of them.
LEMMA SameHandler ==
    ASSUME HandlerTypes, HeadsInv, TrimInv, UNCHANGED <<pc, req, rate, untrimmed, heads, share, reply>>
    PROVE  HandlerTypes' /\ HeadsInv' /\ TrimInv'
  BY DEF HandlerTypes, HeadsInv, TrimInv, Answered

\* A handler that is idle without an answer.
LEMMA WithoutAnswer ==
    ASSUME pc' = "idle", reply' # "ok", req'.charge \in Int, rate' \in Fraction,
           untrimmed' \in Int
    PROVE  HandlerTypes' /\ HeadsInv' /\ TrimInv'
  BY DEF HandlerTypes, HeadsInv, TrimInv, Answered

\* Every behaviour begins with the invariant.
LEMMA InitInv == Init => IInv
  <1> SUFFICES ASSUME Init PROVE IInv
    OBVIOUS
  <1>1. LogsOf(Written)
    BY CacheAssumption DEF Init, CacheInit, ReaderInit, LogsOf
  <1>2. ReaderInv
    BY <1>1, ReaderInitInv DEF Init, CacheInit
  <1>3. TotalsInv /\ SeenInv /\ EachTaskCountsOnce
    BY NoTasks DEF Init, CacheInit, ReaderInit
  <1>4. HandlerTypes /\ HeadsInv /\ TrimInv
    <2>1. pc = "idle" /\ reply = "none" /\ req.charge = 0 /\ untrimmed = 0 /\ rate = Caller(0)
      BY DEF Init
    <2>2. Caller(0) \in Fraction
      BY DEF Caller, Fraction
    <2> QED
      BY <2>1, <2>2 DEF HandlerTypes, HeadsInv, TrimInv, Answered
  <1>5. ServedInv /\ RateInv /\ ProposalsRestOnTasks
    BY DEF Init, ServedInv, RateInv, ProposalsRestOnTasks
  <1> QED
    BY <1>1, <1>2, <1>3, <1>4, <1>5 DEF IInv, TasksInv

\* The rates a client may answer are fractions.
LEMMA MeasuredRates ==
    ASSUME TotalsInv, NEW k, NEW r \in MeanSeconds(k)
    PROVE  r \in Fraction
  <1>1. CASE mode = "kafka-cache"
    <2>1. k \in TaskTypes /\ totals[k].count # 0 /\ r = [n |-> totals[k].sum, d |-> totals[k].count]
      BY <1>1 DEF MeanSeconds, RateAvailable, MeanActualSeconds
    <2>2. totals[k].sum \in Int /\ totals[k].count \in Nat \ {0}
      BY <2>1 DEF TotalsInv
    <2> QED
      BY <2>1, <2>2 DEF Fraction
  <1>2. CASE mode = "http"
    <2>1. PICK s \in Measured : r = [n |-> s, d |-> 1]
      BY <1>2 DEF MeanSeconds, Caller
    <2>2. s \in Int
      BY ProposalAssumption
    <2> QED
      BY <2>1, <2>2 DEF Fraction
  <1>3. CASE mode # "kafka-cache" /\ mode # "http"
    BY <1>3 DEF MeanSeconds
  <1> QED
    BY <1>1, <1>2, <1>3

\* A request is taken up without heads and without a reason to trim.
LEMMA AskKeeps ==
    ASSUME NEW q \in Requests, Propose(q) \/ proposePathHeads(q)
    PROVE  /\ UNCHANGED <<reader, cache>>
           /\ HandlerTypes' /\ HeadsInv' /\ TrimInv' /\ RestInv'
  <1>1. Ask(q) /\ pc' \in {"idle", "rate"} /\ reply' # "ok"
    BY DEF Propose, proposePathHeads
  <1>2. /\ req' = q /\ rate' = Caller(q.rate) /\ untrimmed' = 0 /\ share' = Unavailable
        /\ UNCHANGED <<reader, cache>>
    BY <1>1 DEF Ask
  <1>3. q.charge \in Int /\ Caller(q.rate) \in Fraction
    BY ProposalAssumption DEF Caller, Fraction
  <1>4. ServedInv'
    BY <1>1, <1>2 DEF Ask, Serving, ServedInv, reader
  <1> QED
    BY <1>1, <1>2, <1>3, <1>4, RestOfNothing DEF HandlerTypes, HeadsInv, TrimInv, Answered

\* The heads of a resolved rate are to be trimmed.
LEMMA ResolvedKeeps ==
    ASSUME IInv, UseMeasured \/ UseCaller
    PROVE  HandlerTypes' /\ HeadsInv' /\ TrimInv'
  <1>1. rate \in Fraction /\ TotalsInv /\ req.charge \in Int
    BY DEF IInv, TasksInv, HandlerTypes
  <1>2. PICK r \in Fraction : \E from \in {"measured", "caller"} : Resolved(r, from)
    BY <1>1, MeasuredRates DEF UseMeasured, UseCaller
  <1>3. /\ pc = "rate" /\ pc' = "trim"
        /\ rate' = r /\ req' = req /\ share' = share
        /\ untrimmed' \in ProposedHeads(req.charge, r)
        /\ heads' = untrimmed'
    BY <1>2 DEF Resolved
  <1>4. share = Unavailable
    BY <1>3 DEF IInv, TrimInv
  <1>5. untrimmed' \in Int
    BY <1>1, <1>3, HeadsOfARate
  <1> QED
    BY <1>1, <1>3, <1>4, <1>5 DEF HandlerTypes, HeadsInv, TrimInv, Answered

\* The trim has a reason exactly when it leaves fewer heads.
LEMMA TrimKeeps ==
    ASSUME IInv, KeepHeads \/ TrimHeads
    PROVE  HandlerTypes' /\ HeadsInv' /\ TrimInv'
  <1>1. /\ pc = "trim" /\ pc' = "publish"
        /\ UNCHANGED <<req, rate, untrimmed>>
    BY DEF KeepHeads, TrimHeads, answer
  <1>2. /\ HandlerTypes /\ share = Unavailable /\ heads = untrimmed
        /\ untrimmed \in ProposedHeads(req.charge, rate)
    BY <1>1 DEF IInv, HeadsInv, TrimInv
  <1>3. CASE KeepHeads
    <2>1. UNCHANGED <<heads, share>>
      BY <1>3 DEF KeepHeads, answer
    <2> QED
      BY <1>1, <1>2, <2>1 DEF HandlerTypes, HeadsInv, TrimInv, Answered
  <1>4. CASE TrimHeads
    <2> DEFINE k == req.type
    <2>1. /\ k \in TaskTypes
          /\ heads > 0
          /\ idle[k].idle + idle[k].actual > 0
          /\ Exceeds(IdleSharePct(k))
          /\ heads' \in Trimmed(heads, IdleSharePct(k))
          /\ share' = IF heads' < heads THEN IdleSharePct(k) ELSE Unavailable
      BY <1>4 DEF TrimHeads, TooIdle, ShareAvailable
    <2>2. PICK s : s = IdleSharePct(k)
      OBVIOUS
    <2>3. s \in Fraction
      <3>1. idle[k].idle \in Int /\ idle[k].actual \in Int
        BY <2>1 DEF IInv, TasksInv, TotalsInv
      <3>2. idle[k].idle + idle[k].actual \in Nat \ {0}
        BY <2>1, <3>1
      <3> QED
        BY <2>2, <3>1, <3>2 DEF Fraction, IdleSharePct
    <2>4. heads \in Int
      BY <1>2 DEF HandlerTypes
    <2>5. CASE heads' < heads
      <3>1. share' = s /\ Exceeds(s) /\ heads' \in Trimmed(untrimmed', s)
        BY <1>1, <1>2, <2>1, <2>2, <2>5
      <3>2. 0 < untrimmed' /\ heads' < untrimmed'
        BY <1>1, <1>2, <2>1, <2>5
      <3>3. Exceeds(share)'
        BY <3>1 DEF Exceeds
      <3>4. TrimInv'
        BY <1>1, <2>3, <3>1, <3>2, <3>3 DEF TrimInv, Answered
      <3> QED
        BY <1>1, <1>2, <3>4 DEF HandlerTypes, HeadsInv, Answered
    <2>6. CASE ~(heads' < heads)
      <3>1. PICK u \in RoundedUp(heads, s) :
               heads' = IF u < 1 THEN 1 ELSE IF u >= heads THEN heads ELSE u
        BY <2>1, <2>2 DEF Trimmed
      <3>2. u \in Int
        <4>1. PICK a \in Int, d \in Nat \ {0} : a = heads * (s.d - s.n) /\ d = s.d
          BY <2>3, <2>4 DEF Fraction
        <4>2. Ceil(a, d) \in Int
          BY CeilIsLeast
        <4> QED
          BY <3>1, <4>1, <4>2 DEF RoundedUp
      <3>3. heads' = heads
        BY <2>1, <2>4, <2>6, <3>1, <3>2
      <3>4. share' = Unavailable
        BY <2>1, <2>6
      <3> QED
        BY <1>1, <1>2, <3>3, <3>4 DEF HandlerTypes, HeadsInv, TrimInv, Answered
    <2> QED
      BY <2>5, <2>6
  <1> QED
    BY <1>3, <1>4

\* The rate is the mean of the tasks counted when it was asked for.
LEMMA ResolvedRests == ASSUME IInv, UseMeasured \/ UseCaller PROVE RestInv'
  <1>1. /\ pc = "rate" /\ pc' = "trim" /\ UNCHANGED <<reader, cache, mode, req>>
        /\ \/ source' = "caller"
           \/ source' = "measured" /\ rate' \in MeanSeconds(req.type)
    BY DEF UseMeasured, UseCaller, Resolved
  <1>2. ServedInv' /\ (mode = "kafka-cache" => ready)
    BY <1>1 DEF IInv, ServedInv, reader
  <1>3. ASSUME mode = "kafka-cache"
        PROVE  /\ Found(req.type) \subseteq Tasks(req.type)
               /\ source' = "measured" => MeanOf(rate', Tasks(req.type))
    BY <1>1, <1>2, <1>3, FoundIsHandled, MeanRests DEF IInv, TasksInv
  <1>4. Tasks(req.type)' = Tasks(req.type) /\ Found(req.type)' = Found(req.type)
    BY <1>1, SameCacheTasks
  <1>5. RateInv'
    BY <1>1, <1>3, <1>4 DEF RateInv, MeanOf
  <1>6. ProposalsRestOnTasks'
    BY <1>1 DEF ProposalsRestOnTasks
  <1> QED
    BY <1>2, <1>5, <1>6 DEF RestInv

\* The share is that of the tasks counted by then, more perhaps than for the rate.
LEMMA ShareRests ==
    ASSUME EachTaskCountsOnce, TotalsInv, NEW k, ShareAvailable(k)
    PROVE  ShareOf(IdleSharePct(k), Tasks(k))
  <1>1. k \in TaskTypes /\ idle[k].observed
    BY DEF ShareAvailable
  <1>2. /\ IdleSharePct(k).n = idle[k].idle
        /\ IdleSharePct(k).d = idle[k].idle + idle[k].actual
        /\ idle[k].idle \in Int /\ idle[k].actual \in Int
    BY <1>1 DEF IdleSharePct, TotalsInv
  <1>3. /\ idle[k].idle = IdleSeconds(Tasks(k)) /\ idle[k].actual = ActualSeconds(Tasks(k))
        /\ Observed(Tasks(k)) # {}
    BY <1>1 DEF EachTaskCountsOnce
  <1>4. \A i, a \in Int : i * (i + a) = (i + a) * i
    OBVIOUS
  <1> QED
    BY <1>2, <1>3, <1>4 DEF ShareOf

LEMMA TrimRests == ASSUME IInv, KeepHeads \/ TrimHeads PROVE RestInv'
  <1>1. /\ pc = "trim" /\ pc' = "publish" /\ UNCHANGED <<reader, cache, mode, req, rate, source>>
        /\ \/ share' = share
           \/ share' = Unavailable
           \/ share' = IdleSharePct(req.type) /\ ShareAvailable(req.type)
    BY DEF KeepHeads, TrimHeads, TooIdle, answer
  <1>2. share' # Unavailable => share' = IdleSharePct(req.type) /\ ShareAvailable(req.type)
    BY <1>1 DEF IInv, TrimInv
  <1>3. ServedInv' /\ RateInv'
    BY <1>1 DEF IInv, ServedInv, RateInv, reader
  <1>4. share' # Unavailable => ShareOf(share', Tasks(req.type))
    BY <1>2, ShareRests DEF IInv, TasksInv
  <1>5. Tasks(req.type)' = Tasks(req.type) /\ Found(req.type)' = Found(req.type)
    BY <1>1, SameCacheTasks
  <1>6. ProposalsRestOnTasks'
    <2> SUFFICES ASSUME mode = "kafka-cache"
                 PROVE  \E S \in SUBSET Tasks(req.type) : \E T \in SUBSET S :
                           /\ Found(req.type) \subseteq T
                           /\ source = "measured" => MeanOf(rate, T)
                           /\ share' # Unavailable => ShareOf(share', S)
      BY <1>1, <1>5 DEF ProposalsRestOnTasks, MeanOf, ShareOf
    <2>1. PICK T \in SUBSET Tasks(req.type) :
             Found(req.type) \subseteq T /\ (source = "measured" => MeanOf(rate, T))
      BY <1>1 DEF IInv, RateInv
    <2> WITNESS Tasks(req.type) \in SUBSET Tasks(req.type)
    <2> WITNESS T \in SUBSET Tasks(req.type)
    <2> QED
      BY <1>4, <2>1
  <1> QED
    BY <1>3, <1>6 DEF RestInv

\* An answer is what was published; what fails is none.
LEMMA EndKeeps ==
    ASSUME IInv, Publish \/ Abandon
    PROVE  HandlerTypes' /\ HeadsInv' /\ TrimInv' /\ RestInv'
  <1>1. HandlerTypes /\ HeadsInv /\ TrimInv
    BY DEF IInv
  <1>2. UNCHANGED <<req, rate, untrimmed, heads, share>> /\ pc' = "idle"
    BY DEF Publish, Abandon, answer
  <1>3. RestInv'
    BY <1>2, RestOfNothing
  <1>4. CASE Publish
    BY <1>1, <1>2, <1>3, <1>4 DEF Publish, HandlerTypes, HeadsInv, TrimInv, Answered, Exceeds
  <1>5. CASE Abandon /\ pc = "idle"
    <2>1. UNCHANGED <<pc, reply>>
      BY <1>5 DEF Abandon
    <2> QED
      BY <1>1, <1>2, <1>3, <2>1, SameHandler
  <1>6. CASE Abandon /\ pc # "idle"
    BY <1>1, <1>2, <1>3, <1>6, WithoutAnswer DEF Abandon, HandlerTypes
  <1> QED
    BY <1>4, <1>5, <1>6

\* Every step keeps the invariant.
LEMMA NextInv == IInv /\ [Next]_vars => IInv'
  <1> SUFFICES ASSUME IInv, [Next]_vars PROVE IInv'
    OBVIOUS
  <1>1. TasksInv /\ HandlerTypes /\ HeadsInv /\ TrimInv /\ RestInv
    BY DEF IInv, RestInv
  <1>2. SUFFICES TasksInv' /\ HandlerTypes' /\ HeadsInv' /\ TrimInv' /\ RestInv'
    BY DEF IInv, RestInv
  <1>3. ASSUME UNCHANGED <<reader, cache>>
        PROVE  TasksInv' /\ HandledTasks' = HandledTasks /\ \A k : Found(k)' \subseteq Found(k)
    <2>1. LogsOf(Written)' /\ ReaderInv'
      BY <1>1, <1>3 DEF TasksInv, LogsOf, ReaderInv, PositionInv, reader
    <2>2. TasksInv' /\ HandledTasks' = HandledTasks
      BY <1>1, <1>3, <2>1, QuietTasks DEF reader, cache
    <2> QED
      BY <1>3, <2>2, SameCacheTasks
  <1>4. ASSUME UNCHANGED handler
        PROVE  HandlerTypes' /\ HeadsInv' /\ TrimInv'
    BY <1>1, <1>4, SameHandler DEF handler
  <1>5. CASE UNCHANGED vars
    <2>1. UNCHANGED <<reader, cache>> /\ UNCHANGED handler /\ UNCHANGED ready
      BY <1>5 DEF vars, reader, cache, handler
    <2> QED
      BY <1>1, <1>3, <1>4, <2>1, RestGrows
  <1>6. CASE \E q \in Requests : Propose(q) \/ proposePathHeads(q)
    BY <1>3, <1>6, AskKeeps
  <1>7. CASE UseMeasured \/ UseCaller
    <2>1. UNCHANGED <<reader, cache>>
      BY <1>7 DEF UseMeasured, UseCaller, Resolved
    <2> QED
      BY <1>3, <1>7, <2>1, ResolvedKeeps, ResolvedRests
  <1>8. CASE KeepHeads \/ TrimHeads
    <2>1. UNCHANGED <<reader, cache>>
      BY <1>8 DEF KeepHeads, TrimHeads
    <2> QED
      BY <1>3, <1>8, <2>1, TrimKeeps, TrimRests
  <1>9. CASE Publish \/ Fail
    <2>1. UNCHANGED <<reader, cache>> /\ (Publish \/ Abandon)
      BY <1>9 DEF Publish, Fail
    <2> QED
      BY <1>3, <2>1, EndKeeps
  <1>10. CASE CacheNext /\ UNCHANGED handler
    <2>1. /\ TasksInv' /\ HandledTasks \subseteq HandledTasks'
          /\ ready => ready' /\ \A k : Found(k)' \subseteq Found(k)
      BY <1>1, <1>10, CacheStep
    <2> QED
      BY <1>1, <1>4, <1>10, <2>1, RestGrows
  <1>11. CASE NewProcess /\ Abandon
    BY <1>1, <1>11, NewProcessInv, EndKeeps
  <1> QED
    BY <1>5, <1>6, <1>7, <1>8, <1>9, <1>10, <1>11 DEF Next

-----------------------------------------------------------------------------
(* The theorems about the proposals *)

\* The inductive invariant holds in every state, for all topics, requests and rates.
THEOREM ProposalInvariance == Spec => []IInv
  BY InitInv, NextInv, PTL DEF Spec

\* (ProposedHeads, "heads needed to cover a path's charge at the given planned rate,
\* rounded up") Without a trim, the heads of an answer cover the charge at the rate the
\* answer names, and one head fewer would not, or just would where the rate was rounded.
THEOREM ChargeIsCovered == Spec => []HeadsCoverTheCharge
  <1>1. IInv => HeadsCoverTheCharge
    <2> SUFFICES ASSUME IInv, Answered, share = Unavailable
                 PROVE  IF rate.n <= 0 THEN heads = 0
                        ELSE /\ heads * rate.n >= req.charge * rate.d
                             /\ \/ (heads - 1) * rate.n < req.charge * rate.d
                                \/ (heads - 1) * rate.n = req.charge * rate.d /\ ~ Exact(rate)
      BY DEF HeadsCoverTheCharge
    <2>1. heads = untrimmed
      <3>1. share \notin Fraction
        BY ProposalAssumption DEF Fraction
      <3> QED
        BY <3>1 DEF IInv, TrimInv
    <2>2. PICK r \in Fraction : r = rate
      BY DEF IInv, HandlerTypes
    <2>3. PICK charge \in Int : charge = req.charge
      BY DEF IInv, HandlerTypes
    <2>4. PICK h \in ProposedHeads(charge, r) : h = heads
      BY <2>1, <2>2, <2>3 DEF IInv, HeadsInv
    <2>5. r.n \in Int
      BY DEF Fraction
    <2> QED
      BY <2>2, <2>3, <2>4, <2>5, HeadsOfARate
  <1> QED
    BY <1>1, ProposalInvariance, PTL

\* (applyIdleShareTrim, "floored at 1 head minimum so a trim never proposes zero heads
\* for real work") A trim leaves at least one head, at least the share of the heads that
\* is not idle, and fewer than there were; it has a reason exactly when it happened.
THEOREM TrimsAreBounded == Spec => []TrimIsBounded
  <1>1. IInv => TrimIsBounded
    <2> SUFFICES ASSUME IInv, Answered
                 PROVE  /\ share = Unavailable <=> heads = untrimmed
                        /\ share # Unavailable =>
                              /\ 1 <= heads /\ heads < untrimmed
                              /\ heads * share.d >= untrimmed * (share.d - share.n)
                              /\ Exceeds(share)
      BY DEF TrimIsBounded
    <2>1. CASE share = Unavailable /\ heads = untrimmed
      BY <2>1
    <2>2. CASE /\ share \in Fraction /\ Exceeds(share)
               /\ heads \in Trimmed(untrimmed, share)
               /\ 0 < untrimmed /\ heads < untrimmed
      <3>1. share # Unavailable
        BY <2>2, ProposalAssumption DEF Fraction
      <3>2. untrimmed \in Int
        BY DEF IInv, HandlerTypes
      <3>3. heads \in Int /\ 1 <= heads /\ heads * share.d >= untrimmed * (share.d - share.n)
        BY <2>2, <3>2, TrimmedHeads
      <3> QED
        BY <2>2, <3>1, <3>2, <3>3
    <2> QED
      BY <2>1, <2>2 DEF IInv, TrimInv
  <1> QED
    BY <1>1, ProposalInvariance, PTL

\* (Ready, checkReady) The same of the labor-performance cache: when it is ready it has
\* itself handled all the events it found at its start and that are still there.
THEOREM RatesAreReplayed == Spec => []ReadyMeansReplayed
  <1>1. IInv => ReadyMeansReplayed
    BY DEF IInv, TasksInv, ReaderInv, ReadyMeansReplayed
  <1> QED
    BY <1>1, ProposalInvariance, PTL

\* (markSeen) The totals are those of the distinct tasks that were handled, over any
\* number of redeliveries, repeated events and restarts.
THEOREM TasksCountOnce == Spec => []EachTaskCountsOnce
  <1>1. IInv => EachTaskCountsOnce
    BY DEF IInv, TasksInv
  <1> QED
    BY <1>1, ProposalInvariance, PTL

\* (MeanActualSeconds, IdleSharePct) The rate and the share of a proposal are those of
\* recorded tasks, those of the share among them all of the rate's, though the cache
\* moves on between the two calls and the process may be replaced.
THEOREM ProposalsAreMeasured == Spec => []ProposalsRestOnTasks
  <1>1. IInv => ProposalsRestOnTasks
    BY DEF IInv
  <1> QED
    BY <1>1, ProposalInvariance, PTL

=============================================================================
