----------------------- MODULE AnalyticsProjectorProofs -----------------------
(***************************************************************************)
(* Proofs about AnalyticsProjector: a pod that has the partition to itself *)
(* implements MemoryStore, step by step; however many pods overlap, the    *)
(* report has durations only where it counts breaks, and counts every      *)
(* event once, an induction over the sums of its rows.                     *)
(***************************************************************************)
EXTENDS AnalyticsProjector, SumLemmas

-----------------------------------------------------------------------------
(* Messages, cells and times *)

\* A position of a partition holds an event.
LEMMA PositionsHoldEvents ==
    ASSUME NEW t \in Topics, NEW i \in 1 .. Len(t)
    PROVE  t[i] \in Everything
  BY DEF Everything, Messages

\* What the model says of every event.
LEMMA EventFacts ==
    ASSUME NEW m \in Everything
    PROVE  /\ m.at \in Nat
           /\ m.kind \in Kinds
           /\ m.who \in Who
           /\ m.path \in PathIds
           /\ \A column \in Columns : <<column, m.path, Bucket(m.at)>> \in Cells
  BY EventAssumption DEF Who, PathIds, Hours, Cells

\* Add changes the cells of its columns, its path and its hour, and no other.
LEMMA AddCells ==
    ASSUME NEW table \in [Cells -> Int], NEW path, NEW at, NEW delta,
           \A x \in DOMAIN delta : delta[x] \in Int
    PROVE  LET new == Add(table, path, at, delta)
           IN  /\ new \in [Cells -> Int]
               /\ \A cell \in Cells :
                     IF cell[1] \in DOMAIN delta /\ cell[2] = path /\ cell[3] = Bucket(at)
                     THEN new[cell] = table[cell] + delta[cell[1]]
                     ELSE new[cell] = table[cell]
  BY DEF Add

\* The newest of a set of times and of one more time.
LEMMA NewestOfOneMore ==
    ASSUME NEW S, S \subseteq Int, NEW v \in Int,
           \E x \in S : \A y \in S : x >= y
    PROVE  /\ \E x \in S \cup {v} : \A y \in S \cup {v} : x >= y
           /\ Max(S) \in S
           /\ Max(S \cup {v}) = IF v > Max(S) THEN v ELSE Max(S)
<1> DEFINE T == S \cup {v}
<1>1. Max(S) \in S /\ \A y \in S : Max(S) >= y
  BY DEF Max
<1>2. \E x \in T : \A y \in T : x >= y
  <2>1. CASE v > Max(S)
    BY <1>1, <2>1
  <2>2. CASE ~(v > Max(S))
    BY <1>1, <2>2
  <2> QED  BY <2>1, <2>2
<1>3. Max(T) \in T /\ \A y \in T : Max(T) >= y
  BY <1>2 DEF Max
<1>4. Max(T) = IF v > Max(S) THEN v ELSE Max(S)
  <2>1. PICK old \in S : old = Max(S) /\ \A y \in S : old >= y
    BY <1>1
  <2>2. PICK new \in T : new = Max(T) /\ \A y \in T : new >= y
    BY <1>3
  <2>3. new = IF v > old THEN v ELSE old
    <3>1. new >= v /\ new >= old /\ (new = v \/ old >= new)
      BY <2>1, <2>2
    <3> QED  BY <3>1
  <2> QED  BY <2>1, <2>2, <2>3
<1> QED  BY <1>1, <1>2, <1>4

\* An id names one event: applying it adds one time.
LEMMA TimesOfOneMore ==
    ASSUME NEW ids, NEW m \in Everything
    PROVE  /\ Times(ids) \subseteq Int
           /\ Times(ids \cup {m.id}) = Times(ids) \cup {m.at}
<1>1. \A n \in Everything : n.id = m.id => n = m
  BY EventAssumption
<1>2. \A n \in Everything : n.at \in Nat
  BY EventAssumption
<1> QED  BY <1>1, <1>2 DEF Times, Never


-----------------------------------------------------------------------------
(* One transaction of the projection *)

\* What holds of the tables of the report between transactions.
TablesInv ==
    /\ rollup \in [Cells -> Int]
    /\ pending \in [Who -> Nat \cup {NoStart}]
    /\ \A cell \in Cells : cell[1] = "breaks" => rollup[cell] >= 0
    /\ \A a \in Who : pending[a] # NoStart => Begun(pending[a])
    /\ DurationsAreOfBreaks
    /\ NewestInv

\* The start of a break adds 1 to the breaks of its hour: from then on it has begun.
LEMMA BreakStartedRows ==
    ASSUME TablesInv, NEW m \in Everything, m.kind = "breakStarted",
           rollup' = Add(rollup, m.path, m.at, One("breaks"))
    PROVE  /\ rollup' \in [Cells -> Int]
           /\ \A cell \in Cells : cell[1] = "breaks" => rollup'[cell] >= rollup[cell]
           /\ \A cell \in Cells : cell[1] # "breaks" => rollup'[cell] = rollup[cell]
           /\ Begun(m.at)'
<1>1. rollup \in [Cells -> Int] /\ \A cell \in Cells : cell[1] = "breaks" => rollup[cell] >= 0
  BY DEF TablesInv
<1>2. DOMAIN One("breaks") = {"breaks"} /\ One("breaks")["breaks"] = 1
  BY DEF One
<1>3. /\ rollup' \in [Cells -> Int]
      /\ \A cell \in Cells :
            IF cell[1] = "breaks" /\ cell[2] = m.path /\ cell[3] = Bucket(m.at)
            THEN rollup'[cell] = rollup[cell] + 1
            ELSE rollup'[cell] = rollup[cell]
  <2> DEFINE delta == One("breaks")
  <2>1. \A x \in DOMAIN delta : delta[x] \in Int
    BY <1>2
  <2> HIDE DEF delta
  <2> QED  BY <1>1, <1>2, <2>1, AddCells DEF delta
<1>4. ASSUME NEW n \in Everything, n.kind \in BreakKinds
      PROVE  /\ <<"breaks", n.path, Bucket(m.at)>> \in Cells
             /\ rollup'[<<"breaks", n.path, Bucket(m.at)>>] > 0
  <2> DEFINE cell == <<"breaks", n.path, Bucket(m.at)>>
  <2>1. n.path = m.path
    BY <1>4, EventAssumption DEF BreakKinds
  <2>2. cell \in Cells
    BY <2>1, EventFacts DEF Columns
  <2>3. rollup'[cell] = rollup[cell] + 1
    BY <1>3, <2>1, <2>2
  <2> QED  BY <1>1, <2>2, <2>3
<1>5. Begun(m.at)'
  BY <1>4 DEF Begun
<1> QED  BY <1>1, <1>3, <1>5

\* A counted event changes a column that is none of the breaks'.
LEMMA CountedRows ==
    ASSUME TablesInv, NEW m \in Everything, m.kind \in Counted,
           rollup' = Add(rollup, m.path, m.at, One(m.kind))
    PROVE  /\ rollup' \in [Cells -> Int]
           /\ \A cell \in Cells :
                 cell[1] \in {"breaks", "breaksWithDuration"} => rollup'[cell] = rollup[cell]
<1> DEFINE delta == One(m.kind)
<1>1. DOMAIN delta = {m.kind} /\ \A x \in DOMAIN delta : delta[x] \in Int
  BY DEF One
<1>2. m.kind \notin {"breaks", "breaksWithDuration"}
  BY DEF Counted
<1>3. rollup \in [Cells -> Int] /\ rollup' = Add(rollup, m.path, m.at, delta)
  BY DEF TablesInv
<1> HIDE DEF delta
<1>4. rollup' \in [Cells -> Int]
  BY <1>1, <1>3, AddCells
<1>5. \A cell \in Cells : cell[1] \notin {m.kind} => rollup'[cell] = rollup[cell]
  BY <1>1, <1>3, AddCells
<1> QED  BY <1>2, <1>4, <1>5

\* The duration of a break goes to an hour that counts a break.
LEMMA BreakEndedRows ==
    ASSUME TablesInv, NEW m \in Everything, m.kind = "breakEnded",
           NEW began \in Nat, Begun(began),
           rollup' = Add(rollup, m.path, began, Break(m.at - began))
    PROVE  /\ rollup' \in [Cells -> Int]
           /\ \A cell \in Cells : cell[1] = "breaks" => rollup'[cell] = rollup[cell]
           /\ \A cell \in Cells :
                 cell[1] = "breaksWithDuration" /\ rollup'[cell] # rollup[cell] =>
                     rollup[<<"breaks", cell[2], cell[3]>>] > 0
<1> DEFINE delta == Break(m.at - began)
<1>1. m.at \in Nat
  BY EventFacts
<1>2. /\ DOMAIN delta = {"breakSeconds", "breaksWithDuration"}
      /\ \A x \in DOMAIN delta : delta[x] \in Int
  BY <1>1 DEF Break
<1>3. rollup \in [Cells -> Int] /\ rollup' = Add(rollup, m.path, began, delta)
  BY DEF TablesInv
<1> HIDE DEF delta
<1>4. rollup' \in [Cells -> Int]
  BY <1>2, <1>3, AddCells
<1>5. \A cell \in Cells :
         ~(cell[1] \in DOMAIN delta /\ cell[2] = m.path /\ cell[3] = Bucket(began)) =>
             rollup'[cell] = rollup[cell]
  BY <1>2, <1>3, AddCells
<1>6. rollup[<<"breaks", m.path, Bucket(began)>>] > 0
  BY DEF Begun, BreakKinds
<1> QED  BY <1>2, <1>4, <1>5, <1>6

\* Breaks that only grow stay begun.
LEMMA BegunStays ==
    ASSUME \A cell \in Cells : cell[1] = "breaks" => rollup'[cell] >= rollup[cell],
           \A cell \in Cells : rollup[cell] \in Int /\ rollup'[cell] \in Int,
           NEW t, Begun(t)
    PROVE  Begun(t)'
<1>1. ASSUME NEW m \in Everything, m.kind \in BreakKinds
      PROVE  /\ <<"breaks", m.path, Bucket(t)>> \in Cells
             /\ rollup'[<<"breaks", m.path, Bucket(t)>>] > 0
  <2> DEFINE cell == <<"breaks", m.path, Bucket(t)>>
  <2>1. cell \in Cells /\ rollup[cell] > 0
    BY <1>1 DEF Begun
  <2>2. rollup'[cell] >= rollup[cell] /\ rollup[cell] \in Int /\ rollup'[cell] \in Int
    BY <2>1
  <2> HIDE DEF cell
  <2>3. rollup'[cell] > 0
    BY <2>1, <2>2
  <2> QED  BY <2>1, <2>3 DEF cell
<1> QED  BY <1>1 DEF Begun

\* A transaction keeps the tables consistent, and takes back no break.
LEMMA ProjectKeepsTables ==
    ASSUME TablesInv, NEW m \in Everything, m.kind \notin {"poison", "ignored"},
           NEW began \in Nat \cup {NoStart}, began # NoStart => Begun(began),
           Project(m, began)
    PROVE  TablesInv' /\ \A t : Begun(t) => Begun(t)'
<1>1. CASE m.id \in processed
  BY <1>1 DEF Project, TablesInv, NewestInv, DurationsAreOfBreaks, Begun
<1>2. CASE m.id \notin processed
  <2>1. /\ processed' = processed \cup {m.id}
        /\ rollup' = RollupAfter(m, began)
        /\ pending' = PendingAfter(m, began)
    BY <1>2 DEF Project
  <2>2. /\ rollup \in [Cells -> Int]
        /\ pending \in [Who -> Nat \cup {NoStart}]
        /\ \A cell \in Cells : cell[1] = "breaks" => rollup[cell] >= 0
        /\ \A a \in Who : pending[a] # NoStart => Begun(pending[a])
        /\ DurationsAreOfBreaks
    BY DEF TablesInv
  <2>3. NewestInv'
    <3>1. \E x \in Times(processed) : \A y \in Times(processed) : x >= y
      BY DEF TablesInv, NewestInv
    <3>2. m.at \in Int
      BY EventFacts
    <3>3. \E x \in Times(processed) \cup {m.at} : \A y \in Times(processed) \cup {m.at} : x >= y
      <4>1. Times(processed) \subseteq Int
        BY TimesOfOneMore
      <4> HIDE DEF Times
      <4> QED  BY <3>1, <3>2, <4>1, NewestOfOneMore
    <3>4. Times(processed') = Times(processed) \cup {m.at}
      BY <2>1, TimesOfOneMore
    <3> QED  BY <3>3, <3>4 DEF NewestInv
  <2>4. ASSUME rollup' \in [Cells -> Int],
               \A cell \in Cells : cell[1] = "breaks" => rollup'[cell] >= rollup[cell],
               \A cell \in Cells : cell[1] = "breaksWithDuration" /\ rollup'[cell] # rollup[cell] =>
                   rollup[<<"breaks", cell[2], cell[3]>>] > 0
        PROVE  /\ \A cell \in Cells : cell[1] = "breaks" => rollup'[cell] >= 0
               /\ \A t : Begun(t) => Begun(t)'
               /\ DurationsAreOfBreaks'
    <3>1. \A cell \in Cells : rollup[cell] \in Int /\ rollup'[cell] \in Int
      BY <2>2, <2>4
    <3>2. \A cell \in Cells : cell[1] = "breaks" => rollup'[cell] >= 0
      BY <2>2, <2>4, <3>1
    <3>3. \A t : Begun(t) => Begun(t)'
      BY <2>4, <3>1, BegunStays
    <3>4. ASSUME NEW cell \in Cells, cell[1] = "breaksWithDuration", rollup'[cell] > 0
          PROVE  rollup'[<<"breaks", cell[2], cell[3]>>] > 0
      <4> DEFINE break == <<"breaks", cell[2], cell[3]>>
      <4>1. break \in Cells /\ break[1] = "breaks"
        BY <3>4 DEF Cells, Columns
      <4>2. rollup[break] > 0
        BY <2>2, <2>4, <3>4 DEF DurationsAreOfBreaks
      <4>3. rollup'[break] >= rollup[break] /\ rollup[break] \in Int /\ rollup'[break] \in Int
        BY <2>4, <3>1, <4>1
      <4> HIDE DEF break
      <4>4. rollup'[break] > 0
        BY <4>2, <4>3
      <4> QED  BY <4>4 DEF break
    <3>5. DurationsAreOfBreaks'
      BY <3>4 DEF DurationsAreOfBreaks
    <3> QED  BY <3>2, <3>3, <3>5
  <2>5. CASE m.kind \in Counted
    <3>1. rollup' = Add(rollup, m.path, m.at, One(m.kind)) /\ pending' = pending
      BY <2>1, <2>5 DEF RollupAfter, PendingAfter, Counted
    <3>2. /\ rollup' \in [Cells -> Int]
          /\ \A cell \in Cells :
                cell[1] \in {"breaks", "breaksWithDuration"} => rollup'[cell] = rollup[cell]
      BY <2>5, <3>1, CountedRows
    <3>3. \A cell \in Cells : cell[1] = "breaks" => rollup'[cell] >= rollup[cell]
      BY <2>2, <3>2
    <3>4. /\ \A cell \in Cells : cell[1] = "breaks" => rollup'[cell] >= 0
          /\ \A t : Begun(t) => Begun(t)'
          /\ DurationsAreOfBreaks'
      BY <2>4, <3>2, <3>3
    <3>5. pending' \in [Who -> Nat \cup {NoStart}]
      BY <2>2, <3>1
    <3>6. \A a \in Who : pending'[a] # NoStart => Begun(pending[a])' /\ pending'[a] = pending[a]
      <4> TAKE a \in Who
      <4>1. PICK t : t = pending[a]
        OBVIOUS
      <4>2. t # NoStart => Begun(t)'
        BY <2>2, <3>4, <4>1
      <4> QED  BY <3>1, <4>1, <4>2 DEF Begun
    <3> QED  BY <2>3, <3>2, <3>4, <3>5, <3>6 DEF TablesInv
  <2>6. CASE m.kind = "breakStarted"
    <3>1. /\ rollup' = Add(rollup, m.path, m.at, One("breaks"))
          /\ pending' = [pending EXCEPT ![m.who] = m.at]
      BY <2>1, <2>6 DEF RollupAfter, PendingAfter, Counted
    <3>2. /\ rollup' \in [Cells -> Int]
          /\ \A cell \in Cells : cell[1] = "breaks" => rollup'[cell] >= rollup[cell]
          /\ \A cell \in Cells : cell[1] # "breaks" => rollup'[cell] = rollup[cell]
          /\ Begun(m.at)'
      BY <2>6, <3>1, BreakStartedRows
    <3>3. /\ \A cell \in Cells : cell[1] = "breaks" => rollup'[cell] >= 0
          /\ \A t : Begun(t) => Begun(t)'
          /\ DurationsAreOfBreaks'
      BY <2>4, <3>2
    <3>4. pending' \in [Who -> Nat \cup {NoStart}]
      BY <2>2, <3>1, EventFacts
    <3>5. ASSUME NEW a \in Who, pending'[a] # NoStart
          PROVE  Begun(pending[a])'
      <4>1. PICK t : t = pending'[a]
        OBVIOUS
      <4>2. Begun(t)'
        <5>1. CASE a = m.who
          BY <2>2, <3>1, <3>2, <4>1, <5>1 DEF Begun
        <5>2. CASE a # m.who
          BY <2>2, <3>1, <3>3, <3>5, <4>1, <5>2
        <5> QED  BY <5>1, <5>2
      <4> QED  BY <4>1, <4>2 DEF Begun
    <3> QED  BY <2>3, <3>2, <3>3, <3>4, <3>5 DEF TablesInv
  <2>7. CASE m.kind = "breakEnded"
    <3>1. CASE began = NoStart
      <4>1. rollup' = rollup /\ pending' = pending
        BY <2>1, <2>7, <3>1 DEF RollupAfter, PendingAfter, Counted
      <4> QED  BY <2>2, <2>3, <4>1 DEF TablesInv, DurationsAreOfBreaks, Begun
    <3>2. CASE began # NoStart
      <4>1. /\ rollup' = Add(rollup, m.path, began, Break(m.at - began))
            /\ pending' = [pending EXCEPT ![m.who] = NoStart]
        BY <2>1, <2>7, <3>2 DEF RollupAfter, PendingAfter, DurationAt, Counted
      <4>2. began \in Nat /\ Begun(began)
        BY <3>2
      <4>3. /\ rollup' \in [Cells -> Int]
            /\ \A cell \in Cells : cell[1] = "breaks" => rollup'[cell] = rollup[cell]
            /\ \A cell \in Cells :
                  cell[1] = "breaksWithDuration" /\ rollup'[cell] # rollup[cell] =>
                      rollup[<<"breaks", cell[2], cell[3]>>] > 0
        BY <2>7, <4>1, <4>2, BreakEndedRows
      <4>4. \A cell \in Cells : cell[1] = "breaks" => rollup'[cell] >= rollup[cell]
        BY <2>2, <4>3
      <4>5. /\ \A cell \in Cells : cell[1] = "breaks" => rollup'[cell] >= 0
            /\ \A t : Begun(t) => Begun(t)'
            /\ DurationsAreOfBreaks'
        BY <2>4, <4>3, <4>4
      <4>6. pending' \in [Who -> Nat \cup {NoStart}]
        BY <2>2, <4>1
      <4>7. ASSUME NEW a \in Who, pending'[a] # NoStart
            PROVE  Begun(pending[a])'
        <5>1. PICK t : t = pending'[a]
          OBVIOUS
        <5>2. a # m.who /\ t = pending[a]
          BY <2>2, <4>1, <4>7, <5>1
        <5>3. Begun(t)'
          BY <2>2, <4>5, <4>7, <5>1, <5>2
        <5> QED  BY <5>1, <5>3 DEF Begun
      <4> QED  BY <2>3, <4>3, <4>5, <4>6, <4>7 DEF TablesInv
    <3> QED  BY <3>1, <3>2
  <2> QED  BY <2>5, <2>6, <2>7, EventFacts DEF Kinds, BreakKinds
<1> QED  BY <1>1, <1>2

-----------------------------------------------------------------------------
(* The inductive invariant *)

Stages == Holding \cup {"down", "fetch", "stopped"}

\* The invariant is that of the tables and that of the pods.
LEMMA TablesAndPods ==
    IInv <=> /\ TablesInv
             /\ ProjectorTypes
             /\ PodsInv
             /\ AloneInv
             /\ \A c \in Consumers : start[c] # NoStart => Begun(start[c])
  BY DEF IInv, TablesInv, ProjectorTypes, BreaksInv

\* The same of the next state.
LEMMA TablesAndPodsNext ==
    /\ TablesInv'
    /\ ProjectorTypes'
    /\ PodsInv'
    /\ AloneInv'
    /\ \A c \in Consumers : start'[c] # NoStart => Begun(start[c])'
    => IInv'
  BY DEF IInv, TablesInv, ProjectorTypes, BreaksInv

\* The message of a pod that holds one.
LEMMA HeldMessage ==
    ASSUME IInv, NEW c \in Consumers, pc[c] \in Holding
    PROVE  /\ pos[c] \in 1 .. Len(topic)
           /\ Msg(c) \in Everything
           /\ pc[c] \in Decoded => Msg(c).kind \notin {"poison", "ignored"}
<1>1. /\ topic \in Topics
      /\ pos[c] \in Nat
      /\ pos[c] > 0 /\ pos[c] <= Len(topic)
      /\ pc[c] \in Decoded => Msg(c).kind \notin {"poison", "ignored"}
  BY DEF IInv, ProjectorTypes, PodsInv, Holding, Decoded
<1>2. Len(topic) \in Nat
  BY <1>1, EventAssumption
<1>3. pos[c] \in 1 .. Len(topic)
  BY <1>1, <1>2
<1> QED  BY <1>1, <1>3, PositionsHoldEvents DEF Msg

\* A step of pod c takes it to a stage and a position, and leaves the others where
\* they are: what the invariant needs of that stage.
LEMMA StepKeepsPods ==
    ASSUME IInv,
           NEW c \in Consumers, c \in crew,
           NEW stage \in Stages, NEW place \in Nat, NEW read \in Nat \cup {NoStart},
           crew' = crew, topic' = topic, offset' \in Nat,
           pc' = [pc EXCEPT ![c] = stage],
           pos' = [pos EXCEPT ![c] = place],
           start' = [start EXCEPT ![c] = read],
           tries' \in [Consumers -> Nat],
           stage # "down" => place > 0,
           stage \in Holding => place <= Len(topic),
           stage \in Decoded => topic[place].kind \notin {"poison", "ignored"},
           stage = "pair" => /\ topic[place].kind = "breakEnded"
                             /\ topic[place].id \notin processed'
                             /\ read = pending'[topic[place].who],
           read # NoStart => Begun(read)',
           TablesInv',
           \A t : Begun(t) => Begun(t)'
    PROVE  IInv'
<1>1. /\ crew \in Crews /\ topic \in Topics
      /\ pos \in [Consumers -> Nat]
      /\ pc \in [Consumers -> Stages]
      /\ start \in [Consumers -> Nat \cup {NoStart}]
  BY DEF IInv, ProjectorTypes, Stages
<1>2. /\ pc'[c] = stage /\ pos'[c] = place /\ start'[c] = read
      /\ \A d \in Consumers \ {c} : pc'[d] = pc[d] /\ pos'[d] = pos[d] /\ start'[d] = start[d]
  BY <1>1
<1>3. ProjectorTypes'
  BY <1>1 DEF ProjectorTypes, Stages, TablesInv
<1>4. PodsInv'
  <2> SUFFICES ASSUME NEW d \in Consumers
               PROVE  /\ pc'[d] # "down" => d \in crew /\ pos'[d] > 0
                      /\ pc'[d] \in Holding => pos'[d] <= Len(topic)
                      /\ pc'[d] \in Decoded => topic[pos'[d]].kind \notin {"poison", "ignored"}
    BY DEF PodsInv, Msg
  <2>1. CASE d = c
    BY <1>2, <2>1
  <2>2. CASE d # c
    BY <1>2, <2>2 DEF IInv, PodsInv, Msg
  <2> QED  BY <2>1, <2>2
<1>5. AloneInv'
  <2> SUFFICES ASSUME NEW d \in Consumers, crew = {d}, pc'[d] = "pair"
               PROVE  /\ topic[pos'[d]].kind = "breakEnded"
                      /\ topic[pos'[d]].id \notin processed'
                      /\ start'[d] = pending'[topic[pos'[d]].who]
    BY DEF AloneInv, NeedsStart, Msg
  <2>1. d = c
    OBVIOUS
  <2> QED  BY <1>2, <2>1
<1>6. ASSUME NEW d \in Consumers, start'[d] # NoStart
      PROVE  Begun(start[d])'
  <2>1. PICK t : t = start'[d]
    OBVIOUS
  <2>2. Begun(t)'
    <3>1. CASE d = c
      BY <1>2, <1>6, <2>1, <3>1
    <3>2. CASE d # c
      BY <1>2, <1>6, <2>1, <3>2, TablesAndPods
    <3> QED  BY <3>1, <3>2
  <2> QED  BY <2>1, <2>2 DEF Begun
<1> QED  BY <1>3, <1>4, <1>5, <1>6, TablesAndPodsNext

\* Every behaviour begins with the invariant.
LEMMA InitInv == Init => IInv
<1> SUFFICES ASSUME Init PROVE IInv
  OBVIOUS
<1>1. ProjectorTypes
  BY DEF Init, ProjectorTypes, NoRows
<1>2. PodsInv /\ AloneInv
  BY DEF Init, PodsInv, AloneInv, Holding, Decoded
<1>3. NewestInv
  <2>1. Times(processed) = {Never}
    BY DEF Init, Times
  <2> QED  BY <2>1 DEF NewestInv, Never
<1>4. BreaksInv
  BY DEF Init, BreaksInv, NoRows, DurationsAreOfBreaks
<1> QED  BY <1>1, <1>2, <1>3, <1>4 DEF IInv

\* A step that leaves the tables alone keeps what holds of them.
LEMMA SameTables ==
    ASSUME TablesInv, UNCHANGED <<processed, rollup, pending>>
    PROVE  TablesInv' /\ \A t : Begun(t) => Begun(t)'
  BY DEF TablesInv, NewestInv, DurationsAreOfBreaks, Begun

\* A pod whose next stage is another one, at the position it has, and whose tables are
\* as they were or those of a transaction.
LEMMA GotoKeepsPods ==
    ASSUME IInv, NEW c \in Consumers, c \in crew, NEW stage \in Stages \ {"pair"},
           UNCHANGED <<crew, topic, offset, pos>>,
           pc' = [pc EXCEPT ![c] = stage],
           start' = [start EXCEPT ![c] = NoStart],
           tries' \in [Consumers -> Nat],
           pc[c] # "down" \/ stage = "down",
           stage \in Holding => pos[c] <= Len(topic),
           stage \in Decoded => Msg(c).kind \notin {"poison", "ignored"},
           TablesInv',
           \A t : Begun(t) => Begun(t)'
    PROVE  IInv'
<1>1. pos \in [Consumers -> Nat] /\ offset \in Nat /\ (pc[c] # "down" => pos[c] > 0)
  BY DEF IInv, ProjectorTypes, PodsInv
<1>2. pos' = [pos EXCEPT ![c] = pos[c]]
  BY <1>1
<1>3. topic[pos[c]] = Msg(c)
  BY DEF Msg
<1> QED  BY <1>1, <1>2, <1>3, StepKeepsPods

\* A pod that is to fetch the message at some position.
LEMMA FetchesFrom ==
    ASSUME IInv, NEW c \in Consumers, c \in crew, NEW place \in Nat, place > 0,
           UNCHANGED <<crew, topic>>, offset' \in Nat,
           pc' = [pc EXCEPT ![c] = "fetch"],
           pos' = [pos EXCEPT ![c] = place],
           start' = [start EXCEPT ![c] = NoStart],
           tries' \in [Consumers -> Nat],
           TablesInv',
           \A t : Begun(t) => Begun(t)'
    PROVE  IInv'
<1> DEFINE stage == "fetch"
<1>1. stage \in Stages /\ stage \notin Holding \cup Decoded \cup {"pair", "down"}
  BY DEF Stages, Holding, Decoded
<1>2. pc' = [pc EXCEPT ![c] = stage]
  OBVIOUS
<1>3. NoStart \in Nat \cup {NoStart}
  OBVIOUS
<1> HIDE DEF stage
<1> QED  BY <1>1, <1>2, <1>3, StepKeepsPods

\* The transaction of a pod is one Project of its message.
LEMMA ProjectsOnce ==
    ASSUME IInv, NEW c \in Consumers, Projects(c)
    PROVE  /\ Msg(c) \in Everything
           /\ Msg(c).kind \notin {"poison", "ignored"}
           /\ \E began \in Nat \cup {NoStart} :
                 /\ began # NoStart => Begun(began)
                 /\ Project(Msg(c), began)
<1>1. pc[c] \in Decoded
  BY DEF Projects, Decoded
<1>2. start[c] \in Nat \cup {NoStart} /\ (start[c] # NoStart => Begun(start[c]))
  BY TablesAndPods DEF ProjectorTypes
<1>3. Project(Msg(c), NoStart) \/ Project(Msg(c), start[c])
  BY DEF Projects
<1> QED  BY <1>1, <1>2, <1>3, HeldMessage DEF Holding

\* Every step keeps the invariant.
LEMMA NextInv == IInv /\ [Next]_vars => IInv'
<1> SUFFICES ASSUME IInv, [Next]_vars PROVE IInv'
  OBVIOUS
<1>0. /\ ProjectorTypes /\ TablesInv
      /\ \A c \in Consumers : pc[c] # "down" => c \in crew /\ pos[c] > 0
  BY TablesAndPods DEF PodsInv
<1>1. ASSUME UNCHANGED vars PROVE IInv'
  BY <1>1 DEF vars, IInv, ProjectorTypes, PodsInv, AloneInv, NewestInv, BreaksInv, Begun,
     DurationsAreOfBreaks, Msg, NeedsStart
<1>2. ASSUME NEW c \in Consumers, Work(c) \/ Fails(c) PROVE IInv'
  <2>1. ASSUME NEW stage, Goto(c, stage)
        PROVE  /\ pc' = [pc EXCEPT ![c] = stage]
               /\ start' = [start EXCEPT ![c] = NoStart]
               /\ tries' \in [Consumers -> Nat]
    BY <1>0, <2>1 DEF Goto, ProjectorTypes
  <2>2. ASSUME UNCHANGED <<processed, rollup, pending>>
        PROVE  TablesInv' /\ \A t : Begun(t) => Begun(t)'
    BY <1>0, <2>2, SameTables
  <2>3. ASSUME Projects(c)
        PROVE  TablesInv' /\ \A t : Begun(t) => Begun(t)'
    BY <1>0, <2>3, ProjectsOnce, ProjectKeepsTables
  <2>4. ASSUME pc[c] \in Decoded
        PROVE  pos[c] <= Len(topic) /\ Msg(c).kind \notin {"poison", "ignored"} /\ c \in crew
    BY <1>0, <2>4 DEF IInv, PodsInv, Holding, Decoded
  <2>5. ASSUME NEW stage \in Decoded \ {"pair"}, Retry(c, stage)
        PROVE  /\ start' = [start EXCEPT ![c] = NoStart]
               /\ tries' \in [Consumers -> Nat]
               /\ \E next \in {stage, "deadletter"} : pc' = [pc EXCEPT ![c] = next]
    BY <1>0, <2>5 DEF Retry, Goto, ProjectorTypes
  <2>6. CASE Join(c)
    <3>1. /\ c \in crew
          /\ pos' = [pos EXCEPT ![c] = offset + 1]
          /\ Goto(c, "fetch")
          /\ UNCHANGED <<crew, topic, offset, processed, rollup, pending>>
      BY <2>6 DEF Join, log, store
    <3>2. PICK place \in Nat : place = offset + 1 /\ place > 0
      BY <1>0 DEF ProjectorTypes
    <3>3. offset' \in Nat /\ pos' = [pos EXCEPT ![c] = place]
      BY <1>0, <3>1, <3>2 DEF ProjectorTypes
    <3>4. TablesInv' /\ \A t : Begun(t) => Begun(t)'
      BY <2>2, <3>1
    <3> QED  BY <2>1, <3>1, <3>2, <3>3, <3>4, FetchesFrom
  <2>7. CASE Fetch(c)
    <3> DEFINE stage == CASE Msg(c).kind = "poison"  -> "deadletter"
                          [] Msg(c).kind = "ignored" -> "commit"
                          [] OTHER                   -> "mark"
    <3>1. /\ pc[c] = "fetch" /\ pos[c] <= Len(topic)
          /\ Goto(c, stage)
          /\ UNCHANGED <<crew, topic, offset, pos, processed, rollup, pending>>
      BY <2>7 DEF Fetch, log, store
    <3>2. /\ stage \in Stages \ {"pair"}
          /\ stage \in Decoded => Msg(c).kind \notin {"poison", "ignored"}
      BY DEF Stages, Holding, Decoded
    <3> HIDE DEF stage
    <3> QED  BY <1>0, <2>1, <2>2, <3>1, <3>2, GotoKeepsPods
  <2>8. CASE MarkProcessed(c)
    <3> DEFINE stage == IF Msg(c).id \in consumed THEN "commit" ELSE "apply"
    <3>1. /\ pc[c] = "mark"
          /\ Goto(c, stage)
          /\ UNCHANGED <<crew, topic, offset, pos, processed, rollup, pending>>
      BY <2>8 DEF MarkProcessed, log
    <3>2. stage \in Stages \ {"pair"}
      BY DEF Stages, Holding, Decoded
    <3> HIDE DEF stage
    <3> QED  BY <2>1, <2>2, <2>4, <3>1, <3>2, GotoKeepsPods DEF Decoded
  <2>9. CASE MarkFails(c)
    <3>1. /\ pc[c] = "mark"
          /\ Retry(c, "mark")
          /\ UNCHANGED <<crew, topic, offset, pos, processed, rollup, pending>>
      BY <2>9 DEF MarkFails, log
    <3>2. {"mark", "deadletter"} \subseteq Stages \ {"pair"}
      BY DEF Stages, Holding, Decoded
    <3> QED  BY <2>2, <2>4, <2>5, <3>1, <3>2, GotoKeepsPods DEF Decoded
  <2>10. CASE ReadStart(c)
    <3>1. /\ pc[c] = "apply"
          /\ Msg(c).kind = "breakEnded" /\ Msg(c).id \notin processed
          /\ pc' = [pc EXCEPT ![c] = "pair"]
          /\ start' = [start EXCEPT ![c] = pending[Msg(c).who]]
          /\ UNCHANGED <<crew, topic, offset, pos, tries, processed, rollup, pending>>
      BY <2>10 DEF ReadStart, NeedsStart, log, store
    <3>2. /\ pos[c] <= Len(topic) /\ Msg(c).kind \notin {"poison", "ignored"} /\ c \in crew
          /\ Msg(c) = topic[pos[c]] /\ Msg(c) \in Everything
      BY <2>4, <3>1, HeldMessage DEF Msg, Decoded, Holding
    <3>3. Msg(c).who \in Who
      BY <3>2, EventFacts
    <3>4. PICK read : read = pending[Msg(c).who]
      OBVIOUS
    <3>5. read \in Nat \cup {NoStart} /\ (read # NoStart => Begun(read)')
      BY <1>0, <2>2, <3>1, <3>3, <3>4 DEF TablesInv
    <3>6. /\ pos \in [Consumers -> Nat] /\ tries' \in [Consumers -> Nat] /\ offset' \in Nat
          /\ pos' = [pos EXCEPT ![c] = pos[c]]
          /\ pos[c] > 0
      BY <1>0, <3>1, <3>2 DEF ProjectorTypes
    <3>7. "pair" \in Stages
      BY DEF Stages, Holding, Decoded
    <3>8. /\ topic[pos[c]].kind \notin {"poison", "ignored"}
          /\ topic[pos[c]].kind = "breakEnded"
          /\ topic[pos[c]].id \notin processed'
          /\ read = pending'[topic[pos[c]].who]
          /\ start' = [start EXCEPT ![c] = read]
      BY <3>1, <3>2, <3>4
    <3>9. PICK place \in Nat : place = pos[c]
      BY <3>6
    <3>10. TablesInv' /\ \A t : Begun(t) => Begun(t)'
      BY <2>2, <3>1
    <3>11. PICK stage \in Stages : stage = "pair"
      BY <3>7
    <3>12. /\ crew' = crew /\ topic' = topic /\ c \in crew
           /\ pc' = [pc EXCEPT ![c] = stage]
           /\ pos' = [pos EXCEPT ![c] = place]
           /\ place > 0 /\ place <= Len(topic)
      BY <3>1, <3>2, <3>6, <3>9, <3>11
    <3>13. /\ topic[place].kind \notin {"poison", "ignored"}
           /\ topic[place].kind = "breakEnded"
           /\ topic[place].id \notin processed'
           /\ read = pending'[topic[place].who]
      BY <3>8, <3>9
    <3> QED  BY <3>5, <3>6, <3>8, <3>10, <3>12, <3>13, StepKeepsPods
  <2>11. CASE Apply(c)
    <3>1. /\ pc[c] \in {"apply", "pair"}
          /\ Projects(c)
          /\ Goto(c, "commit")
          /\ UNCHANGED <<crew, topic, offset, pos>>
      BY <2>11 DEF Apply, Projects, log
    <3>2. "commit" \in Stages \ {"pair"} /\ "commit" \notin Decoded
      BY DEF Stages, Holding, Decoded
    <3> QED  BY <2>1, <2>3, <2>4, <3>1, <3>2, GotoKeepsPods DEF Decoded
  <2>12. CASE ApplyFails(c)
    <3>1. /\ pc[c] \in {"apply", "pair"}
          /\ Projects(c) \/ UNCHANGED <<processed, rollup, pending>>
          /\ Retry(c, "apply")
          /\ UNCHANGED <<crew, topic, offset, pos>>
      BY <2>12 DEF ApplyFails, log
    <3>2. {"apply", "deadletter"} \subseteq Stages \ {"pair"}
      BY DEF Stages, Holding, Decoded
    <3>3. TablesInv' /\ \A t : Begun(t) => Begun(t)'
      BY <2>2, <2>3, <3>1
    <3> QED  BY <2>4, <2>5, <3>1, <3>2, <3>3, GotoKeepsPods DEF Decoded
  <2>13. CASE DeadLetter(c)
    <3>1. /\ pc[c] = "deadletter"
          /\ Goto(c, "commit")
          /\ UNCHANGED <<crew, topic, offset, pos, processed, rollup, pending>>
      BY <2>13 DEF DeadLetter, store
    <3>2. "commit" \in Stages \ {"pair"} /\ "commit" \notin Decoded
      BY DEF Stages, Holding, Decoded
    <3>3. pos[c] <= Len(topic)
      BY <3>1 DEF IInv, PodsInv, Holding
    <3> QED  BY <1>0, <2>1, <2>2, <3>1, <3>2, <3>3, GotoKeepsPods
  <2>14. CASE Commit(c)
    <3>1. /\ pc[c] = "commit"
          /\ offset' = pos[c]
          /\ pos' = [pos EXCEPT ![c] = @ + 1]
          /\ Goto(c, "fetch")
          /\ UNCHANGED <<crew, topic, processed, rollup, pending>>
      BY <2>14 DEF Commit, store
    <3>2. PICK place \in Nat : place = pos[c] + 1 /\ place > 0
      BY <1>0 DEF ProjectorTypes
    <3>3. c \in crew /\ offset' \in Nat /\ pos' = [pos EXCEPT ![c] = place]
      BY <1>0, <3>1, <3>2 DEF ProjectorTypes
    <3>4. TablesInv' /\ \A t : Begun(t) => Begun(t)'
      BY <2>2, <3>1
    <3> QED  BY <2>1, <3>1, <3>2, <3>3, <3>4, FetchesFrom
  <2>15. CASE LoopEnds(c) \/ Crash(c)
    <3>1. /\ pc[c] # "down"
          /\ \E stage \in {"stopped", "down"} : Goto(c, stage)
          /\ UNCHANGED <<crew, topic, offset, pos, processed, rollup, pending>>
      BY <2>15 DEF LoopEnds, Crash, log, store
    <3> QED  BY <1>0, <2>1, <2>2, <3>1, GotoKeepsPods DEF Stages, Holding, Decoded
  <2> QED  BY <1>2, <2>6, <2>7, <2>8, <2>9, <2>10, <2>11, <2>12, <2>13, <2>14, <2>15
           DEF Work, Fails
<1> QED  BY <1>1, <1>2 DEF Next

\* The inductive invariant holds in every state, for all partitions, crews and bounds.
THEOREM Invariance == Spec => []IInv
  BY InitInv, NextInv, PTL DEF Spec

\* (analytics_pending_breaks) However pods overlap and starts are overwritten, the
\* report has durations only in an hour in which it counts a break.
THEOREM DurationsNeedBreaks == Spec => []DurationsAreOfBreaks
<1>1. IInv => DurationsAreOfBreaks
  BY DEF IInv, BreaksInv
<1> QED  BY <1>1, Invariance, PTL

-----------------------------------------------------------------------------
(* Reports *)

Rows == PathIds \X Hours

LEMMA RowsAreFinite ==
    /\ IsFiniteSet(Rows)
    /\ IsFiniteSet(Hours)
    /\ Hours \subseteq Nat
<1>1. IsFiniteSet(Everything) /\ \A m \in Everything : m.at \in Nat
  BY EventAssumption
<1>2. IsFiniteSet(PathIds)
  <2> DEFINE f == [m \in Everything |-> m.path]
  <2>1. f \in Surjection(Everything, PathIds)
    BY DEF Surjection, PathIds
  <2> QED  BY <1>1, <2>1, FS_Surjection
<1>3. IsFiniteSet(Hours)
  <2> DEFINE f == [m \in Everything |-> Bucket(m.at)]
  <2>1. f \in Surjection(Everything, Hours)
    BY DEF Surjection, Hours
  <2> QED  BY <1>1, <2>1, FS_Surjection
<1>4. \A at \in Nat : Bucket(at) \in Nat
  BY ReportAssumption DEF Bucket
<1> QED  BY <1>1, <1>2, <1>3, <1>4, FS_Product DEF Rows, Hours

LEMMA TotalInt ==
    ASSUME NEW table \in [Cells -> Int], NEW column \in Columns, NEW from, NEW to, NEW filter
    PROVE  Total(table, column, from, to, filter) \in Int
<1> DEFINE f == [r \in Rows |-> table[<<column, r[1], r[2]>>]]
           W == {r \in Rows : Selected(r[1], r[2], from, to, filter)}
<1>1. Total(table, column, from, to, filter) = SumFunctionOnSet(f, W)
  BY DEF Total, Rows
<1>2. IsFiniteSet(W)
  BY RowsAreFinite, FS_Subset
<1>3. \A r \in W : f[r] \in Int
  BY DEF Rows, Cells
<1> HIDE DEF f, W
<1> QED  BY <1>1, <1>2, <1>3, SumInt

\* What an increment adds to a column of a report: its share of the row of its path and
\* hour, when the report selects that row.
LEMMA TotalAfterAdd ==
    ASSUME NEW table \in [Cells -> Int], NEW column \in Columns,
           NEW path \in PathIds, NEW at, NEW delta, \A x \in DOMAIN delta : delta[x] \in Int,
           NEW from, NEW to, NEW filter
    PROVE  /\ Total(table, column, from, to, filter) \in Int
           /\ Total(Add(table, path, at, delta), column, from, to, filter)
              = Total(table, column, from, to, filter)
                + IF /\ column \in DOMAIN delta /\ Bucket(at) \in Hours
                     /\ Selected(path, Bucket(at), from, to, filter)
                  THEN delta[column] ELSE 0
<1> DEFINE new == Add(table, path, at, delta)
           f == [r \in Rows |-> table[<<column, r[1], r[2]>>]]
           g == [r \in Rows |-> new[<<column, r[1], r[2]>>]]
           W == {r \in Rows : Selected(r[1], r[2], from, to, filter)}
           x == <<path, Bucket(at)>>
           grows == /\ column \in DOMAIN delta /\ Bucket(at) \in Hours
                    /\ Selected(path, Bucket(at), from, to, filter)
<1>1. /\ Total(table, column, from, to, filter) = SumFunctionOnSet(f, W)
      /\ Total(new, column, from, to, filter) = SumFunctionOnSet(g, W)
  BY DEF Total, Rows
<1>2. IsFiniteSet(W) /\ W \subseteq Rows
  BY RowsAreFinite, FS_Subset
<1>3. \A r \in Rows : <<column, r[1], r[2]>> \in Cells
  BY DEF Rows, Cells
<1>4. /\ new \in [Cells -> Int]
      /\ \A cell \in Cells :
            IF cell[1] \in DOMAIN delta /\ cell[2] = path /\ cell[3] = Bucket(at)
            THEN new[cell] = table[cell] + delta[cell[1]]
            ELSE new[cell] = table[cell]
  BY AddCells
<1> HIDE DEF new
<1>5. \A r \in Rows : f[r] \in Int /\ g[r] \in Int
  BY <1>3, <1>4
<1>6. \A r \in Rows :
          g[r] = IF column \in DOMAIN delta /\ r = x THEN f[r] + delta[column] ELSE f[r]
  <2> TAKE r \in Rows
  <2>1. r = <<r[1], r[2]>>
    BY DEF Rows
  <2>2. PICK cell \in Cells : cell = <<column, r[1], r[2]>>
    BY <1>3
  <2>3. cell[1] = column /\ cell[2] = r[1] /\ cell[3] = r[2]
    BY <2>2
  <2>4. f[r] = table[cell] /\ g[r] = new[cell]
    BY <2>2
  <2>5. (r[1] = path /\ r[2] = Bucket(at)) <=> r = x
    BY <2>1
  <2> HIDE DEF f, g, x
  <2> QED  BY <1>4, <2>3, <2>4, <2>5
<1>7. x \in Rows <=> Bucket(at) \in Hours
  BY DEF Rows
<1>8. x \in W <=> Bucket(at) \in Hours /\ Selected(path, Bucket(at), from, to, filter)
  BY <1>7
<1>9. SumFunctionOnSet(f, W) \in Int
  <2> HIDE DEF f, W
  <2> QED  BY <1>2, <1>5, SumInt
<1>10. CASE grows
  <2>1. x \in W /\ g[x] = f[x] + delta[column] /\ delta[column] \in Int /\ f[x] \in Int
    BY <1>2, <1>5, <1>6, <1>8, <1>10
  <2>2. \A r \in W \ {x} : f[r] = g[r]
    BY <1>2, <1>6
  <2>3. \A r \in W : f[r] \in Int /\ g[r] \in Int
    BY <1>2, <1>5
  <2>4. IsFiniteSet(W) /\ x \in W
    BY <1>2, <2>1
  <2> HIDE DEF f, g, W, x
  <2>5. SumFunctionOnSet(g, W) = SumFunctionOnSet(f, W) + (g[x] - f[x])
    BY <2>2, <2>3, <2>4, SumChange
  <2> QED  BY <1>1, <1>9, <1>10, <2>1, <2>5 DEF new
<1>11. CASE ~ grows
  <2>1. \A r \in W : f[r] = g[r] /\ f[r] \in Int
    BY <1>2, <1>5, <1>6, <1>8, <1>11
  <2> HIDE DEF f, g, W
  <2>2. SumFunctionOnSet(f, W) = SumFunctionOnSet(g, W)
    BY <1>2, <2>1, SumSame
  <2> QED  BY <1>1, <1>9, <1>11, <2>2 DEF new
<1> QED  BY <1>10, <1>11

\* The table of a new database adds up to nothing.
LEMMA NewTotals ==
    ASSUME NEW column \in Columns, NEW from, NEW to, NEW filter
    PROVE  Total(NoRows, column, from, to, filter) = 0
<1> DEFINE f == [r \in Rows |-> NoRows[<<column, r[1], r[2]>>]]
           W == {r \in Rows : Selected(r[1], r[2], from, to, filter)}
<1>1. Total(NoRows, column, from, to, filter) = SumFunctionOnSet(f, W)
  BY DEF Total, Rows
<1>2. IsFiniteSet(W)
  BY RowsAreFinite, FS_Subset
<1>3. \A r \in W : f[r] = 0
  BY DEF Rows, Cells, NoRows
<1> HIDE DEF f, W
<1> QED  BY <1>1, <1>2, <1>3, SumZero

\* Wherever two adjoining reports meet, one of them selects the hour of an event, and
\* only one.
LEMMA CutsDivideTheHours ==
    ASSUME NEW m \in Everything, NEW cut \in Cuts, NEW path, NEW filter
    PROVE  /\ Selected(path, Bucket(m.at), 0, cut, filter)
              <=> AsksFor(filter, path) /\ Bucket(m.at) * HourLength < cut
           /\ Selected(path, Bucket(m.at), cut, Horizon, filter)
              <=> AsksFor(filter, path) /\ ~(Bucket(m.at) * HourLength < cut)
<1>1. PICK hour \in Hours : hour = Bucket(m.at)
  BY DEF Hours
<1>2. PICK last \in Hours : last = Max(Hours) /\ last >= hour
  <2>1. Hours \subseteq Int /\ Hours # {}
    BY <1>1, RowsAreFinite
  <2>2. \E x \in Hours : \A y \in Hours : x >= y
    BY <2>1, RowsAreFinite, GreatestExists
  <2> QED  BY <2>2 DEF Max
<1>3. hour \in Nat /\ last \in Nat /\ HourLength \in Nat
  BY RowsAreFinite, ReportAssumption
<1>4. PICK begin \in Nat : begin = hour * HourLength
  BY <1>3
<1>5. PICK end \in Nat : end = last * HourLength /\ begin <= end
  <2>1. (last - hour) * HourLength >= 0
    BY <1>2, <1>3
  <2>2. last * HourLength = hour * HourLength + (last - hour) * HourLength
    BY <1>3
  <2> QED  BY <1>3, <1>4, <2>1, <2>2
<1>6. Horizon = end + 1
  BY <1>2, <1>5 DEF Horizon
<1>7. cut \in Int
  BY RowsAreFinite, ReportAssumption DEF Cuts
<1>8. begin < Horizon /\ begin >= 0 /\ (begin >= cut <=> ~(begin < cut))
  BY <1>5, <1>6, <1>7
<1>9. Bucket(m.at) * HourLength = begin
  BY <1>1, <1>4
<1>10. /\ Selected(path, Bucket(m.at), 0, cut, filter)
          <=> /\ Bucket(m.at) * HourLength >= 0 /\ Bucket(m.at) * HourLength < cut
              /\ AsksFor(filter, path)
       /\ Selected(path, Bucket(m.at), cut, Horizon, filter)
          <=> /\ Bucket(m.at) * HourLength >= cut /\ Bucket(m.at) * HourLength < Horizon
              /\ AsksFor(filter, path)
  BY Zenon DEF Selected
<1>11. /\ Bucket(m.at) * HourLength >= 0 /\ Bucket(m.at) * HourLength < Horizon
       /\ Bucket(m.at) * HourLength >= cut <=> ~(Bucket(m.at) * HourLength < cut)
  BY <1>8, <1>9
<1> QED  BY <1>10, <1>11, Zenon

\* Two adjoining reports together gain by an event what is added to the column in its hour,
\* wherever they meet, if they are asked for its path.
LEMMA AdjoiningTotals ==
    ASSUME NEW table \in [Cells -> Int], NEW column \in Columns, NEW m \in Everything,
           NEW delta, \A x \in DOMAIN delta : delta[x] \in Int,
           NEW cut \in Cuts, NEW filter
    PROVE  LET new == Add(table, m.path, m.at, delta)
               both(rows) == Total(rows, column, 0, cut, filter)
                                 + Total(rows, column, cut, Horizon, filter)
           IN  /\ both(table) \in Int
               /\ both(new) = both(table) + IF column \in DOMAIN delta /\ AsksFor(filter, m.path)
                                            THEN delta[column] ELSE 0
<1> DEFINE new == Add(table, m.path, m.at, delta)
           first == Selected(m.path, Bucket(m.at), 0, cut, filter)
           second == Selected(m.path, Bucket(m.at), cut, Horizon, filter)
           gain1 == IF column \in DOMAIN delta /\ Bucket(m.at) \in Hours /\ first
                    THEN delta[column] ELSE 0
           gain2 == IF column \in DOMAIN delta /\ Bucket(m.at) \in Hours /\ second
                    THEN delta[column] ELSE 0
<1>1. m.path \in PathIds /\ Bucket(m.at) \in Hours
  BY EventFacts DEF Hours
<1>2. PICK t1 \in Int : /\ t1 = Total(table, column, 0, cut, filter)
                        /\ Total(new, column, 0, cut, filter) = t1 + gain1
  BY <1>1, TotalAfterAdd
<1>3. PICK t2 \in Int : /\ t2 = Total(table, column, cut, Horizon, filter)
                        /\ Total(new, column, cut, Horizon, filter) = t2 + gain2
  BY <1>1, TotalAfterAdd
<1>4. /\ first <=> AsksFor(filter, m.path) /\ Bucket(m.at) * HourLength < cut
      /\ second <=> AsksFor(filter, m.path) /\ ~(Bucket(m.at) * HourLength < cut)
  BY CutsDivideTheHours
<1> HIDE DEF new, first, second
<1>5. CASE column \in DOMAIN delta /\ AsksFor(filter, m.path)
  <2>1. delta[column] \in Int
    BY <1>5
  <2>2. \/ gain1 = delta[column] /\ gain2 = 0
        \/ gain1 = 0 /\ gain2 = delta[column]
    BY <1>1, <1>4, <1>5
  <2> QED  BY <1>2, <1>3, <1>5, <2>1, <2>2 DEF new
<1>6. CASE ~(column \in DOMAIN delta /\ AsksFor(filter, m.path))
  <2>1. gain1 = 0 /\ gain2 = 0
    BY <1>4, <1>6
  <2> QED  BY <1>2, <1>3, <1>6, <2>1 DEF new
<1> QED  BY <1>5, <1>6

\* A new event is one more of its kind, for its path and for all paths.
LEMMA RecordedAfter ==
    ASSUME topic \in Topics, topic' = topic,
           NEW m \in Messages(topic), m.id \notin processed, processed' = processed \cup {m.id},
           NEW kind, NEW filter
    PROVE  /\ Cardinality(Recorded(kind, filter)) \in Nat
           /\ Cardinality(Recorded(kind, filter))'
              = Cardinality(Recorded(kind, filter))
                    + IF m.kind = kind /\ AsksFor(filter, m.path) THEN 1 ELSE 0
<1> DEFINE old == Recorded(kind, filter)
           new == {n.id : n \in {e \in Messages(topic) :
                       e.id \in processed' /\ e.kind = kind /\ AsksFor(filter, e.path)}}
<1>1. Messages(topic) \subseteq Everything
  BY DEF Everything
<1>2. \A n \in Messages(topic) : n.id = m.id => n = m
  BY <1>1, EventAssumption
<1>3. IsFiniteSet(old)
  <2> DEFINE S == {e \in Messages(topic) :
                       e.id \in processed /\ e.kind = kind /\ AsksFor(filter, e.path)}
             f == [n \in S |-> n.id]
  <2>1. IsFiniteSet(S)
    BY <1>1, EventAssumption, FS_Subset
  <2>2. f \in Surjection(S, old)
    BY DEF Surjection, Recorded
  <2> QED  BY <2>1, <2>2, FS_Surjection
<1>4. m.id \notin old
  BY DEF Recorded
<1>5. new = old \cup (IF m.kind = kind /\ AsksFor(filter, m.path) THEN {m.id} ELSE {})
  <2>1. CASE m.kind = kind /\ AsksFor(filter, m.path)
    BY <1>2, <2>1 DEF Recorded
  <2>2. CASE ~(m.kind = kind /\ AsksFor(filter, m.path))
    BY <1>2, <2>2 DEF Recorded
  <2> QED  BY <2>1, <2>2
<1>6. Recorded(kind, filter)' = new
  BY DEF Recorded
<1> HIDE DEF old, new
<1>7. CASE m.kind = kind /\ AsksFor(filter, m.path)
  <2>1. Cardinality(old \cup {m.id}) = Cardinality(old) + 1 /\ Cardinality(old) \in Nat
    BY <1>3, <1>4, FS_AddElement, FS_CardinalityType
  <2> QED  BY <1>5, <1>6, <1>7, <2>1 DEF old
<1>8. CASE ~(m.kind = kind /\ AsksFor(filter, m.path))
  <2>1. Cardinality(old) \in Nat /\ new = old
    BY <1>3, <1>5, <1>8, FS_CardinalityType
  <2> QED  BY <1>6, <1>8, <2>1 DEF old
<1> QED  BY <1>7, <1>8

\* The columns of the counted events and of the breaks are told apart by the kind.
LEMMA ColumnsOfKinds ==
    ASSUME NEW kind \in Counted \cup {"breakStarted"}
    PROVE  /\ ColumnOf(kind) \in Columns \ {"breakSeconds", "breaksWithDuration"}
           /\ \A other \in Counted \cup {"breakStarted"} :
                  ColumnOf(other) = ColumnOf(kind) => other = kind
  BY DEF ColumnOf, Columns, Counted

\* What an event of these kinds adds to the report: 1 to its column, at its own time.
LEMMA CountedOnce ==
    ASSUME NEW m \in Everything, m.kind \in Counted \cup {"breakStarted"}, NEW began
    PROVE  RollupAfter(m, began) = Add(rollup, m.path, m.at, One(ColumnOf(m.kind)))
<1>1. CASE m.kind \in Counted
  BY <1>1 DEF RollupAfter, ColumnOf, Counted
<1>2. CASE m.kind = "breakStarted"
  BY <1>2 DEF RollupAfter, ColumnOf, Counted
<1> QED  BY <1>1, <1>2

\* Whatever event is projected, the reports of a kind count it exactly if it is of that
\* kind.
LEMMA KindsCountOnce ==
    ASSUME ProjectorTypes, topic' = topic,
           NEW m \in Messages(topic), m.kind \notin {"poison", "ignored"}, m.id \notin processed,
           processed' = processed \cup {m.id},
           NEW began \in Nat \cup {NoStart}, rollup' = RollupAfter(m, began),
           NEW kind \in Counted \cup {"breakStarted"}, NEW cut \in Cuts, NEW filter,
           Total(rollup, ColumnOf(kind), 0, cut, filter)
              + Total(rollup, ColumnOf(kind), cut, Horizon, filter)
           = Cardinality(Recorded(kind, filter))
    PROVE  Total(rollup', ColumnOf(kind), 0, cut, filter)
              + Total(rollup', ColumnOf(kind), cut, Horizon, filter)
           = Cardinality(Recorded(kind, filter))'
<1> DEFINE column == ColumnOf(kind)
           both(rows) == Total(rows, column, 0, cut, filter)
                             + Total(rows, column, cut, Horizon, filter)
           one == IF m.kind = kind /\ AsksFor(filter, m.path) THEN 1 ELSE 0
<1>1. m \in Everything /\ topic \in Topics /\ rollup \in [Cells -> Int]
  BY DEF Everything, ProjectorTypes
<1>2. column \in Columns \ {"breakSeconds", "breaksWithDuration"}
  BY ColumnsOfKinds
<1>3. PICK n \in Nat : /\ n = Cardinality(Recorded(kind, filter))
                       /\ Cardinality(Recorded(kind, filter))' = n + one
  BY <1>1, RecordedAfter
<1>4. both(rollup') = both(rollup) + one
  <2>1. CASE m.kind \in Counted \cup {"breakStarted"}
    <3> DEFINE delta == One(ColumnOf(m.kind))
    <3>1. rollup' = Add(rollup, m.path, m.at, delta)
      BY <1>1, <2>1, CountedOnce
    <3>2. DOMAIN delta = {ColumnOf(m.kind)} /\ \A x \in DOMAIN delta : delta[x] = 1
      BY DEF One
    <3> HIDE DEF delta
    <3>3. /\ both(rollup) \in Int
          /\ both(rollup') = both(rollup) + IF column \in DOMAIN delta /\ AsksFor(filter, m.path)
                                            THEN delta[column] ELSE 0
      <4>1. \A x \in DOMAIN delta : delta[x] \in Int
        BY <3>2
      <4> HIDE DEF column
      <4> QED  BY <1>1, <1>2, <3>1, <4>1, AdjoiningTotals
    <3>4. column \in DOMAIN delta <=> m.kind = kind
      BY <2>1, <3>2, ColumnsOfKinds
    <3> HIDE DEF both, column
    <3> QED  BY <3>2, <3>3, <3>4
  <2>2. CASE m.kind = "breakEnded"
    <3>1. one = 0
      BY <2>2 DEF Counted
    <3>2. CASE began = NoStart
      <4>1. rollup' = rollup
        BY <2>2, <3>2 DEF RollupAfter, Counted
      <4>2. both(rollup) = n
        BY <1>3
      <4> HIDE DEF both
      <4> QED  BY <3>1, <4>1, <4>2
    <3>3. CASE began # NoStart
      <4> DEFINE delta == Break(m.at - began)
      <4>1. rollup' = Add(rollup, m.path, began, delta)
        BY <2>2, <3>3 DEF RollupAfter, DurationAt, Counted
      <4>2. /\ DOMAIN delta = {"breakSeconds", "breaksWithDuration"}
            /\ \A x \in DOMAIN delta : delta[x] \in Int
        BY <1>1, <3>3, EventFacts DEF Break
      <4>3. column \notin DOMAIN delta /\ m.path \in PathIds
        BY <1>1, <1>2, <4>2, EventFacts
      <4> HIDE DEF delta
      <4>4. ASSUME NEW from, NEW to
            PROVE  Total(rollup', column, from, to, filter)
                       = Total(rollup, column, from, to, filter)
        <5> HIDE DEF column
        <5>1. /\ Total(rollup, column, from, to, filter) \in Int
              /\ Total(rollup', column, from, to, filter)
                    = Total(rollup, column, from, to, filter) + 0
          BY <1>1, <1>2, <4>1, <4>2, <4>3, TotalAfterAdd
        <5> QED  BY <5>1
      <4>5. both(rollup') = n
        BY <1>3, <4>4
      <4>6. both(rollup) = n
        BY <1>3
      <4> HIDE DEF both
      <4> QED  BY <3>1, <4>5, <4>6
    <3> QED  BY <3>2, <3>3
  <2> QED  BY <1>1, <2>1, <2>2, EventFacts DEF Kinds, BreakKinds
<1>5. both(rollup) = n
  BY <1>3
<1>6. both(rollup') = Cardinality(Recorded(kind, filter))'
  <2> HIDE DEF both, one
  <2> QED  BY <1>3, <1>4, <1>5
<1> QED  BY <1>6

\* The end of a break adds at most one duration, no other event adds any.
LEMMA DurationsCountOnce ==
    ASSUME ProjectorTypes, topic' = topic,
           NEW m \in Messages(topic), m.kind \notin {"poison", "ignored"}, m.id \notin processed,
           processed' = processed \cup {m.id},
           NEW began \in Nat \cup {NoStart}, rollup' = RollupAfter(m, began),
           NEW from, NEW to, NEW filter, AsksFor(filter, m.path),
           Total(rollup, "breaksWithDuration", from, to, filter)
               <= Cardinality(Recorded("breakEnded", filter))
    PROVE  Total(rollup', "breaksWithDuration", from, to, filter)
               <= Cardinality(Recorded("breakEnded", filter))'
<1>1. m \in Everything /\ topic \in Topics /\ rollup \in [Cells -> Int] /\ m.path \in PathIds
  BY EventFacts DEF Everything, ProjectorTypes
<1>2. PICK n \in Nat : /\ n = Cardinality(Recorded("breakEnded", filter))
                       /\ Cardinality(Recorded("breakEnded", filter))'
                              = n + IF m.kind = "breakEnded" THEN 1 ELSE 0
  BY <1>1, RecordedAfter
<1>3. PICK column \in Columns : column = "breaksWithDuration"
  BY DEF Columns
<1>4. PICK t : t = Total(rollup, column, from, to, filter) /\ t <= n
  BY <1>2, <1>3
<1>5. ASSUME NEW at, NEW delta, \A x \in DOMAIN delta : delta[x] \in Int,
             rollup' = Add(rollup, m.path, at, delta)
      PROVE  /\ t \in Int
             /\ Total(rollup', column, from, to, filter) = t + 0
                \/ /\ column \in DOMAIN delta
                   /\ Total(rollup', column, from, to, filter) = t + delta[column]
  BY <1>1, <1>4, <1>5, TotalAfterAdd
<1>6. CASE m.kind \in Counted \cup {"breakStarted"}
  <2> DEFINE delta == One(ColumnOf(m.kind))
  <2>1. rollup' = Add(rollup, m.path, m.at, delta)
    BY <1>1, <1>6, CountedOnce
  <2>2. DOMAIN delta = {ColumnOf(m.kind)} /\ \A x \in DOMAIN delta : delta[x] \in Int
    BY DEF One
  <2>3. column \notin DOMAIN delta
    BY <1>3, <1>6, <2>2, ColumnsOfKinds
  <2> HIDE DEF delta
  <2>4. t \in Int /\ Total(rollup', column, from, to, filter) = t
    BY <1>5, <2>1, <2>2, <2>3
  <2>5. m.kind # "breakEnded"
    BY <1>6 DEF Counted
  <2> QED  BY <1>2, <1>3, <1>4, <2>4, <2>5
<1>7. CASE m.kind = "breakEnded"
  <2>1. CASE began = NoStart
    <3>1. rollup' = rollup
      BY <1>7, <2>1 DEF RollupAfter, Counted
    <3>2. t \in Int
      BY <1>1, <1>3, <1>4, TotalInt
    <3> QED  BY <1>2, <1>3, <1>4, <1>7, <3>1, <3>2
  <2>2. CASE began # NoStart
    <3> DEFINE delta == Break(m.at - began)
    <3>1. rollup' = Add(rollup, m.path, began, delta)
      BY <1>7, <2>2 DEF RollupAfter, DurationAt, Counted
    <3>2. /\ \A x \in DOMAIN delta : delta[x] \in Int
          /\ delta["breaksWithDuration"] = 1
      BY <1>1, <2>2, EventFacts DEF Break
    <3> HIDE DEF delta
    <3>3. t \in Int /\ Total(rollup', column, from, to, filter) \in {t, t + 1}
      BY <1>3, <1>5, <3>1, <3>2
    <3> QED  BY <1>2, <1>3, <1>4, <1>7, <3>3
  <2> QED  BY <2>1, <2>2
<1> QED  BY <1>1, <1>6, <1>7, EventFacts DEF Kinds, BreakKinds

\* The report changes only in a transaction of a pod.
LEMMA OnlyProjectsChanges ==
    ASSUME NEW c \in Consumers, Work(c) \/ Fails(c)
    PROVE  Projects(c) \/ UNCHANGED <<processed, rollup, pending>>
  BY DEF Work, Fails, Join, Fetch, MarkProcessed, ReadStart, Apply, DeadLetter, Commit,
     MarkFails, ApplyFails, LoopEnds, Crash, log, store

\* A projected event is counted once by every report, an event projected before not again.
LEMMA ProjectCountsOnce ==
    ASSUME ProjectorTypes, ReportsCountOnce, topic' = topic,
           NEW m \in Messages(topic), m.kind \notin {"poison", "ignored"},
           NEW began \in Nat \cup {NoStart}, Project(m, began)
    PROVE  ReportsCountOnce'
<1>1. CASE m.id \in processed
  BY <1>1 DEF Project, ReportsCountOnce, Recorded
<1>2. CASE m.id \notin processed
  <2>1. processed' = processed \cup {m.id} /\ rollup' = RollupAfter(m, began)
    BY <1>2 DEF Project
  <2>2. /\ Total(rollup, "breaksWithDuration", 0, Horizon, AnyPath)
              <= Cardinality(Recorded("breakEnded", AnyPath))
        /\ AsksFor(AnyPath, m.path)
    BY DEF ReportsCountOnce, AsksFor
  <2>3. Total(rollup', "breaksWithDuration", 0, Horizon, AnyPath)
            <= Cardinality(Recorded("breakEnded", AnyPath))'
    BY <1>2, <2>1, <2>2, DurationsCountOnce
  <2>4. ASSUME NEW kind \in {n.kind : n \in Messages(topic)} \cap (Counted \cup {"breakStarted"}),
               NEW cut \in Cuts, NEW filter \in Filters
        PROVE  Total(rollup', ColumnOf(kind), 0, cut, filter)
                  + Total(rollup', ColumnOf(kind), cut, Horizon, filter)
               = Cardinality(Recorded(kind, filter))'
    <3>1. Total(rollup, ColumnOf(kind), 0, cut, filter)
              + Total(rollup, ColumnOf(kind), cut, Horizon, filter)
          = Cardinality(Recorded(kind, filter))
      BY DEF ReportsCountOnce
    <3> QED  BY <1>2, <2>1, <3>1, KindsCountOnce
  <2>5. {n.kind : n \in Messages(topic)}' = {n.kind : n \in Messages(topic)}
    BY DEF Messages
  <2> QED  BY <2>3, <2>4, <2>5 DEF ReportsCountOnce
<1> QED  BY <1>1, <1>2

\* (claim, PostgresReport.Query) Retries, redeliveries and overlapping pods never count an
\* event twice, and two adjoining reports, wherever they meet, count every processed event
\* of a kind and of the paths asked for exactly once; a processed end of a break counts at
\* most one duration.
THEOREM EventsCountOnce == Spec => []ReportsCountOnce
<1>1. Init => ReportsCountOnce
  <2> SUFFICES ASSUME Init PROVE ReportsCountOnce
    OBVIOUS
  <2>1. rollup = NoRows /\ processed = {}
    BY DEF Init
  <2>2. \A kind, filter : Recorded(kind, filter) = {}
    BY <2>1 DEF Recorded
  <2>3. \A kind, filter : Cardinality(Recorded(kind, filter)) = 0
    BY <2>2, FS_EmptySet
  <2>4. /\ "breaksWithDuration" \in Columns
        /\ \A kind \in Counted \cup {"breakStarted"} : ColumnOf(kind) \in Columns
    BY ColumnsOfKinds DEF Columns
  <2>5. ASSUME NEW column \in Columns, NEW from, NEW to, NEW filter
        PROVE  Total(rollup, column, from, to, filter) = 0
    BY <2>1, NewTotals
  <2>6. Total(rollup, "breaksWithDuration", 0, Horizon, AnyPath)
            <= Cardinality(Recorded("breakEnded", AnyPath))
    BY <2>3, <2>4, <2>5
  <2>7. ASSUME NEW kind \in Counted \cup {"breakStarted"}, NEW cut, NEW filter
        PROVE  Total(rollup, ColumnOf(kind), 0, cut, filter)
                  + Total(rollup, ColumnOf(kind), cut, Horizon, filter)
               = Cardinality(Recorded(kind, filter))
    BY <2>3, <2>4, <2>5
  <2> QED  BY <2>6, <2>7 DEF ReportsCountOnce
<1>2. IInv /\ ReportsCountOnce /\ [Next]_vars => ReportsCountOnce'
  <2> SUFFICES ASSUME IInv, ReportsCountOnce, [Next]_vars PROVE ReportsCountOnce'
    OBVIOUS
  <2>1. CASE UNCHANGED vars
    BY <2>1 DEF vars, ReportsCountOnce, Recorded
  <2>2. CASE Next
    <3>1. PICK c \in Consumers : Work(c) \/ Fails(c)
      BY <2>2 DEF Next
    <3>2. topic' = topic
      BY <3>1 DEF Work, Fails, Join, Fetch, MarkProcessed, ReadStart, Apply, DeadLetter, Commit,
         MarkFails, ApplyFails, LoopEnds, Crash, log
    <3>3. CASE Projects(c)
      <4>1. PICK began \in Nat \cup {NoStart} : Project(Msg(c), began)
        BY <3>3, ProjectsOnce
      <4>2. pc[c] \in Holding
        BY <3>3 DEF Projects, Holding, Decoded
      <4>3. Msg(c) \in Messages(topic) /\ Msg(c).kind \notin {"poison", "ignored"}
        BY <3>3, <4>2, HeldMessage, ProjectsOnce DEF Msg, Messages
      <4>4. ProjectorTypes
        BY DEF IInv
      <4> QED  BY <3>2, <4>1, <4>3, <4>4, ProjectCountsOnce
    <3>4. CASE UNCHANGED <<processed, rollup, pending>>
      BY <3>2, <3>4 DEF ReportsCountOnce, Recorded, Messages
    <3> QED  BY <3>1, <3>3, <3>4, OnlyProjectsChanges
  <2> QED  BY <2>1, <2>2
<1> QED  BY <1>1, <1>2, Invariance, PTL DEF Spec

-----------------------------------------------------------------------------
(* A pod that has the partition to itself implements MemoryStore *)

\* The claim of an event is MemoryStore's firstApply, freshness included.
LEMMA ClaimIsFirstApply ==
    ASSUME NewestInv, NEW m \in Everything, m.id \notin processed,
           processed' = processed \cup {m.id}
    PROVE  AsMemoryStore!firstApply(m)
<1>1. PICK old : old = Times(processed)
  OBVIOUS
<1>2. PICK new : new = Times(processed')
  OBVIOUS
<1>3. new = old \cup {m.at} /\ old \subseteq Int /\ m.at \in Int
  BY <1>1, <1>2, TimesOfOneMore, EventFacts
<1>4. \E x \in old : \A y \in old : x >= y
  BY <1>1 DEF NewestInv
<1>5. Max(new) = IF m.at > Max(old) THEN m.at ELSE Max(old)
  BY <1>3, <1>4, NewestOfOneMore
<1>6. Newest(processed) = Max(old) /\ Newest(processed)' = Max(new)
  BY <1>1, <1>2 DEF Newest
<1> QED  BY <1>5, <1>6 DEF AsMemoryStore!firstApply

\* A transaction of the only pod is one Apply of MemoryStore, or changes nothing.
LEMMA TransactionIsApply ==
    ASSUME IInv, NEW c \in Consumers, crew = {c}, Projects(c)
    PROVE  AsMemoryStore!Next \/ UNCHANGED <<processed, rollup, pending>>
<1>1. PICK m \in Everything : m = Msg(c) /\ m.kind \notin {"poison", "ignored"}
  BY ProjectsOnce
<1>2. m.kind \in Counted \cup {"breakStarted", "breakEnded"} /\ m.who \in Who
  BY <1>1, EventFacts DEF Kinds, BreakKinds
<1>3. NewestInv /\ pending \in [Who -> Nat \cup {NoStart}]
  BY DEF IInv, ProjectorTypes
<1>4. CASE m.id \in processed
  BY <1>1, <1>4 DEF Projects, Project
<1>5. CASE m.id \notin processed
  <2>1. PICK began : /\ processed' = processed \cup {m.id}
                     /\ rollup' = RollupAfter(m, began)
                     /\ pending' = PendingAfter(m, began)
                     /\ m.kind = "breakEnded" => began = pending[m.who]
    <3>1. CASE pc[c] = "apply"
      BY <1>1, <1>5, <3>1 DEF Projects, Project, NeedsStart
    <3>2. CASE pc[c] = "pair"
      <4>1. start[c] = pending[m.who]
        BY <1>1, <3>2 DEF IInv, AloneInv
      <4> QED  BY <1>1, <1>5, <3>2, <4>1 DEF Projects, Project
    <3> QED  BY <3>1, <3>2 DEF Projects
  <2>2. AsMemoryStore!firstApply(m)
    BY <1>3, <1>5, <2>1, ClaimIsFirstApply
  <2>3. \A table, path, at, delta :
           AsMemoryStore!Add(table, path, at, delta) = Add(table, path, at, delta)
    BY DEF Add, AsMemoryStore!Add, Cells, AsMemoryStore!Cells, Bucket, AsMemoryStore!Bucket,
       Columns, AsMemoryStore!Columns, Counted, AsMemoryStore!Counted,
       PathIds, AsMemoryStore!PathIds, Hours, AsMemoryStore!Hours,
       Everything, AsMemoryStore!Everything, Messages, AsMemoryStore!Messages
  <2>4. /\ \A column : AsMemoryStore!One(column) = One(column)
        /\ \A seconds : AsMemoryStore!Break(seconds) = Break(seconds)
    BY DEF One, AsMemoryStore!One, Break, AsMemoryStore!Break
  <2>5. CASE m.kind \in Counted
    <3>1. rollup' = Add(rollup, m.path, m.at, One(m.kind)) /\ pending' = pending
      BY <2>1, <2>5 DEF RollupAfter, PendingAfter, Counted
    <3>2. AsMemoryStore!ApplyCounted(m)
      BY <2>2, <2>3, <2>4, <2>5, <3>1
         DEF AsMemoryStore!ApplyCounted, Counted, AsMemoryStore!Counted
    <3> QED  BY <1>1, <3>2 DEF AsMemoryStore!Next, Everything, AsMemoryStore!Everything,
                Messages, AsMemoryStore!Messages
  <2>6. CASE m.kind = "breakStarted"
    <3>1. /\ rollup' = Add(rollup, m.path, m.at, One("breaks"))
          /\ pending' = [pending EXCEPT ![m.who] = m.at]
      BY <2>1, <2>6 DEF RollupAfter, PendingAfter, Counted
    <3>2. AsMemoryStore!ApplyBreakStarted(m)
      BY <2>2, <2>3, <2>4, <2>6, <3>1 DEF AsMemoryStore!ApplyBreakStarted
    <3> QED  BY <1>1, <3>2 DEF AsMemoryStore!Next, Everything, AsMemoryStore!Everything,
                Messages, AsMemoryStore!Messages
  <2>7. CASE m.kind = "breakEnded"
    <3>1. /\ rollup' = IF pending[m.who] = NoStart THEN rollup
                       ELSE Add(rollup, m.path, pending[m.who], Break(m.at - pending[m.who]))
          /\ pending' = [pending EXCEPT ![m.who] = NoStart]
      <4>1. CASE began = NoStart
        <5>1. rollup' = rollup /\ pending' = pending /\ pending[m.who] = NoStart
          BY <2>1, <2>7, <4>1 DEF RollupAfter, PendingAfter, Counted
        <5>2. pending = [pending EXCEPT ![m.who] = NoStart]
          BY <1>2, <1>3, <5>1
        <5> QED  BY <5>1, <5>2
      <4>2. CASE began # NoStart
        BY <2>1, <2>7, <4>2 DEF RollupAfter, PendingAfter, DurationAt, Counted
      <4> QED  BY <4>1, <4>2
    <3>2. AsMemoryStore!ApplyBreakEnded(m)
      BY <2>2, <2>3, <2>4, <2>7, <3>1 DEF AsMemoryStore!ApplyBreakEnded
    <3> QED  BY <1>1, <3>2 DEF AsMemoryStore!Next, Everything, AsMemoryStore!Everything,
                Messages, AsMemoryStore!Messages
  <2> QED  BY <1>2, <2>5, <2>6, <2>7
<1> QED  BY <1>4, <1>5

\* (report.ProjectionStore) A pod that has the partition to itself makes of Postgres
\* what MemoryStore is: whatever fails and however often it is tried, each of its
\* transactions is one Apply of the mutex-guarded object.
THEOREM OnePodIsMemoryStore == Spec => ActsAsMemoryStore
<1>1. ASSUME IInv, [Next]_vars, Cardinality(crew) = 1
      PROVE  \/ AsMemoryStore!Next
             \/ UNCHANGED <<processed, rollup, pending>>
  <2>1. CASE UNCHANGED vars
    BY <2>1 DEF vars
  <2>2. CASE Next
    <3>1. PICK c \in Consumers : Work(c) \/ Fails(c)
      BY <2>2 DEF Next
    <3>2. CASE Projects(c)
      <4>1. c \in crew
        BY <1>1, <3>2 DEF Projects, IInv, PodsInv
      <4>2. IsFiniteSet(crew)
        BY <1>1, ProjectorAssumption DEF IInv, ProjectorTypes
      <4>3. crew = {c}
        BY <1>1, <4>1, <4>2, FS_Singleton
      <4> QED  BY <1>1, <3>2, <4>3, TransactionIsApply
    <3> QED  BY <3>1, <3>2, OnlyProjectsChanges
  <2> QED  BY <1>1, <2>1, <2>2
<1> QED  BY <1>1, Invariance, PTL DEF Spec, ActsAsMemoryStore

\* The tables of a new database are an empty MemoryStore.
LEMMA NewDatabaseIsNewStore == Init => AsMemoryStore!Init
<1> SUFFICES ASSUME Init PROVE AsMemoryStore!Init
  OBVIOUS
<1>1. Times({}) = {Never}
  BY DEF Times
<1>2. PICK T : T = {Never} /\ Max(T) \in T
  <2>1. \E x \in {Never} : \A y \in {Never} : x >= y
    BY DEF Never
  <2> QED  BY <2>1 DEF Max
<1>3. Newest(processed) = AsMemoryStore!Never
  <2>1. processed = {}
    BY DEF Init
  <2>2. Newest({}) = Max(T)
    BY <1>1, <1>2 DEF Newest
  <2> QED  BY <1>2, <2>1, <2>2 DEF Never, AsMemoryStore!Never
<1>4. rollup = AsMemoryStore!NoRows
  BY DEF Init, NoRows, AsMemoryStore!NoRows, Cells, AsMemoryStore!Cells,
     Columns, AsMemoryStore!Columns, Counted, AsMemoryStore!Counted,
     Bucket, AsMemoryStore!Bucket, PathIds, AsMemoryStore!PathIds, Hours, AsMemoryStore!Hours,
     Everything, AsMemoryStore!Everything, Messages, AsMemoryStore!Messages
<1>5. pending = [a \in AsMemoryStore!Who |-> NoStart]
  BY DEF Init, Who, AsMemoryStore!Who, Everything, AsMemoryStore!Everything,
     Messages, AsMemoryStore!Messages
<1> QED  BY <1>3, <1>4, <1>5 DEF Init, AsMemoryStore!Init

=============================================================================
