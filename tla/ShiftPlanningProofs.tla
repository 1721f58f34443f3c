-------------------------- MODULE ShiftPlanningProofs --------------------------
(***************************************************************************)
(* What overlapping commits of a shift plan leave in its tables and in the *)
(* outbox, for every catalogue, every set of request bodies and any number *)
(* of concurrent handlers.                                                 *)
(***************************************************************************)
EXTENDS ShiftPlanning, FiniteSetTheorems, TLAPS

Steps == {"idle", "fetch", "header", "delete", "scan", "insert", "publish", "commit"}

\* The variables of a handler's transaction.
Own(q) == <<pc[q], body[q], by[q], seen[q], deleted[q], inserted[q], reread[q]>>

LEMMA InitInv == Init => IInv
  <1> SUFFICES ASSUME Init PROVE IInv
    OBVIOUS
  <1> USE PlanningAssumption DEF Init
  <1>1. PlanningTypes
    <2>1. {events[n] : n \in 1 .. Len(events)} = {}
      OBVIOUS
    <2> QED
      BY <2>1 DEF PlanningTypes
  <1>2. Committed = {}
    BY DEF Committed
  <1>3. TableInv
    BY <1>2 DEF TableInv, OnePerPath
  <1>4. ASSUME NEW p \in Handlers PROVE TransactionInv(p)
    <2>1. IsFiniteSet({}) /\ Cardinality({}) = 0
      BY FS_EmptySet
    <2>2. inserted[p] = {} /\ inserted[p] = {Row(p, i) : i \in 1 .. Cardinality(inserted[p])}
      BY <2>1
    <2> QED
      BY <2>1, <2>2 DEF TransactionInv, OnePerPath, Visible
  <1>5. \A p, q \in Handlers : p # q => ApartInv(p, q)
    BY DEF ApartInv
  <1>6. EventsCarryCommittedLines
    BY DEF EventsCarryCommittedLines
  <1> QED
    BY <1>1, <1>3, <1>4, <1>5, <1>6 DEF IInv

-----------------------------------------------------------------------------
(* Steps that commit nothing *)

\* A handler that does not move, while the tables stay.
LEMMA Bystander ==
    ASSUME NEW q \in Handlers, TransactionInv(q), UNCHANGED <<lines, events>>,
           Own(q)' = Own(q), Closed \subseteq Closed'
    PROVE  TransactionInv(q)'
  <1>1. /\ pc'[q] = pc[q] /\ body'[q] = body[q] /\ by'[q] = by[q] /\ seen'[q] = seen[q]
        /\ deleted'[q] = deleted[q] /\ inserted'[q] = inserted[q] /\ reread'[q] = reread[q]
    BY DEF Own
  <1>2. Visible(q)' = Visible(q) /\ Lines(q)' = Lines(q) /\ Committed' = Committed
    BY <1>1 DEF Visible, Lines, Committed
  <1>3. \A i : Row(q, i)' = Row(q, i)
    BY <1>1, <1>2 DEF Row
  <1> QED
    BY <1>1, <1>2, <1>3 DEF TransactionInv, OnePerPath

\* A step of p that leaves the tables alone keeps the invariant if it keeps p's part of it.
LEMMA HandlerStep ==
    ASSUME IInv, NEW p \in Handlers, PlanningTypes', UNCHANGED table,
           \A q \in Handlers \ {p} : Own(q)' = Own(q),
           Closed \subseteq Closed', TransactionInv(p)',
           \A q \in Handlers \ {p} : ApartInv(p, q)'
    PROVE  IInv'
  <1> USE DEF table
  <1>1. Committed' = Committed
    BY DEF Committed
  <1>2. TableInv'
    BY <1>1 DEF IInv, TableInv
  <1>3. \A q \in Handlers : TransactionInv(q)'
    BY Bystander DEF IInv
  <1>4. \A q, r \in Handlers : q # r => ApartInv(q, r)'
    <2> SUFFICES ASSUME NEW q \in Handlers, NEW r \in Handlers, q # r PROVE ApartInv(q, r)'
      OBVIOUS
    <2>1. CASE q = p
      BY <2>1
    <2>2. CASE r = p
      <3>1. ApartInv(p, q)'
        BY <2>2
      <3> QED
        BY <2>2, <3>1 DEF ApartInv
    <2>3. CASE q # p /\ r # p
      BY <2>3 DEF IInv, ApartInv, Own
    <2> QED
      BY <2>1, <2>2, <2>3
  <1>5. EventsCarryCommittedLines'
    BY DEF IInv, EventsCarryCommittedLines
  <1> QED
    BY <1>2, <1>3, <1>4, <1>5 DEF IInv

\* The end of a handler's request.
LEMMA FinishFacts ==
    ASSUME IInv, NEW p \in Handlers, NEW r, Finish(p, r), UNCHANGED started
    PROVE  /\ pc'[p] = "idle" /\ by'[p] = 0
           /\ seen'[p] = {} /\ deleted'[p] = {} /\ inserted'[p] = {} /\ reread'[p] = {}
           /\ \A q \in Handlers \ {p} : Own(q)' = Own(q)
           /\ by' \in [Handlers -> 0 .. started] /\ pc' \in [Handlers -> Steps]
           /\ DOMAIN body' = Handlers /\ DOMAIN seen' = Handlers /\ DOMAIN deleted' = Handlers
           /\ DOMAIN inserted' = Handlers /\ DOMAIN reread' = Handlers
           /\ Closed' = Closed \cup ({by[p]} \ {0})
  <1> USE DEF Finish, Goto
  <1>1. PlanningTypes
    BY DEF IInv
  <1>2. /\ pc'[p] = "idle" /\ by'[p] = 0
        /\ seen'[p] = {} /\ deleted'[p] = {} /\ inserted'[p] = {} /\ reread'[p] = {}
    BY <1>1 DEF PlanningTypes
  <1>3. /\ by' \in [Handlers -> 0 .. started] /\ pc' \in [Handlers -> Steps]
        /\ DOMAIN body' = Handlers /\ DOMAIN seen' = Handlers /\ DOMAIN deleted' = Handlers
        /\ DOMAIN inserted' = Handlers /\ DOMAIN reread' = Handlers
    BY <1>1 DEF PlanningTypes, Steps
  <1>4. \A q \in Handlers \ {p} : Own(q)' = Own(q)
    BY <1>1 DEF PlanningTypes, Own
  <1>5. \A q \in Handlers \ {p} : by'[q] = by[q] /\ (by[q] = by[p] => by[p] = 0)
    BY <1>4 DEF Own, IInv, ApartInv
  <1>6. /\ by[p] \in 0 .. started /\ started \in Nat
        /\ \A n \in 1 .. started : n # 0
    BY <1>1 DEF PlanningTypes
  <1>7. ASSUME NEW n \in 1 .. started
        PROVE  n \notin {by'[q] : q \in Handlers} <=>
                  n \notin {by[q] : q \in Handlers} \/ (n = by[p] /\ by[p] # 0)
    BY <1>2, <1>5, <1>6
  <1>8. Closed' = Closed \cup ({by[p]} \ {0})
    BY <1>6, <1>7 DEF Closed
  <1> QED
    BY <1>2, <1>3, <1>4, <1>8

LEMMA TableKept ==
    ASSUME IInv, UNCHANGED table, Closed \subseteq Closed'
    PROVE  TableInv'
  BY DEF IInv, TableInv, Committed, table

\* A handler that has deleted and inserted nothing.
LEMMA UntouchedInv ==
    ASSUME NEW p \in Handlers, TableInv',
           pc'[p] \in {"idle", "fetch", "header", "delete", "scan"},
           pc'[p] = "idle" <=> by'[p] = 0,
           pc'[p] # "idle" => body'[p] \in Requests,
           pc'[p] \notin {"idle", "fetch"} => Lines(p)' # << >>,
           \A row \in seen'[p] : row.by \in Closed',
           deleted'[p] = {}, inserted'[p] = {}
    PROVE  TransactionInv(p)'
  <1>1. IsFiniteSet({}) /\ Cardinality({}) = 0
    BY FS_EmptySet
  <1>2. Visible(p)' = lines'
    BY DEF Visible
  <1>3. {Row(p, i)' : i \in 1 .. Cardinality(inserted'[p])} = {}
    BY <1>1
  <1> QED
    BY <1>1, <1>2, <1>3 DEF TransactionInv, TableInv

LEMMA RollbackInv ==
    ASSUME IInv, NEW p \in Handlers, NEW r, Finish(p, r), UNCHANGED <<table, started>>
    PROVE  IInv'
  <1>1. PlanningTypes'
    BY FinishFacts DEF IInv, PlanningTypes, table, Steps
  <1>2. TableInv'
    BY FinishFacts, TableKept
  <1>3. TransactionInv(p)'
    BY <1>2, FinishFacts, UntouchedInv
  <1>4. \A q \in Handlers \ {p} : ApartInv(p, q)'
    BY FinishFacts DEF ApartInv
  <1> QED
    BY <1>1, <1>3, <1>4, FinishFacts, HandlerStep

LEMMA ReceiveInv ==
    ASSUME IInv, NEW p \in Handlers, NEW b \in Requests, Receive(p, b)
    PROVE  IInv'
  <1> USE DEF Receive, Goto, table, transaction
  <1>1. PlanningTypes /\ TransactionInv(p)
    BY DEF IInv
  <1>2. /\ started \in Nat /\ started' = started + 1
        /\ pc'[p] = "fetch" /\ body'[p] = b /\ by'[p] = started + 1
        /\ by' \in [Handlers -> 0 .. started + 1] /\ pc' \in [Handlers -> Steps]
        /\ DOMAIN body' = Handlers
        /\ \A q \in Handlers \ {p} : by'[q] = by[q] /\ pc'[q] = pc[q] /\ body'[q] = body[q]
    BY <1>1 DEF PlanningTypes, Steps
  <1>3. PlanningTypes'
    BY <1>1, <1>2 DEF PlanningTypes, Steps
  <1>4. \A q \in Handlers \ {p} : Own(q)' = Own(q)
    BY <1>2 DEF Own
  <1>5. \A q \in Handlers : by[q] \in 0 .. started
    BY <1>1 DEF PlanningTypes
  <1>6. Closed \subseteq Closed'
    BY <1>2, <1>5 DEF Closed
  <1>7. deleted[p] = {} /\ inserted[p] = {}
    BY DEF TransactionInv, IInv
  <1>8. TransactionInv(p)'
    <2>1. TableInv'
      BY <1>6, TableKept
    <2>2. \A row \in seen'[p] : row.by \in Closed'
      BY <1>1, <1>6 DEF TransactionInv
    <2>3. by'[p] # 0
      BY <1>2
    <2> QED
      BY <1>2, <1>7, <2>1, <2>2, <2>3, UntouchedInv
  <1>9. \A q \in Handlers \ {p} : ApartInv(p, q)'
    BY <1>2, <1>5, <1>7 DEF ApartInv
  <1> QED
    BY <1>3, <1>4, <1>6, <1>8, <1>9, HandlerStep

\* A step within p's request.
LEMMA SameRequest ==
    ASSUME IInv, NEW p \in Handlers, NEW step \in Steps, Goto(p, step),
           UNCHANGED <<lines, events, body, by, started>>
    PROVE  /\ PlanningTypes /\ TableInv /\ TransactionInv(p)
           /\ pc'[p] = step /\ pc' \in [Handlers -> Steps]
           /\ \A q \in Handlers \ {p} : pc'[q] = pc[q]
           /\ Closed' = Closed /\ Committed' = Committed /\ Lines(p)' = Lines(p)
           /\ \A i : Row(p, i)' = Row(p, i)
  <1> USE DEF Goto
  <1>1. PlanningTypes /\ TableInv /\ TransactionInv(p)
    BY DEF IInv
  <1>2. /\ pc'[p] = step /\ pc' \in [Handlers -> Steps]
        /\ \A q \in Handlers \ {p} : pc'[q] = pc[q]
    BY <1>1 DEF PlanningTypes, Steps
  <1>3. Closed' = Closed /\ Committed' = Committed /\ Lines(p)' = Lines(p)
    BY DEF Closed, Committed, Lines
  <1>4. \A i : Row(p, i)' = Row(p, i)
    BY <1>3 DEF Row
  <1> QED
    BY <1>1, <1>2, <1>3, <1>4

\* Such a step keeps the invariant if it keeps p's part of it.
LEMMA RequestStep ==
    ASSUME IInv, NEW p \in Handlers, NEW step \in Steps, Goto(p, step),
           UNCHANGED <<table, body, by, started>>,
           DOMAIN seen' = Handlers, DOMAIN deleted' = Handlers,
           DOMAIN inserted' = Handlers, DOMAIN reread' = Handlers,
           \A q \in Handlers \ {p} :
              /\ seen'[q] = seen[q] /\ deleted'[q] = deleted[q]
              /\ inserted'[q] = inserted[q] /\ reread'[q] = reread[q],
           TransactionInv(p)', \A q \in Handlers \ {p} : ApartInv(p, q)'
    PROVE  IInv'
  <1> USE DEF table
  <1>1. PlanningTypes'
    <2>1. PlanningTypes /\ pc' \in [Handlers -> Steps]
      BY SameRequest
    <2> QED
      BY <2>1 DEF PlanningTypes, Steps
  <1>2. \A q \in Handlers \ {p} : Own(q)' = Own(q)
    BY SameRequest DEF Own
  <1> QED
    BY <1>1, <1>2, SameRequest, HandlerStep

LEMMA FetchInv ==
    ASSUME IInv, NEW p \in Handlers, Fetch(p)
    PROVE  IInv'
  <1> USE DEF Fetch, table, transaction
  <1>1. PlanningTypes' /\ Closed' = Closed
    BY DEF IInv, PlanningTypes, Closed
  <1>2. \A q \in Handlers : Own(q)' = Own(q)
    BY DEF Own
  <1>3. TransactionInv(p)'
    BY <1>1, <1>2, Bystander DEF IInv
  <1>4. \A q \in Handlers \ {p} : ApartInv(p, q)'
    BY DEF IInv, ApartInv
  <1> QED
    BY <1>1, <1>2, <1>3, <1>4, HandlerStep

LEMMA ValidateInv ==
    ASSUME IInv, NEW p \in Handlers, Validate(p)
    PROVE  IInv'
  <1>1. CASE Valid(p)
    <2>1. /\ Goto(p, "header") /\ UNCHANGED <<table, transaction, body, by, started>>
          /\ pc[p] = "fetch" /\ Lines(p) # << >>
      BY <1>1 DEF Validate, Valid
    <2> USE DEF table, transaction
    <2>2. "header" \in Steps
      BY DEF Steps
    <2>3. TransactionInv(p)'
      <3>1. TransactionInv(p) /\ TableInv'
        BY <2>1, TableKept DEF IInv, Closed
      <3> QED
        BY <2>1, <2>2, <3>1, SameRequest, UntouchedInv DEF TransactionInv
    <2>4. \A q \in Handlers \ {p} : ApartInv(p, q)'
      BY <2>1 DEF IInv, ApartInv
    <2> QED
      BY <2>1, <2>2, <2>3, <2>4, RequestStep DEF IInv, PlanningTypes
  <1>2. CASE ~Valid(p)
    BY <1>2, RollbackInv DEF Validate
  <1> QED
    BY <1>1, <1>2

LEMMA InsertHeaderInv ==
    ASSUME IInv, NEW p \in Handlers, InsertHeader(p)
    PROVE  IInv'
  <1> USE DEF InsertHeader, table
  <1>1. "delete" \in Steps
    BY DEF Steps
  <1>2. TransactionInv(p)'
    <2>1. TransactionInv(p) /\ TableInv'
      BY TableKept DEF IInv, Closed
    <2> QED
      BY <1>1, <2>1, SameRequest, UntouchedInv DEF TransactionInv
  <1>3. \A q \in Handlers \ {p} : ApartInv(p, q)'
    BY DEF IInv, ApartInv
  <1> QED
    BY <1>1, <1>2, <1>3, RequestStep DEF IInv, PlanningTypes

LEMMA BeginDeleteInv ==
    ASSUME IInv, NEW p \in Handlers, BeginDelete(p)
    PROVE  IInv'
  <1> USE DEF BeginDelete, table
  <1>1. "scan" \in Steps
    BY DEF Steps
  <1>2. PlanningTypes /\ TransactionInv(p) /\ TableInv
    BY DEF IInv
  <1>3. seen'[p] = lines /\ DOMAIN seen' = Handlers /\ \A q \in Handlers \ {p} : seen'[q] = seen[q]
    BY <1>2 DEF PlanningTypes
  <1>4. TransactionInv(p)'
    <2>1. TableInv'
      BY TableKept DEF Closed
    <2>2. \A row \in seen'[p] : row.by \in Closed'
      <3>1. Closed' = Closed
        BY DEF Closed
      <3> QED
        BY <1>2, <1>3, <3>1 DEF TableInv
    <2> QED
      BY <1>1, <1>2, <2>1, <2>2, SameRequest, UntouchedInv DEF TransactionInv
  <1>5. \A q \in Handlers \ {p} : ApartInv(p, q)'
    BY DEF IInv, ApartInv
  <1> QED
    BY <1>1, <1>2, <1>3, <1>4, <1>5, RequestStep DEF PlanningTypes

LEMMA DeleteRowInv ==
    ASSUME IInv, NEW p \in Handlers, DeleteRow(p)
    PROVE  IInv'
  <1> USE DEF table
  <1>1. PICK row \in Remaining(p) :
          /\ ~DeletedByAnother(p, row)
          /\ deleted' = [deleted EXCEPT ![p] = @ \cup {row}]
    BY DEF DeleteRow
  <1>2. PlanningTypes /\ TransactionInv(p)
    BY DEF IInv
  <1>3. /\ deleted'[p] = deleted[p] \cup {row} /\ DOMAIN deleted' = Handlers
        /\ \A q \in Handlers \ {p} : deleted'[q] = deleted[q]
    BY <1>1, <1>2 DEF PlanningTypes
  <1>4. PlanningTypes' /\ Closed' = Closed /\ Committed' = Committed
    BY <1>2, <1>3 DEF DeleteRow, PlanningTypes, Closed, Committed
  <1>5. Lines(p)' = Lines(p) /\ \A i : Row(p, i)' = Row(p, i)
    BY DEF DeleteRow, Lines, Row
  <1>6. TransactionInv(p)'
    <2>1. \A r, s \in Visible(p)' : r.path = s.path => r = s
      BY <1>2, <1>3 DEF DeleteRow, TransactionInv, OnePerPath, Visible
    <2>2. deleted'[p] \subseteq seen[p] \cap lines
      BY <1>1, <1>2, <1>3 DEF TransactionInv, Remaining
    <2>3. /\ pc'[p] = "scan" /\ body' = body /\ by' = by /\ lines' = lines
          /\ seen' = seen /\ inserted' = inserted /\ pc' = pc
      BY DEF DeleteRow
    <2> QED
      BY <1>2, <1>4, <1>5, <2>1, <2>2, <2>3 DEF TransactionInv, OnePerPath
  <1>7. \A q \in Handlers \ {p} : ApartInv(p, q)'
    BY <1>1, <1>3 DEF DeleteRow, IInv, ApartInv, DeletedByAnother
  <1>8. \A q \in Handlers \ {p} : Own(q)' = Own(q)
    BY <1>3 DEF DeleteRow, Own
  <1> QED
    BY <1>4, <1>6, <1>7, <1>8, HandlerStep DEF DeleteRow

LEMMA EndDeleteInv ==
    ASSUME IInv, NEW p \in Handlers, EndDelete(p)
    PROVE  IInv'
  <1> USE DEF EndDelete, table, transaction
  <1>1. "insert" \in Steps
    BY DEF Steps
  <1>2. PlanningTypes /\ TransactionInv(p)
    BY DEF IInv
  <1>3. TransactionInv(p)'
    <2>1. /\ pc'[p] = "insert" /\ Closed' = Closed /\ Committed' = Committed
          /\ Lines(p)' = Lines(p) /\ \A i : Row(p, i)' = Row(p, i)
      BY <1>1, SameRequest
    <2>2. seen[p] \cap lines \subseteq deleted[p]
      BY DEF Remaining
    <2>3. Cardinality({}) = 0
      BY FS_EmptySet
    <2>4. Cardinality(inserted[p]) < Len(Lines(p))
      <3>1. inserted[p] = {} /\ body[p] \in Requests /\ Lines(p) # << >>
        BY <1>2 DEF TransactionInv
      <3>2. Lines(p) \in Seq({Lines(p)[i] : i \in 1 .. Len(Lines(p))})
        BY <3>1, PlanningAssumption DEF Lines
      <3> QED
        BY <2>3, <3>1, <3>2
    <2>5. OnePerPath(Visible(p)')
      BY <1>2 DEF TransactionInv, OnePerPath, Visible
    <2> QED
      BY <1>2, <2>1, <2>2, <2>4, <2>5 DEF TransactionInv, OnePerPath
  <1>4. \A q \in Handlers \ {p} : ApartInv(p, q)'
    BY DEF IInv, ApartInv
  <1> QED
    BY <1>1, <1>2, <1>3, <1>4, RequestStep DEF PlanningTypes

LEMMA InsertLineInv ==
    ASSUME IInv, NEW p \in Handlers, InsertLine(p)
    PROVE  IInv'
  <1> DEFINE n == Cardinality(inserted[p])
             row == Inserting(p)
             next == IF n + 1 = Len(Lines(p)) THEN "publish" ELSE "insert"
  <1>1. /\ pc[p] = "insert"
        /\ \A q \in Handlers : ~KeyHeldBy(p, q)
        /\ ~KeyTaken(p)
        /\ inserted' = [inserted EXCEPT ![p] = @ \cup {row}]
        /\ Goto(p, next)
        /\ UNCHANGED <<table, body, by, started, lines, events, seen, deleted, reread>>
    BY DEF InsertLine, table
  <1>2. next \in Steps
    BY DEF Steps
  <1>3. PlanningTypes /\ TransactionInv(p) /\ pc'[p] = next
        /\ Closed' = Closed /\ Committed' = Committed
        /\ Lines(p)' = Lines(p) /\ \A i : Row(p, i)' = Row(p, i)
    <2> HIDE DEF next, row, n
    <2> QED
      BY <1>1, <1>2, SameRequest
  <1>4. /\ inserted'[p] = inserted[p] \cup {row} /\ DOMAIN inserted' = Handlers
        /\ \A q \in Handlers \ {p} : inserted'[q] = inserted[q]
    BY <1>1, <1>3 DEF PlanningTypes
  <1>5. /\ n \in Nat /\ IsFiniteSet(inserted'[p]) /\ Cardinality(inserted'[p]) = n + 1
    <2>1. IsFiniteSet(inserted[p])
      BY <1>3 DEF TransactionInv
    <2>2. row \notin inserted[p]
      BY <1>1 DEF KeyTaken
    <2> HIDE DEF row
    <2>3. n \in Nat
      BY <2>1, FS_CardinalityType
    <2>4. IsFiniteSet(inserted[p] \cup {row}) /\ Cardinality(inserted[p] \cup {row}) = n + 1
      BY <2>1, <2>2, FS_AddElement
    <2> QED
      BY <1>4, <2>3, <2>4
  <1>6. inserted'[p] = {Row(p, i) : i \in 1 .. n + 1}
    <2>1. inserted[p] = {Row(p, i) : i \in 1 .. n}
      BY <1>3 DEF TransactionInv
    <2>2. row = Row(p, n + 1)
      BY DEF Inserting
    <2>3. 1 .. n + 1 = (1 .. n) \cup {n + 1}
      BY <1>5
    <2> HIDE DEF n, row
    <2> QED
      BY <1>4, <2>1, <2>2, <2>3
  <1>7. n < Len(Lines(p)) /\ Len(Lines(p)) \in Nat
    <2>1. n < Len(Lines(p)) /\ body[p] \in Requests
      BY <1>1, <1>3 DEF TransactionInv
    <2>2. Lines(p) \in Seq({Lines(p)[i] : i \in 1 .. Len(Lines(p))})
      BY <2>1, PlanningAssumption DEF Lines
    <2> QED
      BY <2>1, <2>2
  <1>8. OnePerPath(Visible(p)')
    <2>1. Visible(p)' = Visible(p) \cup {row}
      BY <1>1, <1>4 DEF Visible
    <2>2. \A s \in Visible(p) : s.path # row.path
      BY <1>1 DEF Visible, KeyTaken
    <2> HIDE DEF row
    <2> QED
      BY <1>3, <2>1, <2>2 DEF TransactionInv, OnePerPath
  <1>9. TransactionInv(p)'
    <2>1. inserted'[p] = {Row(p, i)' : i \in 1 .. Cardinality(inserted'[p])}
      BY <1>3, <1>5, <1>6
    <2>2. CASE n + 1 = Len(Lines(p))
      <3>1. pc'[p] = "publish"
        BY <1>3, <2>2
      <3> QED
        BY <1>1, <1>3, <1>5, <1>7, <1>8, <2>1, <2>2, <3>1 DEF TransactionInv, OnePerPath
    <2>3. CASE n + 1 # Len(Lines(p))
      <3>1. pc'[p] = "insert" /\ n + 1 < Len(Lines(p))
        BY <1>3, <1>5, <1>7, <2>3
      <3> QED
        BY <1>1, <1>3, <1>5, <1>8, <2>1, <3>1 DEF TransactionInv, OnePerPath
    <2> QED
      BY <2>2, <2>3
  <1>10. ASSUME NEW q \in Handlers \ {p} PROVE ApartInv(p, q)'
    <2>1. \A s \in inserted[q] : s.path # row.path
      BY <1>1 DEF KeyHeldBy
    <2> HIDE DEF row
    <2> QED
      BY <1>1, <1>4, <2>1 DEF IInv, ApartInv
  <1> HIDE DEF next, row, n
  <1> QED
    BY <1>1, <1>2, <1>3, <1>4, <1>9, <1>10, RequestStep DEF PlanningTypes

LEMMA PublishInv ==
    ASSUME IInv, NEW p \in Handlers, Publish(p)
    PROVE  IInv'
  <1> USE DEF Publish, table
  <1>1. "commit" \in Steps
    BY DEF Steps
  <1>2. PlanningTypes /\ TransactionInv(p) /\ TableInv /\ pc'[p] = "commit"
        /\ Closed' = Closed /\ Committed' = Committed
        /\ Lines(p)' = Lines(p) /\ \A i : Row(p, i)' = Row(p, i)
    BY <1>1, SameRequest
  <1>3. /\ reread'[p] = Visible(p) /\ DOMAIN reread' = Handlers
        /\ \A q \in Handlers \ {p} : reread'[q] = reread[q]
    BY <1>2 DEF PlanningTypes
  <1>4. \A row \in Visible(p) : row.by = by[p] \/ row.by \in Committed
    BY <1>2 DEF Visible, TransactionInv, TableInv, Row
  <1>5. TransactionInv(p)'
    <2>1. OnePerPath(Visible(p)')
      BY <1>2 DEF TransactionInv, OnePerPath, Visible
    <2>2. inserted[p] \subseteq Visible(p)
      BY DEF Visible
    <2> QED
      BY <1>2, <1>3, <1>4, <2>1, <2>2 DEF TransactionInv, OnePerPath
  <1>6. \A q \in Handlers \ {p} : ApartInv(p, q)'
    BY DEF IInv, ApartInv
  <1> QED
    BY <1>1, <1>2, <1>3, <1>5, <1>6, RequestStep DEF PlanningTypes

-----------------------------------------------------------------------------
(* A commit *)

\* What p commits: its own lines, of a number no committed row has, and what it left.
LEMMA CommitFacts ==
    ASSUME IInv, NEW p \in Handlers, Commit(p)
    PROVE  /\ by[p] \in 1 .. started /\ by[p] \notin Closed
           /\ inserted[p] # {} /\ \A row \in inserted[p] : row.by = by[p]
           /\ inserted[p] = Rows(p)
           /\ lines' = (lines \ deleted[p]) \cup inserted[p]
           /\ deleted[p] = seen[p] \cap lines
           /\ Len(events) \in Nat /\ Len(events') = Len(events) + 1
           /\ \A n \in 1 .. Len(events) : events'[n] = events[n]
           /\ events'[Len(events) + 1] = [by |-> by[p], lines |-> reread[p]]
           /\ events' \in Seq({events'[n] : n \in 1 .. Len(events')})
           /\ Committed' = Committed \cup {by[p]}
           /\ Closed' = Closed \cup {by[p]}
  <1> DEFINE e == [by |-> by[p], lines |-> reread[p]]
             E == {events[n] : n \in 1 .. Len(events)}
  <1>1. PlanningTypes /\ TransactionInv(p) /\ pc[p] = "commit"
    BY DEF IInv, Commit
  <1>2. by[p] \in 1 .. started /\ by[p] \notin Closed
    BY <1>1 DEF PlanningTypes, TransactionInv, Closed
  <1>3. inserted[p] = Rows(p) /\ inserted[p] # {} /\ \A row \in inserted[p] : row.by = by[p]
    <2>1. /\ inserted[p] = {Row(p, i) : i \in 1 .. Len(Lines(p))}
          /\ Lines(p) # << >> /\ body[p] \in Requests
      BY <1>1 DEF TransactionInv
    <2>2. Lines(p) \in Seq({Lines(p)[i] : i \in 1 .. Len(Lines(p))})
      BY <2>1, PlanningAssumption DEF Lines
    <2>3. 1 \in 1 .. Len(Lines(p))
      BY <2>1, <2>2
    <2>4. inserted[p] = Rows(p)
      BY <2>1 DEF Rows
    <2>5. Row(p, 1) \in Rows(p)
      BY <2>3 DEF Rows
    <2>6. \A i : Row(p, i).by = by[p]
      BY DEF Row
    <2> QED
      BY <2>4, <2>5, <2>6 DEF Rows
  <1>4. lines' = (lines \ deleted[p]) \cup inserted[p] /\ deleted[p] = seen[p] \cap lines
    BY <1>1 DEF Commit, Visible, TransactionInv
  <1>5. events \in Seq(E) /\ events' = Append(events, e)
    BY <1>1 DEF Commit, PlanningTypes
  <1>6. /\ Len(events) \in Nat /\ Len(events') = Len(events) + 1
        /\ \A n \in 1 .. Len(events) : events'[n] = events[n]
        /\ events'[Len(events) + 1] = e
    <2> HIDE DEF e, E
    <2> QED
      BY <1>5
  <1>7. events' \in Seq({events'[n] : n \in 1 .. Len(events')})
    <2>1. events' \in Seq(E \cup {e})
      <3> HIDE DEF e, E
      <3>1. events \in Seq(E \cup {e})
        BY <1>5
      <3> QED
        BY <1>5, <3>1
    <2>2. DOMAIN events' = 1 .. Len(events')
      <3> HIDE DEF e, E
      <3> QED
        BY <2>1
    <2>3. events' = [n \in 1 .. Len(events') |-> events'[n]]
      <3> HIDE DEF e, E
      <3> QED
        BY <2>1
    <2> QED
      BY <1>6, <2>1, <2>2, <2>3
  <1>8. Committed' = Committed \cup {by[p]}
    <2>1. \A n \in 1 .. Len(events') : n \in 1 .. Len(events) \/ n = Len(events) + 1
      BY <1>6
    <2>2. 1 .. Len(events) \subseteq 1 .. Len(events') /\ Len(events) + 1 \in 1 .. Len(events')
      BY <1>6
    <2> QED
      BY <1>6, <2>1, <2>2 DEF Committed
  <1>9. Closed' = Closed \cup {by[p]}
    BY <1>2, FinishFacts DEF Commit
  <1> QED
    BY <1>2, <1>3, <1>4, <1>6, <1>7, <1>8, <1>9

\* The transactions that see p's commit happen.
LEMMA CommitBystander ==
    ASSUME IInv, NEW p \in Handlers, Commit(p), NEW q \in Handlers \ {p}, Own(q)' = Own(q)
    PROVE  TransactionInv(q)'
  <1>1. /\ pc'[q] = pc[q] /\ body'[q] = body[q] /\ by'[q] = by[q] /\ seen'[q] = seen[q]
        /\ deleted'[q] = deleted[q] /\ inserted'[q] = inserted[q] /\ reread'[q] = reread[q]
    BY DEF Own
  <1>2. Lines(q)' = Lines(q)
    BY <1>1 DEF Lines
  <1>3. \A i : Row(q, i)' = Row(q, i)
    BY <1>1, <1>2 DEF Row
  <1>4. TransactionInv(q) /\ TransactionInv(p) /\ ApartInv(p, q) /\ TableInv
    BY DEF IInv
  <1>5. /\ by[p] \notin Closed /\ \A row \in inserted[p] : row.by = by[p]
        /\ lines' = (lines \ deleted[p]) \cup inserted[p]
        /\ Committed \subseteq Committed' /\ Closed \subseteq Closed'
    BY CommitFacts
  <1>6. \A row \in seen[q] : row.by \in Closed /\ row \notin inserted[p]
    BY <1>4, <1>5 DEF TransactionInv
  <1>7. deleted[q] \subseteq seen[q] \cap lines'
    BY <1>4, <1>5 DEF TransactionInv, ApartInv
  <1>8. pc[q] \in {"insert", "publish", "commit"} => seen[q] \cap lines' \subseteq deleted[q]
    BY <1>4, <1>5, <1>6 DEF TransactionInv
  <1>9. ASSUME NEW r \in Visible(q)', NEW s \in Visible(q)', r.path = s.path PROVE r = s
    <2>1. \A t, u \in Visible(q) : t.path = u.path => t = u
      BY <1>4 DEF TransactionInv, OnePerPath
    <2>2. \A t, u \in Visible(p) : t.path = u.path => t = u
      BY <1>4 DEF TransactionInv, OnePerPath
    <2>3. \A t \in Visible(q)' : t \in Visible(q) \/ t \in inserted[p]
      BY <1>1, <1>5 DEF Visible
    <2>4. \A t \in Visible(q)' : t \in inserted[q] \/ t \in Visible(p)
      BY <1>1, <1>5 DEF Visible
    <2>5. inserted[p] \subseteq Visible(p) /\ inserted[q] \subseteq Visible(q)
      BY DEF Visible
    <2>6. \A t \in inserted[p], u \in inserted[q] : t.path # u.path
      BY <1>4 DEF ApartInv
    <2>7. CASE r \in inserted[q]
      BY <1>9, <2>1, <2>3, <2>5, <2>6, <2>7
    <2>8. CASE s \in inserted[q]
      BY <1>9, <2>1, <2>3, <2>5, <2>6, <2>8
    <2>9. CASE r \in Visible(p) /\ s \in Visible(p)
      BY <1>9, <2>2, <2>9
    <2> QED
      BY <2>4, <2>7, <2>8, <2>9
  <1>10. TransactionInv(q)
    BY <1>4
  <1> QED
    BY <1>1, <1>2, <1>3, <1>5, <1>6, <1>7, <1>8, <1>9, <1>10 DEF TransactionInv, OnePerPath

LEMMA CommitInv ==
    ASSUME IInv, NEW p \in Handlers, Commit(p)
    PROVE  IInv'
  <1>1. PICK r : Finish(p, r) /\ started' = started
    BY DEF Commit
  <1>2. PlanningTypes /\ TransactionInv(p) /\ TableInv /\ EventsCarryCommittedLines
        /\ pc[p] = "commit"
    BY DEF IInv, Commit
  <1>3. PlanningTypes'
    BY <1>1, <1>2, FinishFacts, CommitFacts DEF PlanningTypes, Steps
  <1>4. TableInv'
    <2>1. header' = TRUE /\ lines' = Visible(p)
      BY DEF Commit
    <2>2. OnePerPath(Visible(p))
      BY <1>2 DEF TransactionInv
    <2>3. lines' # {} /\ \A row \in lines' : row \in lines \/ row.by = by[p]
      BY CommitFacts
    <2>4. Committed' \subseteq Closed' /\ \A row \in lines' : row.by \in Committed'
      BY <1>2, <2>3, CommitFacts DEF TableInv
    <2> QED
      BY <2>1, <2>2, <2>3, <2>4 DEF TableInv, OnePerPath
  <1>5. \A q \in Handlers : TransactionInv(q)'
    <2>1. TransactionInv(p)'
      BY <1>1, <1>4, FinishFacts, UntouchedInv
    <2> QED
      BY <1>1, <2>1, FinishFacts, CommitBystander
  <1>6. \A q, s \in Handlers : q # s => ApartInv(q, s)'
    <2>1. \A q \in Handlers \ {p} : ApartInv(p, q)' /\ ApartInv(q, p)'
      BY <1>1, FinishFacts DEF ApartInv
    <2>2. \A q, s \in Handlers \ {p} : q # s => ApartInv(q, s)'
      BY <1>1, FinishFacts DEF IInv, ApartInv, Own
    <2> QED
      BY <2>1, <2>2
  <1>7. EventsCarryCommittedLines'
    <2> DEFINE last == Len(events) + 1
    <2>1. /\ Len(events') = last /\ last \in Nat /\ Len(events) \in Nat
          /\ \A n \in 1 .. Len(events) : events'[n] = events[n]
          /\ events'[last].by = by[p] /\ events'[last].lines = reread[p]
      <3>1. events'[last] = [by |-> by[p], lines |-> reread[p]]
        BY CommitFacts
      <3>2. /\ Len(events') = last /\ Len(events) \in Nat
            /\ \A n \in 1 .. Len(events) : events'[n] = events[n]
        BY CommitFacts
      <3> QED
        BY <3>1, <3>2
    <2>2. \A row \in lines' : \/ row \in lines /\ row.by \in Committed
                              \/ row \in inserted[p] /\ row.by = by[p]
      BY <1>2, CommitFacts DEF TableInv
    <2>3. by[p] \notin Committed
      BY <1>2, CommitFacts DEF TableInv
    <2>4. /\ inserted[p] \subseteq reread[p] /\ inserted[p] # {}
          /\ \A row \in inserted[p] : row.by = by[p]
          /\ \A row \in reread[p] : row.by = by[p] \/ row.by \in Committed
      BY <1>2, CommitFacts DEF TransactionInv
    <2> SUFFICES ASSUME NEW n \in 1 .. last
                 PROVE  /\ \E row \in events'[n].lines : row.by = events'[n].by
                        /\ \A row \in events'[n].lines :
                              \E m \in 1 .. n : events'[m].by = row.by
                        /\ \A row \in lines' : row.by = events'[n].by => row \in events'[n].lines
      BY <2>1 DEF EventsCarryCommittedLines
    <2>5. CASE n \in 1 .. Len(events)
      <3>1. /\ \E row \in events[n].lines : row.by = events[n].by
            /\ \A row \in events[n].lines : \E m \in 1 .. n : events[m].by = row.by
            /\ \A row \in lines : row.by = events[n].by => row \in events[n].lines
        BY <1>2, <2>5 DEF EventsCarryCommittedLines
      <3>2. \A m \in 1 .. n : events'[m] = events[m]
        BY <2>1, <2>5
      <3>3. events[n].by \in Committed /\ events'[n] = events[n]
        BY <2>1, <2>5 DEF Committed
      <3> QED
        BY <2>2, <2>3, <3>1, <3>2, <3>3
    <2>6. CASE n = last
      <3>1. \A row \in reread[p] : \E m \in 1 .. last : events'[m].by = row.by
        <4> SUFFICES ASSUME NEW row \in reread[p] PROVE \E m \in 1 .. last : events'[m].by = row.by
          OBVIOUS
        <4>1. CASE row.by = by[p]
          BY <2>1, <4>1
        <4>2. CASE row.by \in Committed
          <5>1. PICK m \in 1 .. Len(events) : events[m].by = row.by
            BY <4>2 DEF Committed
          <5> QED
            BY <2>1, <5>1
        <4> QED
          BY <2>4, <4>1, <4>2
      <3> HIDE DEF last
      <3> QED
        BY <2>1, <2>2, <2>3, <2>4, <2>6, <3>1
    <2> QED
      BY <2>1, <2>5, <2>6
  <1> QED
    BY <1>3, <1>4, <1>5, <1>6, <1>7 DEF IInv

-----------------------------------------------------------------------------
(* The theorems *)

\* Only a commit changes the tables.
LEMMA Uncommitted ==
    ASSUME NEW p \in Handlers,
           \/ Fetch(p) \/ UnknownPath(p) \/ Validate(p) \/ InsertHeader(p) \/ BeginDelete(p)
           \/ DeleteRow(p) \/ EndDelete(p) \/ InsertLine(p) \/ DuplicateKey(p) \/ Publish(p)
           \/ DeadlockVictim(p) \/ Fail(p) \/ \E b \in Requests : Receive(p, b)
    PROVE  UNCHANGED <<lines, events>>
  BY DEF Fetch, UnknownPath, Validate, InsertHeader, BeginDelete, DeleteRow, EndDelete, InsertLine,
         DuplicateKey, Publish, DeadlockVictim, Fail, Receive, table

LEMMA NextInv == IInv /\ [Next]_vars => IInv'
  <1> SUFFICES ASSUME IInv, [Next]_vars PROVE IInv'
    OBVIOUS
  <1>1. CASE UNCHANGED vars
    <2> USE <1>1 DEF vars
    <2>1. PlanningTypes' /\ Closed' = Closed /\ Committed' = Committed
      BY DEF IInv, PlanningTypes, Closed, Committed
    <2>2. TableInv'
      BY <2>1 DEF IInv, TableInv
    <2>3. \A q \in Handlers : TransactionInv(q)'
      BY <2>1, Bystander DEF IInv, Own
    <2>4. \A q, r \in Handlers : q # r => ApartInv(q, r)'
      BY DEF IInv, ApartInv
    <2>5. EventsCarryCommittedLines'
      BY DEF IInv, EventsCarryCommittedLines
    <2> QED
      BY <2>1, <2>2, <2>3, <2>4, <2>5 DEF IInv
  <1>2. ASSUME NEW p \in Handlers, Work(p) PROVE IInv'
    <2>1. ASSUME UnknownPath(p) \/ DuplicateKey(p) \/ DeadlockVictim(p) PROVE IInv'
      BY <2>1, RollbackInv DEF UnknownPath, DuplicateKey, DeadlockVictim
    <2> QED
      BY <1>2, <2>1, FetchInv, ValidateInv, InsertHeaderInv, BeginDeleteInv, DeleteRowInv,
         EndDeleteInv, InsertLineInv, PublishInv, CommitInv DEF Work
  <1>3. ASSUME NEW p \in Handlers, Fail(p) PROVE IInv'
    BY <1>3, RollbackInv DEF Fail
  <1> QED
    BY <1>1, <1>2, <1>3, ReceiveInv DEF Next

\* (IInv) Transactions own the rows they delete and the keys they insert, and committed
\* rows are of requests that ended with a commit.
THEOREM Invariance == Spec => []IInv
  <1>1. IInv /\ [Next]_vars => IInv'
    BY NextInv
  <1> QED
    BY <1>1, InitInv, PTL DEF Spec

\* (FindByBuildingAndShift, PRIMARY KEY (building_id, shift_id, path_id)) However many
\* commits overlap, a plan that exists has lines, and one line per path.
THEOREM PlansAreWellFormed == Spec => []PlanIsWellFormed
  <1>1. IInv => PlanIsWellFormed
    BY DEF IInv, TableInv, OnePerPath, PlanIsWellFormed
  <1> QED
    BY <1>1, Invariance, PTL

\* (Publisher.Encode inside the unit of work) Every ShiftPlanCommitted carries all the
\* lines of its own commit and otherwise only lines committed before it.
THEOREM EventsAreCommitted == Spec => []EventsCarryCommittedLines
  <1>1. IInv => EventsCarryCommittedLines
    BY DEF IInv
  <1> QED
    BY <1>1, Invariance, PTL

\* A step that commits replaces what its DELETE saw.
Replaces ==
    \A p \in Handlers :
        (pc[p] = "commit" /\ pc'[p] = "idle" /\ events' # events) =>
            lines' = Rows(p) \cup (lines \ seen[p])

\* (ShiftPlanRepo.Save) Whatever transactions overlap it, a commit leaves all the lines of
\* its request in the plan, and besides them only lines its DELETE did not see.
THEOREM CommitsReplace == Spec => CommitReplacesWhatItSaw
  <1>1. IInv /\ [Next]_vars => [Replaces]_vars
    <2> SUFFICES ASSUME IInv, Next, NEW p \in Handlers,
                        pc[p] = "commit", pc'[p] = "idle", events' # events
                 PROVE  lines' = Rows(p) \cup (lines \ seen[p])
      BY DEF Replaces
    <2>1. PICK q \in Handlers : Commit(q)
      BY Uncommitted DEF Next, Work
    <2>2. q = p
      <3>1. pc' = [pc EXCEPT ![q] = "idle"]
        BY <2>1 DEF Commit, Finish, Goto
      <3> QED
        BY <3>1 DEF IInv, PlanningTypes
    <2>3. /\ lines' = (lines \ deleted[p]) \cup inserted[p]
          /\ inserted[p] = Rows(p) /\ deleted[p] = seen[p] \cap lines
      BY <2>1, <2>2, CommitFacts
    <2> QED
      BY <2>3
  <1>2. CommitReplacesWhatItSaw <=> [][Replaces]_vars
    BY PTL DEF CommitReplacesWhatItSaw, Replaces
  <1> QED
    BY <1>1, <1>2, Invariance, PTL DEF Spec

=============================================================================
