--------------------------- MODULE StaffingGapProofs ---------------------------
(***************************************************************************)
(* What the answers and the events of GetStaffingGap guarantee, for every  *)
(* number of associates, paths, plans, handlers and concurrent commits.    *)
(***************************************************************************)
EXTENDS StaffingGap, SumLemmas

\* GapsWereTrue and EventsMatchTheAnswer, of one handler.
TrueGaps(p) ==
    \A path \in DOMAIN gaps[p] :
        LET g == gaps[p][path]
        IN  /\ \E h \in held[p] : h[1] = path /\ h[2].active = g.active
            /\ replanned[p] \/ <<path, g>> \in held[p]
            /\ g.planned = PlannedHeadsFor(lines[p], path)

AnswerInv(p) ==
    /\ \A i \in Batches(p) : outbox[i].events = Events(p)
    /\ reply[p] = "ok" /\ req[p].via = "http" /\ Events(p) # {} => Batches(p) # {}

\* As no number stands in two commits, EventsMatchTheAnswer is a matter of each handler.
LEMMA AtMostOne ==
    ASSUME NEW S, \A i, j \in S : i = j
    PROVE  Cardinality(S) <= 1
  <1>1. S = {} \/ \E i : S = {i}
    OBVIOUS
  <1>2. Cardinality(S) \in {0, 1}
    BY <1>1, FS_EmptySet, FS_Singleton
  <1> QED
    BY <1>2

\* The parts of the invariant, handler by handler.
LEMMA Parts ==
    ASSUME IInv
    PROVE  /\ StaffingTypes /\ CommitsInv
           /\ \A p \in Handlers : ReadInv(p) /\ TrueGaps(p) /\ AnswerInv(p)
  BY DEF IInv, GapsWereTrue, TrueGaps, EventsMatchTheAnswer, AnswerInv

LEMMA FromParts ==
    ASSUME StaffingTypes, CommitsInv,
           \A p \in Handlers : ReadInv(p) /\ TrueGaps(p) /\ AnswerInv(p)
    PROVE  IInv
  <1>1. \A p \in Handlers : \A i, j \in Batches(p) : i = j
    BY DEF CommitsInv, Batches
  <1>2. \A p \in Handlers : Cardinality(Batches(p)) <= 1
    BY <1>1, AtMostOne
  <1> QED
    BY <1>2 DEF IInv, GapsWereTrue, TrueGaps, EventsMatchTheAnswer, AnswerInv

LEMMA FromPartsNext ==
    ASSUME StaffingTypes', CommitsInv',
           \A p \in Handlers : ReadInv(p)' /\ TrueGaps(p)' /\ AnswerInv(p)'
    PROVE  IInv'
  <1>1. \A p \in Handlers : \A i, j \in Batches(p)' : i = j
    BY DEF CommitsInv, Batches
  <1>2. \A p \in Handlers : Cardinality(Batches(p)') <= 1
    BY <1>1, AtMostOne
  <1> QED
    BY <1>2 DEF IInv, GapsWereTrue, TrueGaps, EventsMatchTheAnswer, AnswerInv

LEMMA InitInv == Init => IInv
  <1> SUFFICES ASSUME Init PROVE IInv
    OBVIOUS
  <1> USE DEF Init
  <1>1. StaffingTypes
    <2>1. {outbox[i] : i \in 1 .. Len(outbox)} = {}
      OBVIOUS
    <2> QED
      BY <2>1 DEF StaffingTypes
  <1>2. \A p \in Handlers : Batches(p) = {} /\ DOMAIN gaps[p] = {}
    BY DEF Batches, NoGaps
  <1>3. CommitsInv
    BY <1>2 DEF CommitsInv
  <1>4. \A p \in Handlers : ReadInv(p) /\ TrueGaps(p) /\ AnswerInv(p)
    BY <1>2 DEF ReadInv, TrueGaps, AnswerInv
  <1> QED
    BY <1>1, <1>3, <1>4, FromParts

-----------------------------------------------------------------------------
(* What other requests commit *)

\* The history of a read takes in what a commit makes true.
LEMMA ChangeInv ==
    ASSUME IInv, Change, plan' \in Plans \cup {NoPlan}, plan' # NoPlan \/ UNCHANGED plan,
           (UNCHANGED plan /\ UNCHANGED replanned) \/ replanned' = [p \in Handlers |-> TRUE]
    PROVE  IInv'
  <1> USE DEF Change
  <1>1. StaffingTypes /\ CommitsInv
        /\ \A p \in Handlers : ReadInv(p) /\ TrueGaps(p) /\ AnswerInv(p)
    BY Parts
  <1>2. StaffingTypes'
    <2>1. replanned' \in [Handlers -> BOOLEAN] /\ DOMAIN held' = Handlers
      BY <1>1 DEF StaffingTypes
    <2> QED
      BY <1>1, <2>1 DEF StaffingTypes
  <1>3. \A p \in Handlers : Batches(p)' = Batches(p) /\ Events(p)' = Events(p)
    BY DEF Batches, Events
  <1>4. CommitsInv'
    BY <1>1, <1>3 DEF CommitsInv
  <1>5. \A p \in Handlers : AnswerInv(p)'
    BY <1>1, <1>3 DEF AnswerInv
  <1>6. \A p \in Handlers :
          /\ held[p] \subseteq held'[p]
          /\ pc[p] # "idle" => Truth(plan', active') \subseteq held'[p]
          /\ replanned'[p] \/ (UNCHANGED plan /\ replanned'[p] = replanned[p])
    OBVIOUS
  <1>7. \A p \in Handlers : ReadInv(p)'
    BY <1>1, <1>6 DEF ReadInv, Truth
  <1>8. \A p \in Handlers : TrueGaps(p)'
    BY <1>1, <1>6 DEF TrueGaps, PlannedHeadsFor
  <1> QED
    BY <1>2, <1>4, <1>5, <1>7, <1>8, FromPartsNext

LEMMA CommitPlanInv == ASSUME IInv, NEW l \in Plans, CommitPlan(l) PROVE IInv'
  BY ChangeInv, StaffingAssumption DEF CommitPlan

LEMMA MoveInv == ASSUME IInv, NEW a, NEW path, Move(a, path) PROVE IInv'
  BY ChangeInv DEF Move, IInv, StaffingTypes

-----------------------------------------------------------------------------
(* Steps of a read *)

\* The handlers that do not move, while the tables, the outbox and their requests stay.
LEMMA Bystander ==
    ASSUME IInv, NEW q \in Handlers, UNCHANGED <<tables, outbox>>,
           pc'[q] = pc[q], req'[q] = req[q], lines'[q] = lines[q], gaps'[q] = gaps[q],
           reply'[q] = reply[q], held'[q] = held[q], replanned'[q] = replanned[q]
    PROVE  ReadInv(q)' /\ TrueGaps(q)' /\ AnswerInv(q)' /\ Batches(q)' = Batches(q)
  <1>1. ReadInv(q) /\ TrueGaps(q) /\ AnswerInv(q)
    BY Parts
  <1>2. Batches(q)' = Batches(q) /\ Events(q)' = Events(q)
    BY DEF Batches, Events
  <1>3. ReadInv(q)'
    <2>1. Truth(plan, active)' = Truth(plan, active)
      BY DEF Truth, GapNow, PlannedHeadsFor, tables
    <2> QED
      BY <1>1, <2>1 DEF ReadInv, tables
  <1>4. TrueGaps(q)'
    BY <1>1 DEF TrueGaps, PlannedHeadsFor
  <1>5. AnswerInv(q)'
    BY <1>1, <1>2 DEF AnswerInv
  <1> QED
    BY <1>2, <1>3, <1>4, <1>5

LEMMA AskInv ==
    ASSUME IInv, NEW p \in Handlers, NEW path \in Paths \cup {NoPath}, NEW via \in {"http", "mcp"},
           Ask(p, path, via)
    PROVE  IInv'
  <1> USE DEF Ask
  <1>1. StaffingTypes /\ CommitsInv
        /\ \A q \in Handlers : ReadInv(q) /\ TrueGaps(q) /\ AnswerInv(q)
    BY Parts
  <1>2. /\ started \in Nat /\ started' = started + 1
        /\ req \in [Handlers -> [no : 0 .. started, path : Paths \cup {NoPath}, via : {"http", "mcp"}]]
        /\ req'[p] = [no |-> started + 1, path |-> path, via |-> via]
        /\ req' = [req EXCEPT ![p] = [no |-> started + 1, path |-> path, via |-> via]]
        /\ \A q \in Handlers \ {p} : req'[q] = req[q]
    BY <1>1 DEF StaffingTypes
  <1>3. /\ pc' \in [Handlers -> {"idle", "exists", "lines", "count", "publish"}]
        /\ left' \in [Handlers -> SUBSET Paths]
        /\ reply' \in [Handlers -> {"none", "ok", "failed", "rejected", "not_found"}]
        /\ (pc'[p] = "idle" /\ reply'[p] = "rejected") \/ (pc'[p] = "exists" /\ reply'[p] = "none")
        /\ \A q \in Handlers \ {p} : pc'[q] = pc[q] /\ reply'[q] = reply[q]
    <2>1. CASE via = "http" /\ path \notin Declared \cup {NoPath}
      BY <1>1, <2>1 DEF StaffingTypes, Finish, Goto
    <2>2. CASE ~(via = "http" /\ path \notin Declared \cup {NoPath})
      BY <1>1, <2>2 DEF StaffingTypes, Goto
    <2> QED
      BY <2>1, <2>2
  <1>4. /\ gaps'[p] = NoGaps /\ held'[p] = Truth(plan, active) /\ replanned'[p] = FALSE
        /\ DOMAIN gaps' = Handlers /\ DOMAIN held' = Handlers /\ DOMAIN lines' = Handlers
        /\ replanned' \in [Handlers -> BOOLEAN]
        /\ \A q \in Handlers \ {p} :
              /\ lines'[q] = lines[q] /\ gaps'[q] = gaps[q] /\ held'[q] = held[q]
              /\ replanned'[q] = replanned[q]
    BY <1>1 DEF StaffingTypes
  <1>5. StaffingTypes'
    <2>1. req' \in [Handlers -> [no : 0 .. started', path : Paths \cup {NoPath}, via : {"http", "mcp"}]]
      BY <1>2
    <2> QED
      BY <1>1, <1>2, <1>3, <1>4, <2>1 DEF StaffingTypes, tables
  <1>6. \A q \in Handlers \ {p} :
            ReadInv(q)' /\ TrueGaps(q)' /\ AnswerInv(q)' /\ Batches(q)' = Batches(q)
    BY <1>2, <1>3, <1>4, Bystander
  <1>7. Batches(p)' = {}
    <2>1. \A i \in 1 .. Len(outbox) : outbox[i].by # started + 1
      BY <1>1, <1>2 DEF CommitsInv
    <2> QED
      BY <1>2, <2>1 DEF Batches
  <1>8. ReadInv(p)' /\ TrueGaps(p)' /\ AnswerInv(p)'
    <2>1. Truth(plan, active)' = Truth(plan, active)
      BY DEF tables, Truth, GapNow, PlannedHeadsFor
    <2>2. ReadInv(p)'
      BY <1>3, <1>4, <2>1 DEF ReadInv
    <2>3. DOMAIN gaps'[p] = {}
      BY <1>4 DEF NoGaps
    <2> QED
      BY <1>3, <1>7, <2>2, <2>3 DEF TrueGaps, AnswerInv
  <1>9. CommitsInv'
    <2>1. \A q \in Handlers \ {p} : req'[q].no # req'[p].no
      BY <1>2
    <2>2. \A q, r \in Handlers : req'[q].no = req'[r].no => q = r \/ req'[q].no = 0
      BY <1>1, <1>2, <2>1 DEF CommitsInv
    <2>3. \A i \in 1 .. Len(outbox) : outbox[i].by \in 1 .. started'
      BY <1>1, <1>2 DEF CommitsInv
    <2>4. ASSUME NEW q \in Handlers, pc'[q] # "idle"
          PROVE  req'[q].no # 0 /\ Batches(q)' = {}
      <3>1. CASE q = p
        BY <1>2, <1>7, <3>1
      <3>2. CASE q # p
        BY <1>1, <1>2, <1>3, <1>6, <2>4, <3>2 DEF CommitsInv
      <3> QED
        BY <3>1, <3>2
    <2> QED
      BY <1>1, <2>2, <2>3, <2>4 DEF CommitsInv
  <1> QED
    BY <1>5, <1>6, <1>8, <1>9, FromPartsNext

\* A step of a read under way that commits nothing.
LEMMA OwnStep ==
    ASSUME IInv, NEW p \in Handlers, pc[p] # "idle", StaffingTypes',
           UNCHANGED <<tables, outbox, request>>,
           \A q \in Handlers \ {p} : /\ pc'[q] = pc[q] /\ lines'[q] = lines[q]
                                     /\ gaps'[q] = gaps[q] /\ reply'[q] = reply[q],
           ReadInv(p)', TrueGaps(p)',
           reply'[p] = "ok" /\ req[p].via = "http" => Events(p)' = {}
    PROVE  IInv'
  <1> USE DEF request
  <1>1. CommitsInv
    BY DEF IInv
  <1>2. \A q \in Handlers \ {p} :
            ReadInv(q)' /\ TrueGaps(q)' /\ AnswerInv(q)' /\ Batches(q)' = Batches(q)
    BY Bystander
  <1>3. Batches(p) = {} /\ Batches(p)' = {}
    BY <1>1 DEF CommitsInv, Batches
  <1>4. AnswerInv(p)'
    BY <1>3 DEF AnswerInv
  <1>5. CommitsInv'
    BY <1>1, <1>2, <1>3 DEF CommitsInv
  <1> QED
    BY <1>2, <1>4, <1>5, FromPartsNext

\* The end of a read that commits nothing: it answers "ok" only if it owes no event.
LEMMA FinishInv ==
    ASSUME IInv, NEW p \in Handlers, pc[p] # "idle",
           NEW r \in {"ok", "failed", "rejected", "not_found"}, Finish(p, r),
           r = "ok" => req[p].via = "mcp",
           UNCHANGED <<tables, outbox, request, lines, gaps, changes>>
    PROVE  IInv'
  <1> USE DEF Finish, Goto, request, tables
  <1>1. StaffingTypes /\ TrueGaps(p) /\ ReadInv(p)
    BY Parts
  <1>2. /\ pc'[p] = "idle" /\ reply'[p] = r
        /\ \A q \in Handlers \ {p} : pc'[q] = pc[q] /\ reply'[q] = reply[q]
    BY <1>1 DEF StaffingTypes
  <1>3. StaffingTypes'
    BY <1>1 DEF StaffingTypes
  <1>4. TrueGaps(p)' /\ ReadInv(p)'
    BY <1>1, <1>2 DEF TrueGaps, ReadInv, PlannedHeadsFor
  <1>5. reply'[p] = "ok" /\ req[p].via = "http" => FALSE
    BY <1>2
  <1> QED
    BY <1>2, <1>3, <1>4, <1>5, OwnStep

LEMMA FindPlanInv == ASSUME IInv, NEW p \in Handlers, FindPlan(p) PROVE IInv'
  <1> USE DEF FindPlan, request, tables
  <1>1. StaffingTypes /\ TrueGaps(p) /\ ReadInv(p)
    BY Parts
  <1>2. CASE plan = NoPlan
    BY <1>2, FinishInv
  <1>3. CASE plan # NoPlan
    <2>1. /\ pc'[p] = "lines" /\ UNCHANGED <<reply, left>>
          /\ \A q \in Handlers \ {p} : pc'[q] = pc[q]
          /\ pc' \in [Handlers -> {"idle", "exists", "lines", "count", "publish"}]
      BY <1>1, <1>3 DEF StaffingTypes, Goto
    <2>2. StaffingTypes'
      BY <1>1, <2>1 DEF StaffingTypes
    <2>3. TrueGaps(p)'
      BY <1>1 DEF TrueGaps, PlannedHeadsFor
    <2>4. ReadInv(p)'
      BY <1>1, <1>3, <2>1 DEF ReadInv, Truth, GapNow, PlannedHeadsFor
    <2>5. reply'[p] # "ok"
      BY <1>1, <2>1 DEF ReadInv
    <2> QED
      BY <2>1, <2>2, <2>3, <2>4, <2>5, OwnStep
  <1> QED
    BY <1>2, <1>3

LEMMA ReadLinesInv == ASSUME IInv, NEW p \in Handlers, ReadLines(p) PROVE IInv'
  <1> USE DEF ReadLines, request, tables
  <1>1. StaffingTypes /\ TrueGaps(p) /\ ReadInv(p)
    BY Parts
  <1>2. plan \in Plans /\ DOMAIN plan \subseteq Paths
    BY <1>1, StaffingAssumption DEF ReadInv, StaffingTypes
  <1>3. req[p].path \in Paths \cup {NoPath}
    BY <1>1 DEF StaffingTypes
  <1>4. /\ pc'[p] = "count" /\ pc' \in [Handlers -> {"idle", "exists", "lines", "count", "publish"}]
        /\ lines'[p] = plan /\ DOMAIN lines' = Handlers
        /\ \A q \in Handlers \ {p} : pc'[q] = pc[q] /\ lines'[q] = lines[q]
    BY <1>1 DEF StaffingTypes, Goto
  <1>5. left' \in [Handlers -> SUBSET Paths]
    BY <1>1, <1>2, <1>3 DEF StaffingTypes
  <1>6. StaffingTypes'
    BY <1>1, <1>4, <1>5 DEF StaffingTypes
  <1>7. TrueGaps(p)'
    <2>1. DOMAIN gaps[p] = {}
      BY <1>1 DEF ReadInv, NoGaps
    <2> QED
      BY <2>1 DEF TrueGaps
  <1>8. ReadInv(p)'
    <2>1. Truth(plan, active)' = Truth(plan, active)
      BY DEF Truth, GapNow, PlannedHeadsFor
    <2> QED
      BY <1>1, <1>4, <2>1 DEF ReadInv
  <1>9. reply'[p] # "ok"
    BY <1>1 DEF ReadInv
  <1> QED
    BY <1>4, <1>6, <1>7, <1>8, <1>9, OwnStep

\* Another path is counted: what is counted is true now, and so is the gap if the plan that
\* was read is still the committed one.
LEMMA GapForLineInv == ASSUME IInv, NEW p \in Handlers, GapForLine(p) PROVE IInv'
  <1> USE DEF request, tables
  <1>1. StaffingTypes /\ TrueGaps(p) /\ ReadInv(p)
    BY Parts
  <1>2. PICK path \in left[p] :
          LET g == [planned |-> PlannedHeadsFor(lines[p], path),
                    active |-> CountActiveByPath(active, path)]
          IN  /\ gaps' = [gaps EXCEPT ![p] = [q \in DOMAIN @ \cup {path} |->
                                                  IF q = path THEN g ELSE @[q]]]
              /\ IF left[p] # {path}
                 THEN left' = [left EXCEPT ![p] = @ \ {path}] /\ UNCHANGED <<pc, reply>>
                 ELSE IF Understaffed(g) \/ Events(p) # {}
                 THEN left' = [left EXCEPT ![p] = {}] /\ Goto(p, "publish") /\ UNCHANGED reply
                 ELSE Finish(p, "ok")
    BY DEF GapForLine
  <1> DEFINE g == [planned |-> PlannedHeadsFor(lines[p], path),
                   active |-> CountActiveByPath(active, path)]
  <1>3. /\ pc[p] = "count" /\ path \in Paths
        /\ UNCHANGED <<tables, outbox, request, lines, changes>>
    BY <1>1, <1>2 DEF GapForLine, StaffingTypes
  <1>4. /\ gaps'[p] = [q \in DOMAIN gaps[p] \cup {path} |-> IF q = path THEN g ELSE gaps[p][q]]
        /\ DOMAIN gaps' = Handlers
        /\ \A q \in Handlers \ {p} : gaps'[q] = gaps[q]
    BY <1>1, <1>2 DEF StaffingTypes
  <1>5. /\ DOMAIN gaps'[p] = DOMAIN gaps[p] \cup {path}
        /\ gaps'[p][path] = g
        /\ \A q \in DOMAIN gaps[p] : q # path => gaps'[p][q] = gaps[p][q]
    BY <1>4
  <1>6. /\ pc' \in [Handlers -> {"idle", "exists", "lines", "count", "publish"}]
        /\ left' \in [Handlers -> SUBSET Paths]
        /\ reply' \in [Handlers -> {"none", "ok", "failed", "rejected", "not_found"}]
        /\ \A q \in Handlers \ {p} : pc'[q] = pc[q] /\ reply'[q] = reply[q]
        /\ \/ pc'[p] \in {"count", "publish"} /\ reply'[p] = reply[p]
           \/ /\ pc'[p] = "idle" /\ reply'[p] = "ok"
              /\ ~Understaffed(g) /\ Events(p) = {}
    <2>1. CASE left[p] # {path}
      <3>1. left' = [left EXCEPT ![p] = @ \ {path}] /\ UNCHANGED <<pc, reply>>
        BY <1>2, <2>1
      <3> HIDE DEF g
      <3> QED
        BY <1>1, <1>3, <3>1 DEF StaffingTypes
    <2>2. CASE left[p] = {path} /\ (Understaffed(g) \/ Events(p) # {})
      BY <1>1, <1>2, <1>3, <2>2 DEF StaffingTypes, Goto
    <2>3. CASE left[p] = {path} /\ ~(Understaffed(g) \/ Events(p) # {})
      BY <1>1, <1>2, <1>3, <2>3 DEF StaffingTypes, Goto, Finish
    <2> QED
      BY <2>1, <2>2, <2>3
  <1>7. StaffingTypes'
    BY <1>1, <1>3, <1>4, <1>6 DEF StaffingTypes
  <1>8. TrueGaps(p)'
    <2>1. <<path, GapNow(plan, active, path)>> \in held[p]
      BY <1>1, <1>3 DEF ReadInv, Truth
    <2>2. /\ GapNow(plan, active, path).active = g.active
          /\ lines[p] = plan => GapNow(plan, active, path) = g
          /\ g.planned = PlannedHeadsFor(lines[p], path)
      BY DEF GapNow, CountActiveByPath
    <2>3. replanned[p] \/ lines[p] = plan
      BY <1>1, <1>3 DEF ReadInv
    <2> HIDE DEF g
    <2>4. /\ \E h \in held[p] : h[1] = path /\ h[2].active = g.active
          /\ replanned[p] \/ <<path, g>> \in held[p]
          /\ g.planned = PlannedHeadsFor(lines[p], path)
      BY <2>1, <2>2, <2>3
    <2>5. ASSUME NEW q \in DOMAIN gaps'[p]
          PROVE  /\ \E h \in held[p] : h[1] = q /\ h[2].active = gaps'[p][q].active
                 /\ replanned[p] \/ <<q, gaps'[p][q]>> \in held[p]
                 /\ gaps'[p][q].planned = PlannedHeadsFor(lines[p], q)
      <3>1. CASE q = path
        BY <1>5, <2>4, <3>1
      <3>2. CASE q # path
        BY <1>1, <1>5, <2>5, <3>2 DEF TrueGaps
      <3> QED
        BY <3>1, <3>2
    <2> QED
      BY <1>3, <2>5 DEF TrueGaps, PlannedHeadsFor
  <1>9. ReadInv(p)'
    <2>1. Truth(plan, active)' = Truth(plan, active)
      BY <1>3 DEF Truth, GapNow, PlannedHeadsFor
    <2> QED
      BY <1>1, <1>3, <1>6, <2>1 DEF ReadInv
  <1>10. ASSUME reply'[p] = "ok" PROVE Events(p)' = {}
    <2>1. ~Understaffed(g) /\ Events(p) = {}
      BY <1>1, <1>3, <1>6, <1>10 DEF ReadInv
    <2> HIDE DEF g
    <2>2. \A q \in DOMAIN gaps[p] : ~Understaffed(gaps[p][q])
      BY <2>1 DEF Events
    <2>3. \A q \in DOMAIN gaps'[p] : ~Understaffed(gaps'[p][q])
      BY <1>5, <2>1, <2>2
    <2> QED
      BY <2>3 DEF Events, Understaffed
  <1> QED
    BY <1>3, <1>4, <1>6, <1>7, <1>8, <1>9, <1>10, OwnStep

\* The one commit of a read: all its events, under a number no commit has yet.
LEMMA PublishInv == ASSUME IInv, NEW p \in Handlers, Publish(p) PROVE IInv'
  <1> USE DEF Publish, request, tables
  <1> DEFINE row == [by |-> req[p].no, events |-> Events(p)]
             n == Len(outbox)
  <1>1. StaffingTypes /\ CommitsInv /\ TrueGaps(p) /\ ReadInv(p)
    BY Parts
  <1>2. /\ pc'[p] = "idle" /\ pc' \in [Handlers -> {"idle", "exists", "lines", "count", "publish"}]
        /\ reply'[p] \in {"ok", "failed"}
        /\ reply' \in [Handlers -> {"none", "ok", "failed", "rejected", "not_found"}]
        /\ left' \in [Handlers -> SUBSET Paths]
        /\ \A q \in Handlers \ {p} : pc'[q] = pc[q] /\ reply'[q] = reply[q]
    BY <1>1 DEF StaffingTypes, Finish, Goto
  <1>3. /\ outbox' = Append(outbox, row) /\ n \in Nat
        /\ outbox \in Seq({outbox[i] : i \in 1 .. n})
    BY <1>1 DEF StaffingTypes
  <1> HIDE DEF row
  <1>4. /\ Len(outbox') = n + 1 /\ outbox'[n + 1] = row
        /\ \A i \in 1 .. n : outbox'[i] = outbox[i]
        /\ outbox' \in Seq({outbox[i] : i \in 1 .. n} \cup {row})
    BY <1>3
  <1> HIDE DEF n
  <1>5. {outbox[i] : i \in 1 .. n} \cup {row} = {outbox'[i] : i \in 1 .. Len(outbox')}
    BY <1>3, <1>4
  <1>6. StaffingTypes'
    <2>1. outbox' \in Seq({outbox'[i] : i \in 1 .. Len(outbox')})
      BY <1>4, <1>5
    <2> QED
      BY <1>1, <1>2, <2>1 DEF StaffingTypes
  <1>7. row.by = req[p].no /\ row.events = Events(p) /\ row.by \in 1 .. started
    BY <1>1 DEF row, CommitsInv, StaffingTypes
  <1>8. \A i \in 1 .. n : outbox[i].by # row.by
    BY <1>1, <1>7 DEF CommitsInv, Batches, n
  <1>9. Batches(p)' = {n + 1}
    BY <1>3, <1>4, <1>7, <1>8 DEF Batches
  <1>10. ASSUME NEW q \in Handlers, q # p
         PROVE  Batches(q)' = Batches(q) /\ ReadInv(q)' /\ TrueGaps(q)' /\ AnswerInv(q)'
    <2>1. req[q].no # row.by
      BY <1>1, <1>7, <1>10 DEF CommitsInv, StaffingTypes
    <2>2. Batches(q)' = Batches(q) /\ Batches(q) \subseteq 1 .. n
      BY <1>3, <1>4, <2>1 DEF Batches, n
    <2>3. ReadInv(q) /\ TrueGaps(q) /\ AnswerInv(q)
      BY Parts
    <2>4. Truth(plan, active)' = Truth(plan, active) /\ Events(q)' = Events(q)
      BY DEF Truth, GapNow, PlannedHeadsFor, Events
    <2>5. ReadInv(q)'
      BY <1>2, <1>10, <2>3, <2>4 DEF ReadInv
    <2>6. TrueGaps(q)'
      <3>1. TrueGaps(q)' = TrueGaps(q)
        BY DEF TrueGaps, PlannedHeadsFor
      <3> QED
        BY <2>3, <3>1
    <2>7. \A i \in Batches(q)' : outbox'[i].events = Events(q)'
      BY <1>4, <2>2, <2>3, <2>4 DEF AnswerInv
    <2>8. reply'[q] = "ok" /\ req[q].via = "http" /\ Events(q)' # {} => Batches(q)' # {}
      BY <1>2, <1>10, <2>2, <2>3, <2>4 DEF AnswerInv
    <2>9. AnswerInv(q)'
      BY <2>7, <2>8 DEF AnswerInv
    <2> QED
      BY <2>2, <2>5, <2>6, <2>9
  <1>11. ReadInv(p)' /\ TrueGaps(p)' /\ AnswerInv(p)'
    <2>1. ReadInv(p)'
      BY <1>2 DEF ReadInv
    <2>2. TrueGaps(p)'
      BY <1>1 DEF TrueGaps, PlannedHeadsFor
    <2>3. Events(p)' = Events(p)
      BY DEF Events
    <2> QED
      BY <1>4, <1>7, <1>9, <2>1, <2>2, <2>3 DEF AnswerInv
  <1>12. CommitsInv'
    <2>1. \A i \in 1 .. Len(outbox') : outbox'[i].by \in 1 .. started
      BY <1>1, <1>3, <1>4, <1>7 DEF CommitsInv, n
    <2>2. \A i, j \in 1 .. Len(outbox') : outbox'[i].by = outbox'[j].by => i = j
      BY <1>1, <1>3, <1>4, <1>8 DEF CommitsInv, n
    <2>3. \A q \in Handlers : pc'[q] # "idle" => req[q].no # 0 /\ Batches(q)' = {}
      BY <1>1, <1>2, <1>10 DEF CommitsInv
    <2> QED
      BY <1>1, <2>1, <2>2, <2>3 DEF CommitsInv
  <1> QED
    BY <1>6, <1>10, <1>11, <1>12, FromPartsNext

-----------------------------------------------------------------------------
(* The theorems *)

LEMMA NextInv == ASSUME IInv, [Next]_vars PROVE IInv'
  <1>1. CASE UNCHANGED vars
    <2>1. StaffingTypes /\ CommitsInv
          /\ \A p \in Handlers : ReadInv(p) /\ TrueGaps(p) /\ AnswerInv(p)
      BY Parts
    <2>2. \A p \in Handlers :
              ReadInv(p)' /\ TrueGaps(p)' /\ AnswerInv(p)' /\ Batches(p)' = Batches(p)
      BY <1>1, Bystander DEF vars, tables
    <2>3. StaffingTypes'
      BY <1>1, <2>1 DEF vars, StaffingTypes
    <2>4. CommitsInv'
      BY <1>1, <2>1, <2>2 DEF vars, CommitsInv
    <2> QED
      BY <2>2, <2>3, <2>4, FromPartsNext
  <1>2. ASSUME NEW l \in Plans, CommitPlan(l) PROVE IInv'
    BY <1>2, CommitPlanInv
  <1>3. ASSUME NEW a \in Associates, NEW path \in Declared \cup {NoPath}, Move(a, path) PROVE IInv'
    BY <1>3, MoveInv
  <1>4. ASSUME NEW p \in Handlers, Read(p) PROVE IInv'
    <2>1. CASE LogEvents(p) \/ Fail(p)
      BY <2>1, FinishInv DEF LogEvents, Fail
    <2>2. CASE \/ \E path \in Paths : StaffingGapOf(p, path) \/ McpStaffingGap(p, path)
               \/ StaffingGapForShift(p)
      BY <2>2, AskInv DEF StaffingGapOf, McpStaffingGap, StaffingGapForShift
    <2> QED
      BY <1>4, <2>1, <2>2, FindPlanInv, ReadLinesInv, GapForLineInv, PublishInv DEF Read
  <1> QED
    BY <1>1, <1>2, <1>3, <1>4 DEF Next

\* (IInv) While a read is on, its history holds what is true now and its number is in no
\* commit.
THEOREM Invariance == Spec => []IInv
  <1>1. IInv /\ [Next]_vars => IInv'
    BY NextInv
  <1> QED
    BY <1>1, InitInv, PTL DEF Spec

\* (gapForLine) However many plans and assignments are committed while the paths are
\* counted, no gap of an answer is made up.
THEOREM GapsAreNotMadeUp == Spec => []GapsWereTrue
  <1>1. IInv => GapsWereTrue
    BY DEF IInv
  <1> QED
    BY <1>1, Invariance, PTL

\* (GetStaffingGap.publish) The events of a read are committed once, together, and are those
\* of the gaps it answers; a failure leaves all of them or none.
THEOREM EventsFollowAnswers == Spec => []EventsMatchTheAnswer
  <1>1. IInv => EventsMatchTheAnswer
    BY DEF IInv
  <1> QED
    BY <1>1, Invariance, PTL

-----------------------------------------------------------------------------
(* Lists *)

\* What ListsInv says of a list: `rest' are the paths still to count when its handler
\* counts, `n' the assignments that it overlapped.
ListInv(counting, rest, list, n, on) ==
    /\ n \in Nat
    /\ IsFiniteSet(DOMAIN list)
    /\ \A path \in DOMAIN list : list[path].active \in Nat
    /\ counting => rest \cap DOMAIN list = {}
    /\ HeadsCounted(list) - HeadsThere(on, list) \in -n .. n

LEMMA ListByList ==
    ListsInv <=> /\ active \in [Associates -> Paths \cup {NoPath}]
                 /\ moves \in [Handlers -> Nat]
                 /\ \A p \in Handlers :
                        ListInv(pc[p] = "count", left[p], gaps[p], moves[p], active)
  BY DEF ListsInv, ListInv, ListsBlurByMoves

LEMMA ListByListNext ==
    ASSUME active' \in [Associates -> Paths \cup {NoPath}], moves' \in [Handlers -> Nat],
           \A p \in Handlers :
               ListInv(pc'[p] = "count", left'[p], gaps'[p], moves'[p], active')
    PROVE  ListsInv'
  BY DEF ListsInv, ListInv, ListsBlurByMoves

\* The associates on some paths.
On(on, D) == {a \in Associates : on[a] \in D}

LEMMA OnFinite ==
    ASSUME NEW on, NEW D
    PROVE  IsFiniteSet(On(on, D)) /\ Cardinality(On(on, D)) \in Nat
  BY StaffingAssumption, FS_Subset, FS_CardinalityType DEF On

\* The sum of a list is a number.
LEMMA CountedInt ==
    ASSUME NEW list, IsFiniteSet(DOMAIN list), \A path \in DOMAIN list : list[path].active \in Nat
    PROVE  HeadsCounted(list) \in Int
  <1> DEFINE f == [path \in DOMAIN list |-> list[path].active]
  <1>1. HeadsCounted(list) = SumFunctionOnSet(f, DOMAIN list)
    BY DEF HeadsCounted, SumFunction
  <1>2. \A path \in DOMAIN list : f[path] \in Int
    OBVIOUS
  <1> HIDE DEF f
  <1> QED
    BY <1>1, <1>2, SumInt

\* Nothing is counted at the start.
LEMMA NoGapsBlur ==
    ASSUME NEW counting, NEW rest, NEW on
    PROVE  ListInv(counting, rest, NoGaps, 0, on)
  <1> DEFINE f == [path \in DOMAIN NoGaps |-> NoGaps[path].active]
  <1>1. DOMAIN NoGaps = {} /\ DOMAIN f = {}
    BY DEF NoGaps
  <1>2. HeadsCounted(NoGaps) = SumFunctionOnSet(f, {})
    BY <1>1 DEF HeadsCounted, SumFunction
  <1>3. HeadsCounted(NoGaps) = 0
    BY <1>2, SumEmpty
  <1>4. HeadsThere(on, NoGaps) = 0
    <2>1. {a \in Associates : on[a] \in DOMAIN NoGaps} = {}
      BY <1>1
    <2> QED
      BY <2>1, FS_EmptySet DEF HeadsThere
  <1>5. HeadsCounted(NoGaps) - HeadsThere(on, NoGaps) \in -0 .. 0
    BY <1>3, <1>4
  <1> QED
    BY <1>1, <1>5, FS_EmptySet DEF ListInv

\* With one more element there is at most one more.
LEMMA OneMore ==
    ASSUME NEW S, IsFiniteSet(S), NEW T, NEW x, T \subseteq S \cup {x}
    PROVE  Cardinality(T) <= Cardinality(S) + 1
  <1>1. IsFiniteSet(S \cup {x}) /\ T \in SUBSET (S \cup {x})
    BY FS_AddElement
  <1>2. Cardinality(T) <= Cardinality(S \cup {x}) /\ Cardinality(T) \in Nat
    BY <1>1, FS_Subset, FS_CardinalityType
  <1>3. PICK n \in Nat : n = Cardinality(S)
    BY FS_CardinalityType
  <1>4. Cardinality(S \cup {x}) \in {n, n + 1}
    BY <1>3, FS_AddElement
  <1> QED
    BY <1>2, <1>3, <1>4

\* An assignment moves one associate to or from the paths of a list.
LEMMA MoveBlurs ==
    ASSUME NEW counting, NEW rest, NEW list, NEW n, NEW on \in [Associates -> Paths \cup {NoPath}],
           ListInv(counting, rest, list, n, on),
           NEW a \in Associates, NEW path
    PROVE  ListInv(counting, rest, list, n + 1, [on EXCEPT ![a] = path])
  <1> DEFINE D == DOMAIN list
             on2 == [on EXCEPT ![a] = path]
             S == On(on, D)
             T == On(on2, D)
  <1>1. HeadsThere(on, list) = Cardinality(S) /\ HeadsThere(on2, list) = Cardinality(T)
    BY DEF HeadsThere, On
  <1>2. \A b \in Associates : b # a => on2[b] = on[b]
    OBVIOUS
  <1>3. T \subseteq S \cup {a} /\ S \subseteq T \cup {a}
    BY <1>2 DEF On
  <1>4. /\ IsFiniteSet(S) /\ Cardinality(S) \in Nat
        /\ IsFiniteSet(T) /\ Cardinality(T) \in Nat
    BY OnFinite
  <1> HIDE DEF S, T, D, on2
  <1>5. Cardinality(T) <= Cardinality(S) + 1 /\ Cardinality(S) <= Cardinality(T) + 1
    BY <1>3, <1>4, OneMore
  <1>6. /\ n \in Nat
        /\ IsFiniteSet(DOMAIN list)
        /\ \A q \in DOMAIN list : list[q].active \in Nat
        /\ counting => rest \cap DOMAIN list = {}
        /\ HeadsCounted(list) - HeadsThere(on, list) \in -n .. n
    BY DEF ListInv
  <1>7. HeadsCounted(list) \in Int
    BY <1>6, CountedInt
  <1>8. HeadsCounted(list) - HeadsThere(on2, list) \in -(n + 1) .. (n + 1)
    BY <1>1, <1>4, <1>5, <1>6, <1>7
  <1> QED
    BY <1>6, <1>8 DEF ListInv, on2

\* One more path is counted: its heads are those that are there now.
LEMMA CountBlursNothing ==
    ASSUME NEW rest, NEW list, NEW n, NEW on, ListInv(TRUE, rest, list, n, on),
           NEW path \in rest, NEW more, DOMAIN more = DOMAIN list \cup {path},
           more[path].active = CountActiveByPath(on, path),
           \A q \in DOMAIN list \ {path} : more[q] = list[q]
    PROVE  ListInv(TRUE, rest \ {path}, more, n, on)
  <1> DEFINE D == DOMAIN list
             f == [q \in D |-> list[q].active]
             h == [q \in D \cup {path} |-> more[q].active]
             S == On(on, D)
             C == On(on, {path})
             T == On(on, D \cup {path})
  <1>1. /\ n \in Nat
        /\ IsFiniteSet(D)
        /\ \A q \in D : list[q].active \in Nat
        /\ rest \cap D = {}
        /\ HeadsCounted(list) - HeadsThere(on, list) \in -n .. n
    BY DEF ListInv
  <1>2. DOMAIN more = D \cup {path} /\ path \notin D
    BY <1>1
  <1>3. /\ HeadsThere(on, list) = Cardinality(S) /\ HeadsThere(on, more) = Cardinality(T)
        /\ CountActiveByPath(on, path) = Cardinality(C)
    BY <1>2 DEF HeadsThere, CountActiveByPath, On
  <1>4. Cardinality(T) = Cardinality(S) + Cardinality(C)
    <2>1. T = S \cup C /\ S \cap C = {}
      BY <1>2 DEF On
    <2>2. IsFiniteSet(S) /\ IsFiniteSet(C) /\ Cardinality(S) \in Nat /\ Cardinality(C) \in Nat
      BY OnFinite
    <2> HIDE DEF S, T, C
    <2>3. Cardinality(T) = Cardinality(S) + Cardinality(C) - Cardinality({})
      BY <2>1, <2>2, FS_Union
    <2> QED
      BY <2>2, <2>3, FS_EmptySet
  <1>5. Cardinality(S) \in Nat /\ Cardinality(C) \in Nat
    BY OnFinite
  <1>6. more[path].active = Cardinality(C) /\ \A q \in D : more[q] = list[q]
    BY <1>2, <1>3
  <1>7. \A q \in D \cup {path} : more[q].active \in Nat
    BY <1>1, <1>5, <1>6
  <1>8. HeadsCounted(more) = HeadsCounted(list) + Cardinality(C)
    <2>1. /\ HeadsCounted(list) = SumFunctionOnSet(f, D)
          /\ HeadsCounted(more) = SumFunctionOnSet(h, D \cup {path})
      BY <1>2 DEF HeadsCounted, SumFunction
    <2>2. h[path] = Cardinality(C) /\ \A q \in D \cup {path} : h[q] \in Int
      BY <1>6, <1>7
    <2>3. \A q \in D : f[q] = h[q] /\ f[q] \in Int
      BY <1>1, <1>6
    <2> HIDE DEF f, h, D, C
    <2>4. SumFunctionOnSet(h, D \cup {path}) = h[path] + SumFunctionOnSet(h, D)
      BY <1>1, <1>2, <2>2, SumAdd
    <2>5. SumFunctionOnSet(f, D) = SumFunctionOnSet(h, D) /\ SumFunctionOnSet(f, D) \in Int
      BY <1>1, <2>3, SumSame, SumInt
    <2> QED
      BY <1>5, <2>1, <2>2, <2>4, <2>5
  <1>9. HeadsCounted(list) \in Int
    BY <1>1, CountedInt
  <1>10. HeadsCounted(more) - HeadsThere(on, more) \in -n .. n
    <2> HIDE DEF S, C, T
    <2> QED
      BY <1>1, <1>3, <1>4, <1>5, <1>8, <1>9
  <1>11. IsFiniteSet(DOMAIN more) /\ (rest \ {path}) \cap DOMAIN more = {}
    BY <1>1, <1>2, FS_AddElement
  <1> QED
    BY <1>1, <1>2, <1>7, <1>10, <1>11 DEF ListInv

LEMMA InitLists == Init => ListsInv
  <1> SUFFICES ASSUME Init PROVE ListsInv
    OBVIOUS
  <1>1. \A p \in Handlers : gaps[p] = NoGaps /\ moves[p] = 0
    BY DEF Init
  <1>2. active \in [Associates -> Paths \cup {NoPath}] /\ moves \in [Handlers -> Nat]
    BY DEF Init
  <1> QED
    BY <1>1, <1>2, NoGapsBlur, ListByList

\* A step of p leaves the tables and the lists of the others alone: its own list decides.
LEMMA OwnList ==
    ASSUME ListsInv, NEW p \in Handlers, active' = active, moves' \in [Handlers -> Nat],
           \A q \in Handlers \ {p} :
               /\ pc'[q] = pc[q] /\ left'[q] = left[q] /\ gaps'[q] = gaps[q]
               /\ moves'[q] = moves[q],
           ListInv(pc'[p] = "count", left'[p], gaps'[p], moves'[p], active)
    PROVE  ListsInv'
  <1>1. ASSUME NEW q \in Handlers
        PROVE  ListInv(pc'[q] = "count", left'[q], gaps'[q], moves'[q], active')
    <2>1. CASE q = p
      BY <2>1
    <2>2. CASE q # p
      BY <2>2, ListByList
    <2> QED
      BY <2>1, <2>2
  <1> QED
    BY <1>1, ListByList, ListByListNext

\* A step that neither counts nor begins to.
LEMMA SameList ==
    ASSUME NEW counting, NEW rest, NEW list, NEW n, NEW on, ListInv(counting, rest, list, n, on),
           NEW later
    PROVE  ListInv(FALSE, later, list, n, on)
  BY DEF ListInv

LEMMA NextLists == ASSUME IInv, ListsInv, [Next]_vars PROVE ListsInv'
  <1>0. /\ DOMAIN gaps = Handlers
        /\ \A p \in Handlers : ReadInv(p)
        /\ pc \in [Handlers -> {"idle", "exists", "lines", "count", "publish"}]
        /\ left \in [Handlers -> SUBSET Paths]
        /\ active \in [Associates -> Paths \cup {NoPath}] /\ moves \in [Handlers -> Nat]
        /\ \A p \in Handlers : ListInv(pc[p] = "count", left[p], gaps[p], moves[p], active)
    BY ListByList DEF IInv, StaffingTypes
  <1>1. CASE UNCHANGED vars
    BY <1>0, <1>1, ListByListNext DEF vars
  <1>2. ASSUME NEW l \in Plans, CommitPlan(l) PROVE ListsInv'
    BY <1>0, <1>2, ListByListNext DEF CommitPlan, Change
  <1>3. ASSUME NEW a \in Associates, NEW path \in Declared \cup {NoPath}, Move(a, path)
        PROVE  ListsInv'
    <2>1. /\ active' = [active EXCEPT ![a] = path]
          /\ moves' = [p \in Handlers |-> moves[p] + 1]
          /\ UNCHANGED <<pc, left, gaps>>
      BY <1>3 DEF Move, Change
    <2>2. active' \in [Associates -> Paths \cup {NoPath}] /\ moves' \in [Handlers -> Nat]
      BY <1>0, <2>1, StaffingAssumption
    <2>3. \A p \in Handlers :
              ListInv(pc[p] = "count", left[p], gaps[p], moves[p] + 1, [active EXCEPT ![a] = path])
      BY <1>0, MoveBlurs
    <2> QED
      BY <2>1, <2>2, <2>3, ListByListNext
  <1>4. ASSUME NEW p \in Handlers, NEW path, NEW via, Ask(p, path, via) PROVE ListsInv'
    <2>1. /\ active' = active
          /\ gaps' = [gaps EXCEPT ![p] = NoGaps]
          /\ moves' = [moves EXCEPT ![p] = 0]
          /\ \A q \in Handlers \ {p} : pc'[q] = pc[q] /\ left'[q] = left[q]
      BY <1>0, <1>4 DEF Ask, Finish, Goto, tables
    <2>2. ListInv(pc'[p] = "count", left'[p], gaps'[p], moves'[p], active)
      BY <1>0, <2>1, NoGapsBlur
    <2>3. moves' \in [Handlers -> Nat] /\ \A q \in Handlers \ {p} : gaps'[q] = gaps[q]
                                                                  /\ moves'[q] = moves[q]
      BY <1>0, <2>1
    <2> QED
      BY <2>1, <2>2, <2>3, OwnList
  <1>5. ASSUME NEW p \in Handlers,
               FindPlan(p) \/ Publish(p) \/ LogEvents(p) \/ Fail(p)
        PROVE  ListsInv'
    <2>1. /\ active' = active /\ gaps' = gaps /\ moves' = moves
          /\ pc'[p] # "count"
          /\ \A q \in Handlers \ {p} : pc'[q] = pc[q] /\ left'[q] = left[q]
      BY <1>0, <1>5 DEF FindPlan, Publish, LogEvents, Fail, Finish, Goto, tables, request
    <2>2. ListInv(pc'[p] = "count", left'[p], gaps'[p], moves'[p], active)
      BY <1>0, <2>1, SameList
    <2> QED
      BY <1>0, <2>1, <2>2, OwnList
  <1>6. ASSUME NEW p \in Handlers, ReadLines(p) PROVE ListsInv'
    <2>1. /\ active' = active /\ gaps' = gaps /\ moves' = moves
          /\ pc[p] = "lines"
          /\ \A q \in Handlers \ {p} : pc'[q] = pc[q] /\ left'[q] = left[q]
      BY <1>0, <1>6 DEF ReadLines, Goto, tables, request
    <2>2. gaps[p] = NoGaps
      BY <1>0, <2>1 DEF ReadInv
    <2>3. ListInv(pc'[p] = "count", left'[p], gaps'[p], moves'[p], active)
      <3>1. ListInv(pc[p] = "count", left[p], NoGaps, moves[p], active)
        BY <1>0, <2>2
      <3>2. DOMAIN NoGaps = {}
        BY DEF NoGaps
      <3> QED
        BY <2>1, <2>2, <3>1, <3>2 DEF ListInv
    <2> QED
      BY <1>0, <2>1, <2>3, OwnList
  <1>7. ASSUME NEW p \in Handlers, GapForLine(p) PROVE ListsInv'
    <2>1. PICK path \in left[p] :
              LET g == [planned |-> PlannedHeadsFor(lines[p], path),
                        active |-> CountActiveByPath(active, path)]
              IN  /\ gaps' = [gaps EXCEPT ![p] = [q \in DOMAIN @ \cup {path} |->
                                                      IF q = path THEN g ELSE @[q]]]
                  /\ \/ left' = [left EXCEPT ![p] = @ \ {path}] /\ pc' = pc
                     \/ pc'[p] # "count" /\ \A q \in Handlers \ {p} : pc'[q] = pc[q]
                                                                    /\ left'[q] = left[q]
      BY <1>0, <1>7 DEF GapForLine, Finish, Goto
    <2>2. active' = active /\ moves' = moves /\ pc[p] = "count"
      BY <1>7 DEF GapForLine, tables, request
    <2> DEFINE g == [planned |-> PlannedHeadsFor(lines[p], path),
                     active |-> CountActiveByPath(active, path)]
               more == [q \in DOMAIN gaps[p] \cup {path} |-> IF q = path THEN g ELSE gaps[p][q]]
    <2>3. gaps'[p] = more /\ \A q \in Handlers \ {p} : gaps'[q] = gaps[q]
      BY <1>0, <2>1
    <2>4. /\ DOMAIN more = DOMAIN gaps[p] \cup {path}
          /\ more[path].active = CountActiveByPath(active, path)
          /\ \A q \in DOMAIN gaps[p] \ {path} : more[q] = gaps[p][q]
      OBVIOUS
    <2>5. ListInv(TRUE, left[p], gaps[p], moves[p], active) /\ path \in left[p]
      BY <1>0, <2>2 DEF ListInv
    <2>6. ListInv(TRUE, left[p] \ {path}, more, moves[p], active)
      <3> HIDE DEF more
      <3> QED
        BY <2>4, <2>5, CountBlursNothing
    <2> HIDE DEF more
    <2>7. /\ pc'[p] = "count" => left'[p] = left[p] \ {path}
          /\ \A q \in Handlers \ {p} : pc'[q] = pc[q] /\ left'[q] = left[q]
      BY <1>0, <2>1
    <2>8. ListInv(pc'[p] = "count", left'[p], gaps'[p], moves'[p], active)
      BY <2>2, <2>3, <2>6, <2>7 DEF ListInv
    <2> QED
      BY <1>0, <2>2, <2>3, <2>7, <2>8, OwnList
  <1>8. ASSUME NEW p \in Handlers, Read(p) PROVE ListsInv'
    BY <1>4, <1>5, <1>6, <1>7, <1>8
       DEF Read, StaffingGapOf, McpStaffingGap, StaffingGapForShift
  <1> QED
    BY <1>1, <1>2, <1>3, <1>8 DEF Next

\* (ExecuteAll) Whatever moves while its paths are counted one after the other, a list of
\* any length is off by no more heads than the assignments it overlapped.
THEOREM ListsAreNearlyTrue == Spec => []ListsBlurByMoves
  <1>1. IInv /\ ListsInv /\ [Next]_vars => ListsInv'
    BY NextLists
  <1>2. ListsInv => ListsBlurByMoves
    BY DEF ListsInv
  <1> QED
    BY <1>1, <1>2, InitLists, Invariance, PTL DEF Spec

=============================================================================
