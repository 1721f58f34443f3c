----------------------------- MODULE LaborRoster -----------------------------
(***************************************************************************)
(* The roster use cases (internal/application/usecases) run by concurrent  *)
(* request handlers of any number of replicas over one Postgres database.  *)
(*                                                                         *)
(* A handler reads rows OUTSIDE a transaction (each SELECT is a step: what *)
(* it read may be stale in the next one), decides in memory, and then runs *)
(* one READ COMMITTED transaction (UnitOfWork.Execute): a version-guarded  *)
(* upsert per changed row, the outbox insert, the commit.  An upsert takes *)
(* the row lock and keeps it to the end of the transaction, so a second    *)
(* writer of that row waits and then checks the committed version.  Writes *)
(* become visible at the commit.  FindByAssociateID is two SELECTs.        *)
(***************************************************************************)
EXTENDS RosterDomain

CONSTANTS
    Handlers,     \* request goroutines, over all replicas
    MaxRequests,  \* bound: requests started in a behaviour
    NoPath,       \* a request or an event without a path
    NoCall,       \* a handler that serves no request
    NoOne         \* a row nobody has locked

ASSUME RosterAssumption ==
    /\ MaxRequests \in Nat
    /\ NoOne \notin Handlers
    /\ NoPath \notin Paths

VARIABLES
    shift,    \* table associate_shift: shift[a] = NoRow or [agg, version]
    la,       \* table labor_assignment: la[a] = NoRow or [active, version]
    hist,     \* table labor_assignment_history: hist[a], in id order
    outbox,   \* table outbox_events, rows in the order of their commits
    lastId,   \* the BIGSERIAL of outbox_events: never rolled back
    lock,     \* lock[<<t, a>>]: the handler whose transaction wrote the row
    now,      \* the wall clock, the same for all replicas
    pc,       \* pc[p]: the next step of handler p
    call,     \* call[p]: the request p serves
    mem,      \* mem[p]: what p has read, at its own time
    todo,     \* todo[p]: the Saves left in p's transaction
    reply,    \* reply[p]: how p's last request ended
    started   \* requests started so far

db == <<shift, la, hist, outbox>>
handler == <<pc, call, mem, todo, reply>>
vars == <<shift, la, hist, outbox, lastId, lock, now, pc, call, mem, todo, reply, started>>

-----------------------------------------------------------------------------
Ops == {"Start", "Certify", "StartBreak", "EndBreak", "Assign", "End"}
Tables == {"shift", "la"}
Replies == {"none", "ok", "not_found", "rejected", "conflict", "failed"}

ShiftRow == [agg : Shift, version : Nat]
LaRow == [active : Interval \cup {NoInterval}, version : Nat]
Call == [op : Ops, who : Associates, path : Paths \cup {NoPath}, certs : SUBSET Paths]
Mem == [shift : ShiftRow \cup {NoRow}, la : LaRow \cup {NoRow},
        hist : Seq(Closed), at : Times, id : Nat]

EventTypes == {"AssociateShiftStarted", "AssociateCertified", "AssociateBreakStarted",
               "AssociateBreakEnded", "AssociateShiftEnded", "LaborAssigned", "LaborReassigned"}
Event == [id : Nat, key : Associates, type : EventTypes, path : Paths \cup {NoPath}]

ASSUME NoValueAssumption ==
    /\ NoRow \notin ShiftRow
    /\ NoRow \notin LaRow
    /\ NoCall \notin Call

EmptyMem == [shift |-> NoRow, la |-> NoRow, hist |-> << >>, at |-> 0, id |-> 0]

Init ==
    /\ shift = [a \in Associates |-> NoRow]
    /\ la = [a \in Associates |-> NoRow]
    /\ hist = [a \in Associates |-> << >>]
    /\ outbox = << >>
    /\ lastId = 0
    /\ lock = [r \in Tables \X Associates |-> NoOne]
    /\ now = 0
    /\ pc = [p \in Handlers |-> "idle"]
    /\ call = [p \in Handlers |-> NoCall]
    /\ mem = [p \in Handlers |-> EmptyMem]
    /\ todo = [p \in Handlers |-> << >>]
    /\ reply = [p \in Handlers |-> "none"]
    /\ started = 0

-----------------------------------------------------------------------------
(* What a handler computes from its request and from what it has read *)

Request(op, a, path, certs) == [op |-> op, who |-> a, path |-> path, certs |-> certs]

\* The active interval of the LaborAssignment p has read (or NewLaborAssignment).
ActiveRead(p) == IF mem[p].la = NoRow THEN NoInterval ELSE mem[p].la.active

\* The hours LogHours is called with when that interval is closed at `at'.
ClosingHours(p, at) == Hours(CloseAt(ActiveRead(p), at))

\* The AssociateShift p saves.
NewShift(p) ==
    LET s == mem[p].shift.agg
        logged == IF ActiveRead(p) = NoInterval THEN s
                  ELSE LogHours(s, ClosingHours(p, mem[p].at))
    IN  CASE call[p].op = "Start"      -> NewAssociateShift(call[p].certs)
          [] call[p].op = "Certify"    -> Certify(s, call[p].path)
          [] call[p].op = "StartBreak" -> StartBreak(s)
          [] call[p].op = "EndBreak"   -> EndBreak(s)
          [] call[p].op = "Assign"     -> logged
          [] call[p].op = "End"        -> EndShift(logged)

\* The LaborAssignment p saves: its active interval and its history.
NewActive(p) ==
    IF call[p].op = "Assign" THEN [path |-> call[p].path, start |-> mem[p].at] ELSE NoInterval

\* Mutant: Save inserts the history without deleting the stored one.
NewHistNotDeleted(p) ==
    hist[call[p].who] \o CloseActive(ActiveRead(p), mem[p].hist, mem[p].at)

NewHist(p) == CloseActive(ActiveRead(p), mem[p].hist, mem[p].at)

\* The domain event of the request; ending an ended shift raises none.  Its row names
\* the associate and, for some types, a path: what a shift started with is on no row.
Raises(p) == call[p].op = "End" => ~mem[p].shift.agg.ended
EventType(p) ==
    CASE call[p].op = "Start"      -> "AssociateShiftStarted"
      [] call[p].op = "Certify"    -> "AssociateCertified"
      [] call[p].op = "StartBreak" -> "AssociateBreakStarted"
      [] call[p].op = "EndBreak"   -> "AssociateBreakEnded"
      [] call[p].op = "End"        -> "AssociateShiftEnded"
      [] call[p].op = "Assign"     ->
            IF ActiveRead(p) = NoInterval THEN "LaborAssigned" ELSE "LaborReassigned"
NewEvent(p) ==
    [id |-> mem[p].id, key |-> call[p].who, type |-> EventType(p), path |-> call[p].path]

\* Mutant: an upsert without its WHERE clause.
VersionIgnored(p, t) == TRUE

\* The WHERE clause of the upsert: a missing row is inserted whatever was read;
\* an existing one is updated when it still has the version the aggregate
\* carries, which is 1 for a fresh aggregate.
VersionMatches(p, t) ==
    LET a == call[p].who
        row == IF t = "shift" THEN shift[a] ELSE la[a]
        read == IF t = "shift" THEN mem[p].shift ELSE mem[p].la
    IN  row # NoRow => row.version = (IF read = NoRow THEN 1 ELSE read.version)

\* Mutant: the DO UPDATE arm keeps the version.
VersionKept(row) == IF row = NoRow THEN 1 ELSE row.version

\* INSERT ... VALUES (..., 1) or version = version + 1.
NextVersion(row) == IF row = NoRow THEN 1 ELSE row.version + 1

-----------------------------------------------------------------------------
(* Steps of a handler *)

\* The handler answers and forgets what it read; its transaction, if any, is over.
Finish(p, r) ==
    /\ pc' = [pc EXCEPT ![p] = "idle"]
    /\ call' = [call EXCEPT ![p] = NoCall]
    /\ mem' = [mem EXCEPT ![p] = EmptyMem]
    /\ todo' = [todo EXCEPT ![p] = << >>]
    /\ reply' = [reply EXCEPT ![p] = r]

Release(p) == lock' = [r \in DOMAIN lock |-> IF lock[r] = p THEN NoOne ELSE lock[r]]

\* The first step of every use case: FindByID and the checks on what it read.
Receive(p, c, accepted, next, saves) ==
    /\ pc[p] = "idle"
    /\ started < MaxRequests
    /\ started' = started + 1
    /\ IF accepted
       THEN /\ pc' = [pc EXCEPT ![p] = next]
            /\ call' = [call EXCEPT ![p] = c]
            /\ mem' = [mem EXCEPT ![p].shift = shift[c.who]]
            /\ todo' = [todo EXCEPT ![p] = saves]
            /\ reply' = [reply EXCEPT ![p] = "none"]
       ELSE Finish(p, IF shift[c.who] = NoRow THEN "not_found" ELSE "rejected")
    /\ UNCHANGED <<db, lastId, lock, now>>

Found(a) == shift[a] # NoRow

StartAssociateShift(p, a, certs) ==
    Receive(p, Request("Start", a, NoPath, certs), TRUE, "save", <<"shift">>)

CertifyAssociate(p, a, c) ==
    Receive(p, Request("Certify", a, c, {}),
            Found(a) /\ CanCertify(shift[a].agg), "save", <<"shift">>)

StartAssociateBreak(p, a) ==
    Receive(p, Request("StartBreak", a, NoPath, {}),
            Found(a) /\ CanStartBreak(shift[a].agg), "save", <<"shift">>)

EndAssociateBreak(p, a) ==
    Receive(p, Request("EndBreak", a, NoPath, {}),
            Found(a) /\ CanEndBreak(shift[a].agg), "save", <<"shift">>)

AssignLabor(p, a, path) ==
    Receive(p, Request("Assign", a, path, {}),
            Found(a) /\ CanBeAssigned(shift[a].agg), "row", << >>)

EndAssociateShift(p, a) ==
    Receive(p, Request("End", a, NoPath, {}), Found(a), "clock", << >>)

\* EndAssociateShift reads the clock before it reads the assignment.
ReadClock(p) ==
    /\ pc[p] = "clock"
    /\ mem' = [mem EXCEPT ![p].at = now]
    /\ pc' = [pc EXCEPT ![p] = "row"]
    /\ UNCHANGED <<db, lastId, lock, now, call, todo, reply, started>>

\* FindByAssociateID, first query: the row.
FindAssignment(p) ==
    /\ pc[p] = "row"
    /\ mem' = [mem EXCEPT ![p].la = la[call[p].who]]
    /\ pc' = [pc EXCEPT ![p] = IF la[call[p].who] = NoRow THEN "decide" ELSE "history"]
    /\ UNCHANGED <<db, lastId, lock, now, call, todo, reply, started>>

\* FindByAssociateID, second query: the history, perhaps of a later version.
FindHistory(p) ==
    /\ pc[p] = "history"
    /\ mem' = [mem EXCEPT ![p].hist = hist[call[p].who]]
    /\ pc' = [pc EXCEPT ![p] = "decide"]
    /\ UNCHANGED <<db, lastId, lock, now, call, todo, reply, started>>

\* AssignLabor in memory: Assign, then LogHours when an interval was closed; the
\* shift is saved only in that case.
DecideAssign(p) ==
    LET closes == ActiveRead(p) # NoInterval
    IN  /\ pc[p] = "decide"
        /\ call[p].op = "Assign"
        /\ IF /\ call[p].path \in mem[p].shift.agg.certs
              /\ closes => CanLogHours(mem[p].shift.agg, ClosingHours(p, now))
           THEN /\ mem' = [mem EXCEPT ![p].at = now]
                /\ todo' = [todo EXCEPT ![p] = IF closes THEN <<"shift", "la">> ELSE <<"la">>]
                /\ pc' = [pc EXCEPT ![p] = "save"]
                /\ UNCHANGED <<call, reply>>
           ELSE Finish(p, "rejected")
        /\ UNCHANGED <<db, lastId, lock, now, started>>

\* EndAssociateShift in memory: EndActive and LogHours, then EndShift; the
\* assignment is saved only when an interval was closed, and first.
DecideEnd(p) ==
    LET closes == ActiveRead(p) # NoInterval
    IN  /\ pc[p] = "decide"
        /\ call[p].op = "End"
        /\ IF closes => CanLogHours(mem[p].shift.agg, ClosingHours(p, mem[p].at))
           THEN /\ todo' = [todo EXCEPT ![p] = IF closes THEN <<"la", "shift">> ELSE <<"shift">>]
                /\ pc' = [pc EXCEPT ![p] = "save"]
                /\ UNCHANGED <<call, mem, reply>>
           ELSE Finish(p, "rejected")
        /\ UNCHANGED <<db, lastId, lock, now, started>>

\* One Save: the upsert takes the row lock and finds the version it expects.
Save(p) ==
    /\ pc[p] = "save"
    /\ lock[<<Head(todo[p]), call[p].who>>] = NoOne
    /\ VersionMatches(p, Head(todo[p]))
    /\ lock' = [lock EXCEPT ![<<Head(todo[p]), call[p].who>>] = p]
    /\ todo' = [todo EXCEPT ![p] = Tail(@)]
    /\ pc' = [pc EXCEPT ![p] = IF Tail(todo[p]) = << >> THEN "publish" ELSE "save"]
    /\ UNCHANGED <<db, lastId, now, call, mem, reply, started>>

\* The upsert affects no row: ErrConcurrentModification rolls the unit of work back.
Conflict(p) ==
    /\ pc[p] = "save"
    /\ lock[<<Head(todo[p]), call[p].who>>] = NoOne
    /\ ~VersionMatches(p, Head(todo[p]))
    /\ Release(p)
    /\ Finish(p, "conflict")
    /\ UNCHANGED <<db, lastId, now, started>>

\* OutboxPublisher.Publish inside the transaction: the row's id is drawn here.
Publish(p) ==
    /\ pc[p] = "publish"
    /\ IF Raises(p)
       THEN /\ lastId' = lastId + 1
            /\ mem' = [mem EXCEPT ![p].id = lastId + 1]
       ELSE UNCHANGED <<lastId, mem>>
    /\ pc' = [pc EXCEPT ![p] = "commit"]
    /\ UNCHANGED <<db, lock, now, call, todo, reply, started>>

\* The commit: every row p has locked gets its new value, the event is visible.
\* The answer to COMMIT may be lost: the caller is told it failed.
Commit(p) ==
    LET a == call[p].who
    IN  /\ pc[p] = "commit"
        /\ shift' = IF lock[<<"shift", a>>] = p
                    THEN [shift EXCEPT ![a] = [agg |-> NewShift(p), version |-> NextVersion(@)]]
                    ELSE shift
        /\ IF lock[<<"la", a>>] = p
           THEN /\ la' = [la EXCEPT ![a] = [active |-> NewActive(p), version |-> NextVersion(@)]]
                /\ hist' = [hist EXCEPT ![a] = NewHist(p)]
           ELSE UNCHANGED <<la, hist>>
        /\ outbox' = IF Raises(p) THEN Append(outbox, NewEvent(p)) ELSE outbox
        /\ Release(p)
        /\ \E r \in {"ok", "failed"} : Finish(p, r)
        /\ UNCHANGED <<lastId, now, started>>

\* p waits for the row q has locked.
WaitsFor(p, q) == pc[p] = "save" /\ lock[<<Head(todo[p]), call[p].who>>] = q

\* Postgres aborts one transaction of a cycle of waiting ones (SQLSTATE 40P01).
DeadlockVictim(p) ==
    /\ \E q \in Handlers \ {p} : WaitsFor(p, q) /\ WaitsFor(q, p)
    /\ Release(p)
    /\ Finish(p, "failed")
    /\ UNCHANGED <<db, lastId, now, started>>

\* Mutant: the outbox insert is not part of the transaction that is rolled back.
FailAfterPublish(p) ==
    /\ pc[p] # "idle"
    /\ outbox' = IF pc[p] = "commit" /\ Raises(p) THEN Append(outbox, NewEvent(p)) ELSE outbox
    /\ Release(p)
    /\ Finish(p, "failed")
    /\ UNCHANGED <<shift, la, hist, lastId, now, started>>

\* Mutant: Execute returns an error of fn without rolling back.
FailWithoutRollback(p) ==
    /\ pc[p] # "idle"
    /\ Finish(p, "failed")
    /\ UNCHANGED <<db, lastId, lock, now, started>>

\* The replica crashes, the client goes away or a statement fails: whatever the
\* step, the transaction is rolled back.
Fail(p) ==
    /\ pc[p] # "idle"
    /\ Release(p)
    /\ Finish(p, "failed")
    /\ UNCHANGED <<db, lastId, now, started>>

Tick ==
    /\ now < MaxTime
    /\ now' = now + 1
    /\ UNCHANGED <<db, lastId, lock, handler, started>>

-----------------------------------------------------------------------------
Arrive(p) ==
    \E a \in Associates :
        \/ \E certs \in SUBSET Paths : StartAssociateShift(p, a, certs)
        \/ \E c \in Paths : CertifyAssociate(p, a, c)
        \/ StartAssociateBreak(p, a)
        \/ EndAssociateBreak(p, a)
        \/ \E path \in Paths : AssignLabor(p, a, path)
        \/ EndAssociateShift(p, a)

Work(p) ==
    \/ ReadClock(p) \/ FindAssignment(p) \/ FindHistory(p)
    \/ DecideAssign(p) \/ DecideEnd(p)
    \/ Save(p) \/ Conflict(p) \/ Publish(p) \/ Commit(p) \/ DeadlockVictim(p)

Next == Tick \/ \E p \in Handlers : Arrive(p) \/ Work(p) \/ Fail(p)

Spec == Init /\ [][Next]_vars

\* A handler goroutine keeps running and Postgres detects deadlocks; requests
\* need not arrive, failures need not happen.
FairSpec == Spec /\ \A p \in Handlers : WF_vars(Work(p))

-----------------------------------------------------------------------------
(* The outbox replayed *)

ShiftEvents == {"AssociateShiftStarted", "AssociateCertified", "AssociateBreakStarted",
                "AssociateBreakEnded", "AssociateShiftEnded"}

\* The committed rows of outbox_events, and those of one associate's shift.
Rows == {outbox[i] : i \in 1 .. Len(outbox)}
ShiftRows(a) == {e \in Rows : e.key = a /\ e.type \in ShiftEvents}

\* A consumer's view of a shift after one more event: its certifications are those
\* gained since the shift started, and no event tells the hours.
Apply(s, e) ==
    CASE e.type = "AssociateShiftStarted" -> NewAssociateShift({})
      [] e.type = "AssociateCertified"    -> Certify(s, e.path)
      [] e.type = "AssociateBreakStarted" -> StartBreak(s)
      [] e.type = "AssociateBreakEnded"   -> EndBreak(s)
      [] e.type = "AssociateShiftEnded"   -> EndShift(s)

\* The view after the id n, which no row or one row has.
RowsAt(rows, n) == {e \in rows : e.id = n}
TheRow(T) == CHOOSE e \in T : TRUE
Stepped(rows, n, s) ==
    IF RowsAt(rows, n) = {} THEN s ELSE Apply(s, TheRow(RowsAt(rows, n)))

\* The view after the ids 1 .. last, read in their order.
Replay(rows, last) ==
    LET view[n \in 0 .. last] ==
            IF n = 0 THEN NewAssociateShift({}) ELSE Stepped(rows, n, view[n - 1])
    IN  view[last]

\* A shift and the view of it: besides the certifications of the view the shift has
\* those it started with.
SeenAs(s, view) ==
    /\ view.certs \subseteq s.certs
    /\ view.onBreak = s.onBreak
    /\ view.ended = s.ended

-----------------------------------------------------------------------------
(* Properties *)

\* The values of the tables, the outbox and the handlers: the history holds closed
\* intervals only, and a handler waits for one of the steps of its use case.
TypeOK ==
    /\ shift \in [Associates -> ShiftRow \cup {NoRow}]
    /\ la \in [Associates -> LaRow \cup {NoRow}]
    /\ hist \in [Associates -> Seq(Closed)]
    /\ outbox \in Seq(Event)
    /\ lastId \in Nat
    /\ lock \in [Tables \X Associates -> Handlers \cup {NoOne}]
    /\ now \in Times
    /\ pc \in [Handlers -> {"idle", "clock", "row", "history", "decide",
                            "save", "publish", "commit"}]
    /\ call \in [Handlers -> Call \cup {NoCall}]
    /\ mem \in [Handlers -> Mem]
    /\ todo \in [Handlers -> Seq(Tables)]
    /\ reply \in [Handlers -> Replies]
    /\ started \in 0 .. MaxRequests

\* (associate_shift, ADR 0021) Seen without its version, every associate's row is
\* the atomic object of AtomicShift: although handlers read outside the
\* transaction, each committed change is one domain method applied to the row's
\* latest value, so no update of a shift is lost.
ShiftObject == [a \in Associates |-> IF shift[a] = NoRow THEN NoRow ELSE shift[a].agg]
AtomicShifts == INSTANCE AtomicShift WITH object <- ShiftObject
ShiftIsAtomic == AtomicShifts!Spec

\* (labor_assignment, ADR 0021) The same claim for the assignment row with its
\* history.  It does not hold: two handlers that both find no row both carry the
\* fresh version 1, and the second upsert overwrites the interval the first stored.
AssignmentObject ==
    [a \in Associates |-> IF la[a] = NoRow THEN NoRow
                          ELSE [active |-> la[a].active, history |-> hist[a]]]
AtomicAssignments == INSTANCE AtomicAssignment WITH object <- AssignmentObject
AssignmentIsAtomic == AtomicAssignments!Spec

\* (AssignmentRepo.Save, closeActive) The history table is deleted and rewritten
\* from what the handler read in a query of its own, yet the only change it ever
\* sees is one more interval at its end: the one the row held, closed.
HistoryGrowsByClosing ==
    [][\A a \in Associates : hist'[a] # hist[a] =>
        /\ la[a] # NoRow
        /\ la[a].active # NoInterval
        /\ \E at \in Times : hist'[a] = Append(hist[a], CloseAt(la[a].active, at))]_vars

\* (AssignLabor, EndAssociateShift) The shift's hours and the history move
\* together: an interval enters the history in the very commit that adds its
\* hours to the shift, and without one the hours only go back to 0 with a
\* (re)started shift.
HoursFollowHistory ==
    [][\A a \in Associates :
        IF hist'[a] # hist[a]
        THEN shift'[a].agg.hours = shift[a].agg.hours + Hours(hist'[a][Len(hist'[a])])
        ELSE shift'[a] # shift[a] =>
                \/ shift'[a].agg = NewAssociateShift(shift'[a].agg.certs)
                \/ shift'[a].agg.hours = shift[a].agg.hours]_vars

\* (invariants.md, "No double-booking across paths, ever") The intervals of an
\* associate follow one another: none starts before the one before it ended.
IntervalsInOrder ==
    \A a \in Associates :
        /\ \A i \in 1 .. Len(hist[a]) - 1 : hist[a][i].end <= hist[a][i + 1].start
        /\ (la[a] # NoRow /\ la[a].active # NoInterval /\ hist[a] # << >>)
              => hist[a][Len(hist[a])].end <= la[a].active.start

\* (ADR 0016, OutboxPublisher.Publish in the unit of work) The outbox and the row
\* cannot diverge: the events of an associate, replayed in id order, give the break
\* state and the end of the committed shift, and only certifications it has.  The row
\* of AssociateShiftStarted carries the associate alone, so those given at the start
\* are not among them.
OutboxReplaysToShift ==
    \A a \in Associates :
        IF shift[a] = NoRow THEN \A e \in Rows : e.key # a
        ELSE SeenAs(shift[a].agg, Replay(ShiftRows(a), lastId))

\* (UnitOfWork.Execute) Every request is answered: conflicts, rollbacks and
\* Postgres' deadlock detector leave no handler waiting for a row for ever.
EveryRequestIsAnswered == \A p \in Handlers : pc[p] # "idle" ~> pc[p] = "idle"

-----------------------------------------------------------------------------
(* The inductive invariant of LaborRosterProofs *)

\* What p has read of a row it still knows the version of is what the table holds.
CurrentRead(p) ==
    LET a == call[p].who
    IN  /\ mem[p].shift # NoRow =>
            /\ shift[a] # NoRow
            /\ mem[p].shift.version <= shift[a].version
            /\ mem[p].shift.version = shift[a].version => mem[p].shift = shift[a]
        /\ mem[p].la # NoRow =>
            /\ la[a] # NoRow
            /\ mem[p].la.version <= la[a].version
            /\ mem[p].la.version = la[a].version =>
                  /\ mem[p].la = la[a]
                  /\ pc[p] # "history" => mem[p].hist = hist[a]

\* (SELECT ... version) A version names one value: a handler whose read still has
\* the row's version holds exactly what the table holds, and, once the history is
\* read too, the history of that very version.  A torn read of row and history is
\* always behind the row.
VersionNamesTheValue == \A p \in Handlers : pc[p] # "idle" => CurrentRead(p)

\* Versions count from 1, and a row inserted but never updated has no history.
RowsStartEmpty ==
    \A a \in Associates :
        /\ shift[a] # NoRow => shift[a].version >= 1
        /\ la[a] # NoRow => la[a].version >= 1
        /\ (la[a] = NoRow \/ la[a].version = 1) => hist[a] = << >>

\* The Saves a decided request makes, in their order.
Plan(p) ==
    LET closes == ActiveRead(p) # NoInterval
    IN  CASE call[p].op = "Assign" -> IF closes THEN <<"shift", "la">> ELSE <<"la">>
          [] call[p].op = "End"    -> IF closes THEN <<"la", "shift">> ELSE <<"shift">>
          [] OTHER                 -> <<"shift">>

\* What a handler may hold at each of its steps.
HandlerInv(p) ==
    /\ pc[p] = "idle" => mem[p] = EmptyMem
    /\ pc[p] # "idle" =>
        /\ call[p] \in Call
        /\ call[p].op \in {"Certify", "Assign"} => call[p].path \in Paths
        /\ call[p].op # "Start" => mem[p].shift # NoRow
        /\ call[p].op \notin {"Assign", "End"} => mem[p].la = NoRow
        /\ mem[p].la = NoRow => mem[p].hist = << >>
    /\ pc[p] = "clock" => call[p].op = "End"
    /\ pc[p] \in {"row", "history", "decide"} => call[p].op \in {"Assign", "End"}
    /\ pc[p] \in {"clock", "row"} => mem[p].la = NoRow
    /\ pc[p] = "history" => mem[p].la # NoRow
    /\ pc[p] \in {"save", "publish", "commit"} =>
        LET s == mem[p].shift.agg
        IN  /\ call[p].op = "Certify" => CanCertify(s)
            /\ call[p].op = "StartBreak" => CanStartBreak(s)
            /\ call[p].op = "EndBreak" => CanEndBreak(s)
            /\ ActiveRead(p) # NoInterval => CanLogHours(s, ClosingHours(p, mem[p].at))

\* The locks a handler holds are those of the Saves it has made.
Holds(p, t) == lock[<<t, call[p].who>>] = p
SavesInv(p) ==
    /\ pc[p] = "save" =>
        \/ todo[p] = Plan(p) /\ ~Holds(p, "shift") /\ ~Holds(p, "la")
        \/ Plan(p) = <<"shift", "la">> /\ todo[p] = <<"la">> /\ Holds(p, "shift") /\ ~Holds(p, "la")
        \/ Plan(p) = <<"la", "shift">> /\ todo[p] = <<"shift">> /\ Holds(p, "la") /\ ~Holds(p, "shift")
    /\ pc[p] \in {"publish", "commit"} => \A t \in Tables :
        Holds(p, t) <=> (t = "shift" /\ Plan(p) # <<"la">>) \/ (t = "la" /\ Plan(p) # <<"shift">>)

\* A lock belongs to a running transaction whose version check still holds.
LocksInv ==
    \A t \in Tables, a \in Associates : lock[<<t, a>>] # NoOne =>
        LET p == lock[<<t, a>>]
        IN  /\ pc[p] \in {"save", "publish", "commit"}
            /\ call[p].who = a
            /\ VersionMatches(p, t)

IInv ==
    /\ TypeOK
    /\ VersionNamesTheValue
    /\ RowsStartEmpty
    /\ \A p \in Handlers : HandlerInv(p) /\ SavesInv(p)
    /\ LocksInv

\* An assignment whose interval has been opened in memory.
Opening(p) == pc[p] \in {"save", "publish", "commit"} /\ call[p].op = "Assign"

EndedBy(history, t) == \A i \in 1 .. Len(history) : history[i].end <= t

\* No time read is later than the clock, and an interval is opened after the end of all
\* those its handler has read.
TimesInv ==
    /\ \A a \in Associates : EndedBy(hist[a], now)
    /\ \A p \in Handlers :
        /\ mem[p].at <= now
        /\ EndedBy(mem[p].hist, now)
        /\ Opening(p) => EndedBy(mem[p].hist, mem[p].at)

OrderInv == IInv /\ TimesInv /\ IntervalsInOrder

\* The ids of the rows have been drawn, and a handler about to commit an event of a
\* shift has drawn one after those of all the shift's rows: it drew it under the lock.
ReplaysInv ==
    /\ \A e \in Rows : e.id \in 1 .. lastId
    /\ \A p \in Handlers : pc[p] = "commit" /\ Raises(p) =>
        /\ mem[p].id \in 1 .. lastId
        /\ call[p].op # "Assign" => \A e \in ShiftRows(call[p].who) : e.id < mem[p].id
    /\ OutboxReplaysToShift

=============================================================================
