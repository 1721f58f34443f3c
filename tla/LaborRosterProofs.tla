-------------------------- MODULE LaborRosterProofs --------------------------
(***************************************************************************)
(* Proofs about LaborRoster, for any sets of associates, paths and         *)
(* handlers.  Section one shows that every step keeps IInv, one lemma per  *)
(* step; section two what a commit writes, given IInv; the theorems follow *)
(* from both.  The key of the argument is VersionNamesTheValue: together   *)
(* with the row lock it makes the version check of an upsert a proof that  *)
(* the handler decided on the row's present value.  The last sections      *)
(* replay the outbox: its ids are drawn under the lock of the shift's row. *)
(***************************************************************************)
EXTENDS LaborRoster, SumLemmas

-----------------------------------------------------------------------------
(* The steps keep the inductive invariant *)

\* An empty database with idle handlers satisfies the invariant.
LEMMA InitInv == Init => IInv
  <1> SUFFICES ASSUME Init PROVE IInv
    OBVIOUS
  <1> USE DomainAssumption, RosterAssumption, NoValueAssumption, NilAssumption
  <1>1. TypeOK
    BY DEF Init, TypeOK, EmptyMem, Mem, Times, Tables, Replies
  <1>2. VersionNamesTheValue /\ RowsStartEmpty
    BY DEF Init, VersionNamesTheValue, RowsStartEmpty
  <1>3. \A p \in Handlers : HandlerInv(p) /\ SavesInv(p)
    BY DEF Init, HandlerInv, SavesInv
  <1>4. LocksInv
    BY DEF Init, LocksInv
  <1>. QED
    BY <1>1, <1>2, <1>3, <1>4 DEF IInv

\* What a handler may hold depends on its own state only.
LEMMA HandlerFrame ==
    ASSUME NEW q \in Handlers, HandlerInv(q),
           pc'[q] = pc[q], call'[q] = call[q], mem'[q] = mem[q]
    PROVE  HandlerInv(q)'
  BY DEF HandlerInv, ActiveRead, ClosingHours

\* The locks a handler holds match its Saves as long as neither changes.
LEMMA SavesFrame ==
    ASSUME NEW q \in Handlers, SavesInv(q),
           pc'[q] = pc[q], call'[q] = call[q], mem'[q].la = mem[q].la, todo'[q] = todo[q],
           pc[q] # "idle" => \A t \in Tables :
               (lock'[<<t, call[q].who>>] = q) <=> (lock[<<t, call[q].who>>] = q)
    PROVE  SavesInv(q)'
  <1>1. Plan(q)' = Plan(q)
    BY DEF Plan, ActiveRead
  <1>2. pc[q] # "idle" => \A t \in Tables : Holds(q, t)' <=> Holds(q, t)
    BY DEF Holds
  <1>. QED
    BY <1>1, <1>2 DEF SavesInv, Tables

\* What a handler has read stays current while the tables do not change.
LEMMA ReadFrame ==
    ASSUME NEW q \in Handlers, pc[q] # "idle", CurrentRead(q), HandlerInv(q),
           pc'[q] = pc[q], call'[q] = call[q], mem'[q] = mem[q],
           UNCHANGED <<shift, la, hist>>
    PROVE  CurrentRead(q)'
  BY DEF CurrentRead

\* Locks that are kept or given up by running transactions, whose reads and rows do not
\* change, are justified afterwards if they were before.
LEMMA LocksFrame ==
    ASSUME TypeOK, LocksInv,
           \A t \in Tables, a \in Associates : lock'[<<t, a>>] # NoOne =>
               LET q == lock[<<t, a>>]
               IN  /\ lock'[<<t, a>>] = q
                   /\ pc'[q] \in {"save", "publish", "commit"}
                   /\ call'[q] = call[q]
                   /\ mem'[q].shift = mem[q].shift
                   /\ mem'[q].la = mem[q].la
                   /\ t = "shift" => shift'[a] = shift[a]
                   /\ t = "la" => la'[a] = la[a]
    PROVE  LocksInv'
  <1> SUFFICES ASSUME NEW t \in Tables, NEW a \in Associates, lock'[<<t, a>>] # NoOne
               PROVE  /\ pc'[lock'[<<t, a>>]] \in {"save", "publish", "commit"}
                      /\ call'[lock'[<<t, a>>]].who = a
                      /\ VersionMatches(lock[<<t, a>>], t)' /\ lock'[<<t, a>>] = lock[<<t, a>>]
    BY DEF LocksInv
  <1>. QED
    BY DEF LocksInv, VersionMatches, Tables

\* A step of p alone, on its own state, that keeps its locks and what it read.
LEMMA LocalFrame ==
    ASSUME IInv, NEW p \in Handlers, TypeOK', UNCHANGED <<db, lock>>,
           \A q \in Handlers \ {p} : /\ pc'[q] = pc[q] /\ call'[q] = call[q]
                                     /\ mem'[q] = mem[q] /\ todo'[q] = todo[q],
           HandlerInv(p)', SavesInv(p)', pc'[p] # "idle" => CurrentRead(p)',
           pc[p] \notin {"save", "publish", "commit"}
             \/ /\ pc'[p] \in {"save", "publish", "commit"}
                /\ call'[p] = call[p]
                /\ mem'[p].shift = mem[p].shift
                /\ mem'[p].la = mem[p].la
    PROVE  IInv'
  <1> USE DEF IInv, db
  <1>1. VersionNamesTheValue'
    BY ReadFrame DEF VersionNamesTheValue
  <1>2. RowsStartEmpty'
    BY DEF RowsStartEmpty
  <1>3. ASSUME NEW q \in Handlers PROVE HandlerInv(q)' /\ SavesInv(q)'
    BY <1>3, HandlerFrame, SavesFrame
  <1>4. LocksInv'
    <2>1. ASSUME NEW t \in Tables, NEW a \in Associates, lock'[<<t, a>>] # NoOne,
                 NEW q, q = lock[<<t, a>>]
          PROVE  /\ lock'[<<t, a>>] = q
                 /\ pc'[q] \in {"save", "publish", "commit"}
                 /\ call'[q] = call[q] /\ mem'[q].shift = mem[q].shift /\ mem'[q].la = mem[q].la
                 /\ shift'[a] = shift[a] /\ la'[a] = la[a]
      <3>1. q \in Handlers /\ pc[q] \in {"save", "publish", "commit"}
        BY <2>1 DEF TypeOK, LocksInv
      <3>. QED
        BY <2>1, <3>1
    <2>. QED
      BY <2>1, LocksFrame
  <1>. QED
    BY <1>1, <1>2, <1>3, <1>4

\* A handler that ends without writing, its locks released, keeps the invariant: the end
\* of Conflict, DeadlockVictim, Fail and of a rejected request.
LEMMA AbortInv ==
    ASSUME IInv, NEW p \in Handlers, NEW r \in Replies,
           Release(p), Finish(p, r), UNCHANGED <<db, lastId, now, started>>
    PROVE  IInv'
  <1> USE DomainAssumption, RosterAssumption, NoValueAssumption, NilAssumption
  <1> USE DEF IInv, Finish, db
  <1>1. TypeOK'
    BY DEF TypeOK, EmptyMem, Mem, Times, Release
  <1>2. VersionNamesTheValue' /\ RowsStartEmpty'
    BY ReadFrame DEF TypeOK, VersionNamesTheValue, RowsStartEmpty
  <1>3. HandlerInv(p)' /\ SavesInv(p)'
    BY DEF TypeOK, HandlerInv, SavesInv
  <1>4. ASSUME NEW q \in Handlers, q # p PROVE HandlerInv(q)' /\ SavesInv(q)'
    <2>1. /\ pc'[q] = pc[q] /\ call'[q] = call[q] /\ mem'[q] = mem[q] /\ todo'[q] = todo[q]
      BY <1>4 DEF TypeOK
    <2>2. pc[q] # "idle" => \A t \in Tables :
               (lock'[<<t, call[q].who>>] = q) <=> (lock[<<t, call[q].who>>] = q)
      BY <1>4 DEF TypeOK, Release, HandlerInv, Call
    <2>. QED
      BY <2>1, <2>2, HandlerFrame, SavesFrame
  <1>5. LocksInv'
    <2> SUFFICES ASSUME NEW t \in Tables, NEW a \in Associates, lock'[<<t, a>>] # NoOne
                 PROVE  /\ lock'[<<t, a>>] = lock[<<t, a>>]
                        /\ lock[<<t, a>>] \in Handlers \ {p}
      BY LocksFrame DEF TypeOK, LocksInv
    <2>. QED
      BY DEF TypeOK, Release
  <1>. QED
    BY <1>1, <1>2, <1>3, <1>4, <1>5

\* The first step of a use case, for what each of them passes to Receive.
LEMMA ReceiveInv ==
    ASSUME IInv, NEW p \in Handlers, NEW c \in Call,
           NEW accepted \in BOOLEAN, NEW next, NEW saves,
           Receive(p, c, accepted, next, saves),
           \/ next = "save" /\ saves = <<"shift">> /\ c.op \notin {"Assign", "End"}
           \/ next = "row" /\ saves = << >> /\ c.op = "Assign"
           \/ next = "clock" /\ saves = << >> /\ c.op = "End",
           c.op \in {"Certify", "Assign"} => c.path \in Paths,
           (accepted /\ c.op # "Start") =>
             /\ shift[c.who] # NoRow
             /\ c.op = "Certify" => CanCertify(shift[c.who].agg)
             /\ c.op = "StartBreak" => CanStartBreak(shift[c.who].agg)
             /\ c.op = "EndBreak" => CanEndBreak(shift[c.who].agg)
    PROVE  IInv'
  <1> USE DomainAssumption, RosterAssumption, NoValueAssumption, NilAssumption
  <1> USE DEF IInv
  <1>0. c.who \in Associates /\ c.op \in Ops
    BY DEF Call
  <1>1. CASE ~accepted
    <2>1. /\ Finish(p, IF shift[c.who] = NoRow THEN "not_found" ELSE "rejected")
          /\ pc[p] = "idle"
          /\ UNCHANGED <<db, lastId, lock, now>>
          /\ started < MaxRequests /\ started' = started + 1
      BY <1>1 DEF Receive
    <2>2. TypeOK'
      BY <2>1 DEF Finish, db, TypeOK, EmptyMem, Mem, Times, Replies
    <2>3. HandlerInv(p)' /\ SavesInv(p)'
      BY <2>1 DEF Finish, TypeOK, HandlerInv, SavesInv
    <2>4. pc'[p] = "idle"
      BY <2>1 DEF Finish, TypeOK
    <2>5. \A q \in Handlers \ {p} : /\ pc'[q] = pc[q] /\ call'[q] = call[q]
                                    /\ mem'[q] = mem[q] /\ todo'[q] = todo[q]
      BY <2>1 DEF Finish, TypeOK
    <2>. QED
      BY <2>1, <2>2, <2>3, <2>4, <2>5, LocalFrame
  <1>2. CASE accepted
    <2>1. /\ pc[p] = "idle"
          /\ pc' = [pc EXCEPT ![p] = next]
          /\ call' = [call EXCEPT ![p] = c]
          /\ mem' = [mem EXCEPT ![p].shift = shift[c.who]]
          /\ todo' = [todo EXCEPT ![p] = saves]
          /\ reply' = [reply EXCEPT ![p] = "none"]
          /\ UNCHANGED <<db, lastId, lock, now>>
          /\ started < MaxRequests /\ started' = started + 1
      BY <1>2 DEF Receive
    <2>0. mem[p] = [shift |-> NoRow, la |-> NoRow, hist |-> << >>, at |-> 0, id |-> 0]
      BY <2>1 DEF HandlerInv, EmptyMem
    <2>2. /\ pc'[p] = next /\ call'[p] = c /\ todo'[p] = saves
          /\ mem'[p] = [shift |-> shift[c.who], la |-> NoRow, hist |-> << >>, at |-> 0, id |-> 0]
          /\ mem' = [mem EXCEPT ![p] = mem'[p]]
      <3>1. /\ pc'[p] = next /\ call'[p] = c /\ todo'[p] = saves
            /\ mem'[p] = [mem[p] EXCEPT !.shift = shift[c.who]]
            /\ mem' = [mem EXCEPT ![p] = mem'[p]]
        BY <2>1 DEF TypeOK
      <3>2. [mem[p] EXCEPT !.shift = shift[c.who]]
              = [shift |-> shift[c.who], la |-> NoRow, hist |-> << >>, at |-> 0, id |-> 0]
        BY <2>0
      <3>. QED
        BY <3>1, <3>2
    <2>3. TypeOK'
      <3>1. mem'[p] \in Mem
        BY <1>0, <2>2 DEF TypeOK, Mem, Times
      <3>2. mem' \in [Handlers -> Mem]
        BY <2>2, <3>1 DEF TypeOK
      <3>3. next \in {"save", "row", "clock"} /\ saves \in Seq(Tables)
        <4>1. << >> \in Seq(Tables) /\ <<"shift">> \in Seq(Tables)
          BY DEF Tables
        <4>. QED
          BY <4>1
      <3>. QED
        BY <2>1, <3>2, <3>3 DEF db, TypeOK, Replies
    <2>4. HandlerInv(p)'
      BY <1>0, <1>2, <2>2 DEF HandlerInv, ActiveRead, Ops
    <2>5. SavesInv(p)'
      <3>0. \A t \in Tables : lock[<<t, c.who>>] # p
        BY <1>0, <2>1 DEF LocksInv
      <3>1. ~Holds(p, "shift")' /\ ~Holds(p, "la")'
        BY <2>1, <2>2, <3>0 DEF Holds, Tables
      <3>2. Plan(p)' = <<"shift">> \/ next # "save"
        BY <2>2 DEF Plan
      <3>. QED
        BY <2>2, <3>1, <3>2 DEF SavesInv
    <2>6. CurrentRead(p)'
      <3>1. shift' = shift /\ mem'[p].shift = shift[c.who] /\ mem'[p].la = NoRow /\ call'[p] = c
        BY <2>1, <2>2 DEF db
      <3>2. shift[c.who] # NoRow => shift[c.who].version <= shift[c.who].version
        BY <1>0 DEF TypeOK, ShiftRow
      <3>. QED
        BY <3>1, <3>2 DEF CurrentRead
    <2>7. \A q \in Handlers \ {p} : /\ pc'[q] = pc[q] /\ call'[q] = call[q]
                                    /\ mem'[q] = mem[q] /\ todo'[q] = todo[q]
      BY <2>1 DEF TypeOK
    <2>. QED
      BY <2>1, <2>3, <2>4, <2>5, <2>6, <2>7, LocalFrame
  <1>. QED
    BY <1>1, <1>2

\* A request of any use case keeps the invariant.
LEMMA ArriveInv == ASSUME IInv, NEW p \in Handlers, Arrive(p) PROVE IInv'
  <1> PICK a \in Associates :
        \/ \E certs \in SUBSET Paths : StartAssociateShift(p, a, certs)
        \/ \E c \in Paths : CertifyAssociate(p, a, c)
        \/ StartAssociateBreak(p, a)
        \/ EndAssociateBreak(p, a)
        \/ \E path \in Paths : AssignLabor(p, a, path)
        \/ EndAssociateShift(p, a)
    BY DEF Arrive
  <1>1. ASSUME NEW certs \in SUBSET Paths, StartAssociateShift(p, a, certs) PROVE IInv'
    BY <1>1, ReceiveInv DEF StartAssociateShift, Request, Call, Ops
  <1>2. ASSUME NEW c \in Paths, CertifyAssociate(p, a, c) PROVE IInv'
    BY <1>2, ReceiveInv DEF CertifyAssociate, Request, Call, Ops, Found
  <1>3. CASE StartAssociateBreak(p, a)
    BY <1>3, ReceiveInv DEF StartAssociateBreak, Request, Call, Ops, Found
  <1>4. CASE EndAssociateBreak(p, a)
    BY <1>4, ReceiveInv DEF EndAssociateBreak, Request, Call, Ops, Found
  <1>5. ASSUME NEW path \in Paths, AssignLabor(p, a, path) PROVE IInv'
    BY <1>5, ReceiveInv DEF AssignLabor, Request, Call, Ops, Found
  <1>6. CASE EndAssociateShift(p, a)
    BY <1>6, ReceiveInv DEF EndAssociateShift, Request, Call, Ops, Found
  <1>. QED
    BY <1>1, <1>2, <1>3, <1>4, <1>5, <1>6

\* Reading the clock keeps the invariant.
LEMMA ReadClockInv == ASSUME IInv, NEW p \in Handlers, ReadClock(p) PROVE IInv'
  <1> USE DEF IInv
  <1>1. /\ pc[p] = "clock" /\ pc' = [pc EXCEPT ![p] = "row"]
        /\ mem' = [mem EXCEPT ![p].at = now]
        /\ UNCHANGED <<db, lastId, lock, now, call, todo, reply, started>>
    BY DEF ReadClock
  <1>2. /\ pc'[p] = "row"
        /\ mem'[p] = [mem[p] EXCEPT !.at = now]
        /\ mem' = [mem EXCEPT ![p] = mem'[p]]
        /\ mem[p] \in Mem /\ now \in Times
    BY <1>1 DEF TypeOK
  <1>3. mem'[p] \in Mem /\ mem'[p].shift = mem[p].shift /\ mem'[p].la = mem[p].la
        /\ mem'[p].hist = mem[p].hist
    BY <1>2 DEF Mem
  <1>4. TypeOK'
    BY <1>1, <1>2, <1>3 DEF db, TypeOK
  <1>5. HandlerInv(p)' /\ SavesInv(p)'
    BY <1>1, <1>2, <1>3 DEF HandlerInv, SavesInv
  <1>6. CurrentRead(p)'
    BY <1>1, <1>2, <1>3 DEF CurrentRead, VersionNamesTheValue, HandlerInv, db
  <1>7. \A q \in Handlers \ {p} : /\ pc'[q] = pc[q] /\ call'[q] = call[q]
                                  /\ mem'[q] = mem[q] /\ todo'[q] = todo[q]
    BY <1>1 DEF TypeOK
  <1>. QED
    BY <1>1, <1>4, <1>5, <1>6, <1>7, LocalFrame

\* Reading the assignment row keeps the invariant: what was just read is current.
LEMMA FindAssignmentInv == ASSUME IInv, NEW p \in Handlers, FindAssignment(p) PROVE IInv'
  <1> USE DEF IInv
  <1> DEFINE a == call[p].who
  <1>1. /\ pc[p] = "row" /\ mem' = [mem EXCEPT ![p].la = la[a]]
        /\ pc' = [pc EXCEPT ![p] = IF la[a] = NoRow THEN "decide" ELSE "history"]
        /\ UNCHANGED <<db, lastId, lock, now, call, todo, reply, started>>
    BY DEF FindAssignment
  <1>2. /\ pc'[p] = IF la[a] = NoRow THEN "decide" ELSE "history"
        /\ mem'[p] = [mem[p] EXCEPT !.la = la[a]]
        /\ mem' = [mem EXCEPT ![p] = mem'[p]]
        /\ mem[p] \in Mem
        /\ a \in Associates /\ la[a] \in LaRow \cup {NoRow}
    BY <1>1 DEF TypeOK, HandlerInv, Call
  <1>3. mem'[p] \in Mem /\ mem'[p].shift = mem[p].shift /\ mem'[p].la = la[a]
        /\ mem'[p].hist = mem[p].hist
    BY <1>2 DEF Mem
  <1>4. TypeOK'
    BY <1>1, <1>2, <1>3 DEF db, TypeOK
  <1>5. HandlerInv(p)' /\ SavesInv(p)'
    BY <1>1, <1>2, <1>3 DEF HandlerInv, SavesInv
  <1>6. CurrentRead(p)'
    <2>1. la[a] # NoRow => la[a].version <= la[a].version
      BY <1>2 DEF LaRow
    <2>. QED
      BY <1>1, <1>2, <1>3, <2>1 DEF CurrentRead, VersionNamesTheValue, db
  <1>7. \A q \in Handlers \ {p} : /\ pc'[q] = pc[q] /\ call'[q] = call[q]
                                  /\ mem'[q] = mem[q] /\ todo'[q] = todo[q]
    BY <1>1 DEF TypeOK
  <1>. QED
    BY <1>1, <1>4, <1>5, <1>6, <1>7, LocalFrame

\* Reading the history keeps the invariant: if the row has not changed since it was read,
\* the history belongs to it; if it has, its version is behind.
LEMMA FindHistoryInv == ASSUME IInv, NEW p \in Handlers, FindHistory(p) PROVE IInv'
  <1> USE DEF IInv
  <1> DEFINE a == call[p].who
  <1>1. /\ pc[p] = "history" /\ mem' = [mem EXCEPT ![p].hist = hist[a]]
        /\ pc' = [pc EXCEPT ![p] = "decide"]
        /\ UNCHANGED <<db, lastId, lock, now, call, todo, reply, started>>
    BY DEF FindHistory
  <1>2. /\ pc'[p] = "decide"
        /\ mem'[p] = [mem[p] EXCEPT !.hist = hist[a]]
        /\ mem' = [mem EXCEPT ![p] = mem'[p]]
        /\ mem[p] \in Mem
        /\ a \in Associates /\ hist[a] \in Seq(Closed)
    BY <1>1 DEF TypeOK, HandlerInv, Call
  <1>3. mem'[p] \in Mem /\ mem'[p].shift = mem[p].shift /\ mem'[p].la = mem[p].la
        /\ mem'[p].hist = hist[a]
    BY <1>2 DEF Mem
  <1>4. TypeOK'
    BY <1>1, <1>2, <1>3 DEF db, TypeOK
  <1>5. HandlerInv(p)' /\ SavesInv(p)'
    BY <1>1, <1>2, <1>3 DEF HandlerInv, SavesInv
  <1>6. CurrentRead(p)'
    BY <1>1, <1>2, <1>3 DEF CurrentRead, VersionNamesTheValue, db
  <1>7. \A q \in Handlers \ {p} : /\ pc'[q] = pc[q] /\ call'[q] = call[q]
                                  /\ mem'[q] = mem[q] /\ todo'[q] = todo[q]
    BY <1>1 DEF TypeOK
  <1>. QED
    BY <1>1, <1>4, <1>5, <1>6, <1>7, LocalFrame

\* A handler that has not begun its transaction holds no lock.
LEMMA NothingToRelease ==
    ASSUME TypeOK, LocksInv, NEW p \in Handlers, pc[p] = "decide", lock' = lock
    PROVE  Release(p)
  <1>1. \A t \in Tables, a \in Associates : lock[<<t, a>>] # p
    BY RosterAssumption DEF LocksInv
  <1>2. \A r \in Tables \X Associates : lock[r] # p
    BY <1>1
  <1>3. DOMAIN lock = Tables \X Associates /\ lock = [r \in DOMAIN lock |-> lock[r]]
    BY DEF TypeOK
  <1>. QED
    BY <1>2, <1>3 DEF Release

\* The decision of AssignLabor keeps the invariant.
LEMMA DecideAssignInv == ASSUME IInv, NEW p \in Handlers, DecideAssign(p) PROVE IInv'
  <1> USE DomainAssumption, RosterAssumption, NoValueAssumption, NilAssumption
  <1> USE DEF IInv
  <1> DEFINE closes == ActiveRead(p) # NoInterval
             accepted == /\ call[p].path \in mem[p].shift.agg.certs
                         /\ closes => CanLogHours(mem[p].shift.agg, ClosingHours(p, now))
  <1>1. pc[p] = "decide" /\ call[p].op = "Assign" /\ UNCHANGED <<db, lastId, lock, now, started>>
    BY DEF DecideAssign
  <1>2. CASE ~accepted
    <2>1. Finish(p, "rejected")
      BY <1>2 DEF DecideAssign
    <2>2. Release(p)
      BY <1>1, NothingToRelease
    <2>. QED
      BY <1>1, <2>1, <2>2, AbortInv DEF Replies
  <1>3. CASE accepted
    <2>1. /\ mem' = [mem EXCEPT ![p].at = now]
          /\ todo' = [todo EXCEPT ![p] = IF closes THEN <<"shift", "la">> ELSE <<"la">>]
          /\ pc' = [pc EXCEPT ![p] = "save"]
          /\ UNCHANGED <<call, reply>>
      BY <1>3 DEF DecideAssign
    <2>2. /\ pc'[p] = "save"
          /\ mem'[p] = [mem[p] EXCEPT !.at = now]
          /\ mem' = [mem EXCEPT ![p] = mem'[p]]
          /\ todo'[p] = IF closes THEN <<"shift", "la">> ELSE <<"la">>
          /\ mem[p] \in Mem /\ now \in Times
      BY <2>1 DEF TypeOK
    <2>3. /\ mem'[p] \in Mem /\ mem'[p].shift = mem[p].shift /\ mem'[p].la = mem[p].la
          /\ mem'[p].hist = mem[p].hist /\ mem'[p].at = now
      BY <2>2 DEF Mem
    <2>4. TypeOK'
      <3>1. <<"shift", "la">> \in Seq(Tables) /\ <<"la">> \in Seq(Tables)
        BY DEF Tables
      <3>. QED
        BY <1>1, <2>1, <2>2, <2>3, <3>1 DEF db, TypeOK
    <2>5. ActiveRead(p)' = ActiveRead(p) /\ ClosingHours(p, mem[p].at)' = ClosingHours(p, now)
      BY <2>3 DEF ActiveRead, ClosingHours
    <2>6. HandlerInv(p)'
      BY <1>1, <1>3, <2>1, <2>2, <2>3, <2>5 DEF HandlerInv
    <2>7. SavesInv(p)'
      <3>0. call[p].who \in Associates
        BY <1>1 DEF HandlerInv, Call
      <3>1. \A t \in Tables : lock[<<t, call[p].who>>] # p
        BY <1>1, <3>0 DEF LocksInv
      <3>2. ~Holds(p, "shift")' /\ ~Holds(p, "la")'
        BY <1>1, <2>1, <3>1 DEF Holds, Tables
      <3>3. Plan(p)' = todo'[p]
        BY <1>1, <2>1, <2>2, <2>5 DEF Plan
      <3>. QED
        BY <2>2, <3>2, <3>3 DEF SavesInv
    <2>8. CurrentRead(p)'
      BY <1>1, <2>1, <2>2, <2>3 DEF CurrentRead, VersionNamesTheValue, db
    <2>9. \A q \in Handlers \ {p} : /\ pc'[q] = pc[q] /\ call'[q] = call[q]
                                    /\ mem'[q] = mem[q] /\ todo'[q] = todo[q]
      BY <2>1 DEF TypeOK
    <2>. QED
      BY <1>1, <2>4, <2>6, <2>7, <2>8, <2>9, LocalFrame
  <1>. QED
    BY <1>2, <1>3

\* The decision of EndAssociateShift keeps the invariant.
LEMMA DecideEndInv == ASSUME IInv, NEW p \in Handlers, DecideEnd(p) PROVE IInv'
  <1> USE DomainAssumption, RosterAssumption, NoValueAssumption, NilAssumption
  <1> USE DEF IInv
  <1> DEFINE closes == ActiveRead(p) # NoInterval
             accepted == closes => CanLogHours(mem[p].shift.agg, ClosingHours(p, mem[p].at))
  <1>1. pc[p] = "decide" /\ call[p].op = "End" /\ UNCHANGED <<db, lastId, lock, now, started>>
    BY DEF DecideEnd
  <1>2. CASE ~accepted
    <2>1. Finish(p, "rejected")
      BY <1>2 DEF DecideEnd
    <2>2. Release(p)
      BY <1>1, NothingToRelease
    <2>. QED
      BY <1>1, <2>1, <2>2, AbortInv DEF Replies
  <1>3. CASE accepted
    <2>1. /\ todo' = [todo EXCEPT ![p] = IF closes THEN <<"la", "shift">> ELSE <<"shift">>]
          /\ pc' = [pc EXCEPT ![p] = "save"]
          /\ UNCHANGED <<call, mem, reply>>
      BY <1>3 DEF DecideEnd
    <2>2. /\ pc'[p] = "save"
          /\ todo'[p] = IF closes THEN <<"la", "shift">> ELSE <<"shift">>
      BY <2>1 DEF TypeOK
    <2>4. TypeOK'
      <3>1. <<"la", "shift">> \in Seq(Tables) /\ <<"shift">> \in Seq(Tables)
        BY DEF Tables
      <3>. QED
        BY <1>1, <2>1, <2>2, <3>1 DEF db, TypeOK
    <2>5. ActiveRead(p)' = ActiveRead(p)
          /\ ClosingHours(p, mem[p].at)' = ClosingHours(p, mem[p].at)
      BY <2>1 DEF ActiveRead, ClosingHours
    <2>6. HandlerInv(p)'
      BY <1>1, <1>3, <2>1, <2>2, <2>5 DEF HandlerInv
    <2>7. SavesInv(p)'
      <3>0. call[p].who \in Associates
        BY <1>1 DEF HandlerInv, Call
      <3>1. \A t \in Tables : lock[<<t, call[p].who>>] # p
        BY <1>1, <3>0 DEF LocksInv
      <3>2. ~Holds(p, "shift")' /\ ~Holds(p, "la")'
        BY <1>1, <2>1, <3>1 DEF Holds, Tables
      <3>3. Plan(p)' = todo'[p]
        BY <1>1, <2>1, <2>2, <2>5 DEF Plan
      <3>. QED
        BY <2>2, <3>2, <3>3 DEF SavesInv
    <2>8. CurrentRead(p)'
      BY <1>1, <2>1, <2>2 DEF CurrentRead, VersionNamesTheValue, db
    <2>9. \A q \in Handlers \ {p} : /\ pc'[q] = pc[q] /\ call'[q] = call[q]
                                    /\ mem'[q] = mem[q] /\ todo'[q] = todo[q]
      BY <2>1 DEF TypeOK
    <2>. QED
      BY <1>1, <2>1, <2>4, <2>6, <2>7, <2>8, <2>9, LocalFrame
  <1>. QED
    BY <1>2, <1>3

\* The outbox insert keeps the invariant.
LEMMA PublishInv == ASSUME IInv, NEW p \in Handlers, Publish(p) PROVE IInv'
  <1> USE DEF IInv
  <1>1. /\ pc[p] = "publish" /\ pc' = [pc EXCEPT ![p] = "commit"]
        /\ UNCHANGED <<db, lock, now, call, todo, reply, started>>
        /\ \/ lastId' = lastId + 1 /\ mem' = [mem EXCEPT ![p].id = lastId + 1]
           \/ UNCHANGED <<lastId, mem>>
    BY DEF Publish
  <1>2. /\ pc'[p] = "commit" /\ lastId' \in Nat
        /\ mem' = [mem EXCEPT ![p] = mem'[p]] /\ mem'[p] \in Mem
        /\ mem'[p].shift = mem[p].shift /\ mem'[p].la = mem[p].la
        /\ mem'[p].hist = mem[p].hist /\ mem'[p].at = mem[p].at
    BY <1>1 DEF TypeOK, Mem
  <1>3. TypeOK'
    BY <1>1, <1>2 DEF db, TypeOK
  <1>4. ActiveRead(p)' = ActiveRead(p)
        /\ ClosingHours(p, mem[p].at)' = ClosingHours(p, mem[p].at)
    BY <1>2 DEF ActiveRead, ClosingHours
  <1>5. HandlerInv(p)'
    BY <1>1, <1>2, <1>4 DEF HandlerInv
  <1>6. SavesInv(p)'
    <2>1. Plan(p)' = Plan(p)
      BY <1>1, <1>4 DEF Plan
    <2>2. \A t \in Tables : Holds(p, t)' <=> Holds(p, t)
      BY <1>1 DEF Holds
    <2>. QED
      BY <1>1, <1>2, <2>1, <2>2 DEF SavesInv
  <1>7. CurrentRead(p)'
    BY <1>1, <1>2 DEF CurrentRead, VersionNamesTheValue, db
  <1>8. \A q \in Handlers \ {p} : /\ pc'[q] = pc[q] /\ call'[q] = call[q]
                                  /\ mem'[q] = mem[q] /\ todo'[q] = todo[q]
    BY <1>1 DEF TypeOK
  <1>. QED
    BY <1>1, <1>2, <1>3, <1>5, <1>6, <1>7, <1>8, LocalFrame

\* An upsert that finds its version keeps the invariant: it takes a lock that nobody
\* holds, and the version check justifies it.
LEMMA SaveInv ==
    ASSUME IInv, NEW p \in Handlers, Save(p),
           NEW a, a = call[p].who, NEW t, t = Head(todo[p]), NEW rest, rest = Tail(todo[p])
    PROVE  IInv'
  <1> USE DomainAssumption, RosterAssumption, NoValueAssumption, NilAssumption
  <1> USE DEF IInv
  <1>1. /\ pc[p] = "save" /\ lock[<<t, a>>] = NoOne /\ VersionMatches(p, t)
        /\ lock' = [lock EXCEPT ![<<t, a>>] = p]
        /\ todo' = [todo EXCEPT ![p] = rest]
        /\ pc' = [pc EXCEPT ![p] = IF rest = << >> THEN "publish" ELSE "save"]
        /\ UNCHANGED <<db, lastId, now, call, mem, reply, started>>
    BY DEF Save
  <1>2. a \in Associates
    BY <1>1 DEF HandlerInv, Call
  <1>3. \/ todo[p] = <<"shift">> /\ t = "shift" /\ rest = << >>
        \/ todo[p] = <<"la">> /\ t = "la" /\ rest = << >>
        \/ todo[p] = <<"shift", "la">> /\ t = "shift" /\ rest = <<"la">>
        \/ todo[p] = <<"la", "shift">> /\ t = "la" /\ rest = <<"shift">>
    <2>1. todo[p] \in {<<"shift">>, <<"la">>, <<"shift", "la">>, <<"la", "shift">>}
      BY <1>1 DEF SavesInv, Plan
    <2>2. CASE todo[p] = <<"shift">>
      BY <2>2
    <2>3. CASE todo[p] = <<"la">>
      BY <2>3
    <2>4. CASE todo[p] = <<"shift", "la">>
      BY <2>4
    <2>5. CASE todo[p] = <<"la", "shift">>
      BY <2>5
    <2>. QED
      BY <2>1, <2>2, <2>3, <2>4, <2>5
  <1>4. t \in Tables /\ rest \in Seq(Tables)
    <2>1. << >> \in Seq(Tables) /\ <<"shift">> \in Seq(Tables) /\ <<"la">> \in Seq(Tables)
      BY DEF Tables
    <2>. QED
      BY <1>3, <2>1 DEF Tables
  <1>5. /\ pc'[p] = IF rest = << >> THEN "publish" ELSE "save"
        /\ todo'[p] = rest
        /\ lock'[<<t, a>>] = p
        /\ \A u \in Tables, b \in Associates : <<u, b>> # <<t, a>> => lock'[<<u, b>>] = lock[<<u, b>>]
    BY <1>1, <1>2, <1>4 DEF TypeOK
  <1>6. TypeOK'
    BY <1>1, <1>2, <1>4, <1>5 DEF db, TypeOK
  <1>7. VersionNamesTheValue' /\ RowsStartEmpty'
    <2>1. \A q \in Handlers : pc'[q] # "idle" => pc[q] # "idle" /\ (pc'[q] = "history" <=> pc[q] = "history")
      BY <1>1, <1>5 DEF TypeOK
    <2>. QED
      BY <1>1, <2>1 DEF VersionNamesTheValue, CurrentRead, RowsStartEmpty, db
  <1>8. HandlerInv(p)'
    <2>1. ActiveRead(p)' = ActiveRead(p)
          /\ ClosingHours(p, mem[p].at)' = ClosingHours(p, mem[p].at)
      BY <1>1 DEF ActiveRead, ClosingHours
    <2>2. pc'[p] \in {"save", "publish"}
      BY <1>5
    <2>. QED
      BY <1>1, <2>1, <2>2 DEF HandlerInv
  <1>9. SavesInv(p)'
    <2>1. Plan(p)' = Plan(p)
      BY <1>1 DEF Plan, ActiveRead
    <2>2. \A u \in Tables : Holds(p, u)' <=> (u = t \/ Holds(p, u))
      BY <1>1, <1>2, <1>5 DEF Holds
    <2>3. Plan(p) \in {<<"shift">>, <<"la">>, <<"shift", "la">>, <<"la", "shift">>}
      BY DEF Plan
    <2>4. /\ << >> \notin {<<"shift">>, <<"la">>}
          /\ <<"shift">> \notin {<<"la">>, <<"shift", "la">>, <<"la", "shift">>}
          /\ <<"la">> \notin {<<"shift", "la">>, <<"la", "shift">>}
          /\ <<"shift", "la">> # <<"la", "shift">>
      OBVIOUS
    <2>5. \/ todo[p] = Plan(p) /\ ~Holds(p, "shift") /\ ~Holds(p, "la")
          \/ Plan(p) = <<"shift", "la">> /\ todo[p] = <<"la">> /\ Holds(p, "shift")
          \/ Plan(p) = <<"la", "shift">> /\ todo[p] = <<"shift">> /\ Holds(p, "la")
      BY <1>1 DEF SavesInv
    <2>6. CASE rest = << >>
      <3>1. \/ t = "shift" /\ todo[p] = <<"shift">>
            \/ t = "la" /\ todo[p] = <<"la">>
        BY <1>3, <2>4, <2>6
      <3>2. \A u \in Tables : Holds(p, u)' <=>
               (u = "shift" /\ Plan(p) # <<"la">>) \/ (u = "la" /\ Plan(p) # <<"shift">>)
        BY <2>2, <2>4, <2>5, <3>1 DEF Tables
      <3>. QED
        BY <1>5, <2>1, <2>6, <3>2 DEF SavesInv
    <2>7. CASE rest # << >>
      <3>1. \/ todo[p] = <<"shift", "la">> /\ t = "shift" /\ rest = <<"la">>
            \/ todo[p] = <<"la", "shift">> /\ t = "la" /\ rest = <<"shift">>
        BY <1>3, <2>7
      <3>2. Plan(p) = todo[p] /\ ~Holds(p, "shift") /\ ~Holds(p, "la")
        BY <2>4, <2>5, <3>1
      <3>. QED
        BY <1>5, <2>1, <2>2, <2>7, <3>1, <3>2 DEF SavesInv, Tables
    <2>. QED
      BY <2>6, <2>7
  <1>10. ASSUME NEW q \in Handlers, q # p PROVE HandlerInv(q)' /\ SavesInv(q)'
    <2>1. pc'[q] = pc[q] /\ call'[q] = call[q] /\ mem'[q] = mem[q] /\ todo'[q] = todo[q]
      BY <1>1, <1>10 DEF TypeOK
    <2>2. pc[q] # "idle" => \A u \in Tables :
               (lock'[<<u, call[q].who>>] = q) <=> (lock[<<u, call[q].who>>] = q)
      BY <1>1, <1>2, <1>4, <1>5, <1>10 DEF HandlerInv, Call
    <2>. QED
      BY <2>1, <2>2, HandlerFrame, SavesFrame
  <1>11. LocksInv'
    <2> SUFFICES ASSUME NEW u \in Tables, NEW b \in Associates, lock'[<<u, b>>] # NoOne
                 PROVE  /\ pc'[lock'[<<u, b>>]] \in {"save", "publish", "commit"}
                        /\ call'[lock'[<<u, b>>]].who = b
                        /\ VersionMatches(lock[<<u, b>>], u)'
      BY DEF LocksInv
    <2>1. CASE u = t /\ b = a
      <3>1. VersionMatches(p, t)'
        BY <1>1 DEF VersionMatches, db
      <3>. QED
        BY <1>1, <1>5, <2>1, <3>1
    <2>2. CASE ~(u = t /\ b = a)
      <3> PICK q : q = lock[<<u, b>>]
        OBVIOUS
      <3>1. lock'[<<u, b>>] = q /\ q \in Handlers
        BY <1>5, <2>2 DEF TypeOK
      <3>2. pc[q] \in {"save", "publish", "commit"} /\ call[q].who = b /\ VersionMatches(q, u)
        BY <3>1 DEF LocksInv
      <3>3. pc'[q] \in {"save", "publish", "commit"}
        BY <1>1, <3>1, <3>2 DEF TypeOK
      <3>4. VersionMatches(q, u)'
        BY <1>1, <3>2 DEF VersionMatches, db
      <3>. QED
        BY <1>1, <3>1, <3>2, <3>3, <3>4
    <2>. QED
      BY <2>1, <2>2
  <1>. QED
    BY <1>6, <1>7, <1>8, <1>9, <1>10, <1>11

-----------------------------------------------------------------------------
(* What a commit writes *)

\* The interval a handler closes lies between two readings of the clock.
LEMMA ClosingType ==
    ASSUME IInv, NEW p \in Handlers, pc[p] = "commit", ActiveRead(p) # NoInterval
    PROVE  /\ mem[p].la # NoRow
           /\ mem[p].la.active \in Interval /\ ActiveRead(p) = mem[p].la.active
           /\ mem[p].at \in Times
           /\ CloseAt(ActiveRead(p), mem[p].at) \in Closed
           /\ ClosingHours(p, mem[p].at) \in Durations
  <1> USE DEF IInv
  <1>1. mem[p].la # NoRow /\ ActiveRead(p) = mem[p].la.active
    BY DEF ActiveRead
  <1>2. mem[p].la \in LaRow /\ mem[p].at \in Times
    BY <1>1 DEF TypeOK, Mem
  <1>3. mem[p].la.active \in Interval
    BY <1>1, <1>2 DEF LaRow
  <1>4. CloseAt(ActiveRead(p), mem[p].at) \in Closed
    BY <1>1, <1>2, <1>3 DEF CloseAt, Interval, Closed
  <1>5. ClosingHours(p, mem[p].at) = mem[p].at - mem[p].la.active.start
    BY <1>1 DEF ClosingHours, Hours, CloseAt
  <1>6. mem[p].la.active.start \in Times
    BY <1>3 DEF Interval
  <1>7. ClosingHours(p, mem[p].at) \in Durations
    BY <1>2, <1>5, <1>6, DomainAssumption DEF Times, Durations
  <1>. QED
    BY <1>1, <1>2, <1>3, <1>4, <1>7

\* A handler that commits the shift row built it on the row's latest value.
LEMMA ShiftReadIsCurrent ==
    ASSUME IInv, NEW p \in Handlers, pc[p] = "commit", NEW a, a = call[p].who,
           lock[<<"shift", a>>] = p, call[p].op # "Start"
    PROVE  shift[a] # NoRow /\ mem[p].shift = shift[a] /\ shift[a].agg \in Shift
  <1> USE DEF IInv
  <1>1. a \in Associates /\ mem[p].shift # NoRow
    BY DEF HandlerInv, Call
  <1>2. VersionMatches(p, "shift")
    BY <1>1, RosterAssumption DEF LocksInv, Tables
  <1>3. shift[a] # NoRow /\ (mem[p].shift.version = shift[a].version => mem[p].shift = shift[a])
    BY <1>1 DEF VersionNamesTheValue, CurrentRead
  <1>4. mem[p].shift = shift[a]
    BY <1>1, <1>2, <1>3 DEF VersionMatches
  <1>5. shift[a].agg \in Shift
    BY <1>1, <1>3 DEF TypeOK, ShiftRow
  <1>. QED
    BY <1>3, <1>4, <1>5

\* What a handler commits to the shift row is one domain method, accepted by its
\* guard, of the row's latest value.
LEMMA ShiftCommitIsMethod ==
    ASSUME IInv, NEW p \in Handlers, pc[p] = "commit", NEW a, a = call[p].who,
           lock[<<"shift", a>>] = p, NEW s, s = shift[a].agg, NEW new, new = NewShift(p)
    PROVE  \/ \E certs \in SUBSET Paths : new = NewAssociateShift(certs)
           \/ /\ shift[a] # NoRow
              /\ s \in Shift
              /\ \/ CanCertify(s) /\ \E c \in Paths : new = Certify(s, c)
                 \/ CanStartBreak(s) /\ new = StartBreak(s)
                 \/ CanEndBreak(s) /\ new = EndBreak(s)
                 \/ \E h \in Durations : CanLogHours(s, h) /\ new = LogHours(s, h)
                 \/ \E h \in Durations : CanLogHours(s, h) /\ new = EndShift(LogHours(s, h))
                 \/ new = EndShift(s)
  <1> USE DEF IInv
  <1>0. call[p] \in Call /\ call[p].op \in Ops
    BY DEF HandlerInv, Call
  <1>1. CASE call[p].op = "Start"
    BY <1>0, <1>1 DEF NewShift, Call
  <1>2. CASE call[p].op # "Start"
    <2>1. shift[a] # NoRow /\ mem[p].shift.agg = s /\ s \in Shift
      BY <1>2, ShiftReadIsCurrent
    <2>2. CASE call[p].op = "Certify"
      <3>1. CanCertify(s) /\ call[p].path \in Paths /\ new = Certify(s, call[p].path)
        BY <2>1, <2>2 DEF HandlerInv, NewShift
      <3>. QED
        BY <2>1, <3>1
    <2>3. CASE call[p].op = "StartBreak"
      BY <2>1, <2>3 DEF HandlerInv, NewShift
    <2>4. CASE call[p].op = "EndBreak"
      BY <2>1, <2>4 DEF HandlerInv, NewShift
    <2>5. CASE call[p].op \in {"Assign", "End"} /\ ActiveRead(p) # NoInterval
      <3>1. PICK h \in Durations : h = ClosingHours(p, mem[p].at)
        BY <2>5, ClosingType
      <3>2. CanLogHours(s, h)
        BY <2>1, <2>5, <3>1 DEF HandlerInv
      <3>3. new \in {LogHours(s, h), EndShift(LogHours(s, h))}
        BY <2>1, <2>5, <3>1 DEF NewShift
      <3>. QED
        BY <2>1, <3>2, <3>3
    <2>6. CASE call[p].op \in {"Assign", "End"} /\ ActiveRead(p) = NoInterval
      <3>1. call[p].op = "End"
        <4>1. Holds(p, "shift")
          BY DEF Holds
        <4>2. Plan(p) # <<"la">>
          BY <4>1 DEF SavesInv, Tables
        <4>. QED
          BY <2>6, <4>2 DEF Plan
      <3>. QED
        BY <2>1, <2>6, <3>1 DEF NewShift
    <2>. QED
      BY <1>0, <1>2, <2>2, <2>3, <2>4, <2>5, <2>6 DEF Ops
  <1>. QED
    BY <1>1, <1>2

\* A handler that commits the assignment row either keeps the history or adds to
\* it the interval the row holds, closed.
LEMMA HistoryCommit ==
    ASSUME IInv, NEW p \in Handlers, pc[p] = "commit", NEW a, a = call[p].who,
           lock[<<"la", a>>] = p
    PROVE  \/ /\ NewHist(p) = hist[a]
              /\ ActiveRead(p) = NoInterval
           \/ /\ la[a] # NoRow /\ ActiveRead(p) = la[a].active /\ la[a].active # NoInterval
              /\ NewHist(p) = Append(hist[a], CloseAt(la[a].active, mem[p].at))
  <1> USE DEF IInv
  <1>1. a \in Associates
    BY DEF HandlerInv, Call
  <1>2. VersionMatches(p, "la")
    BY <1>1, RosterAssumption DEF LocksInv, Tables
  <1>3. CASE mem[p].la = NoRow
    <2>1. NewHist(p) = << >> /\ ActiveRead(p) = NoInterval
      BY <1>3 DEF HandlerInv, NewHist, CloseActive, ActiveRead
    <2>2. la[a] = NoRow \/ la[a].version = 1
      BY <1>2, <1>3 DEF VersionMatches
    <2>. QED
      BY <1>1, <2>1, <2>2 DEF RowsStartEmpty
  <1>4. CASE mem[p].la # NoRow
    <2>1. la[a] # NoRow /\ (mem[p].la.version = la[a].version
                              => mem[p].la = la[a] /\ mem[p].hist = hist[a])
      BY <1>4 DEF VersionNamesTheValue, CurrentRead
    <2>2. mem[p].la = la[a] /\ mem[p].hist = hist[a]
      BY <1>2, <1>4, <2>1 DEF VersionMatches
    <2>. QED
      BY <1>4, <2>1, <2>2 DEF NewHist, CloseActive, ActiveRead
  <1>. QED
    BY <1>3, <1>4

\* The effect of a commit on the tables.
LEMMA CommitEffect ==
    ASSUME IInv, NEW p \in Handlers, Commit(p), NEW a, a = call[p].who
    PROVE  /\ a \in Associates
           /\ \A b \in Associates \ {a} : shift'[b] = shift[b] /\ la'[b] = la[b] /\ hist'[b] = hist[b]
           /\ lock[<<"shift", a>>] # p => shift' = shift
           /\ lock[<<"la", a>>] # p => la' = la /\ hist' = hist
           /\ lock[<<"shift", a>>] = p =>
                shift'[a] = [agg |-> NewShift(p), version |-> NextVersion(shift[a])]
           /\ lock[<<"la", a>>] = p =>
                /\ la'[a] = [active |-> NewActive(p), version |-> NextVersion(la[a])]
                /\ hist'[a] = NewHist(p)
  <1>1. a \in Associates
    BY DEF IInv, Commit, HandlerInv, Call
  <1>. QED
    BY <1>1 DEF IInv, Commit, TypeOK

\* The rows a commit writes, and its event, have their types.
LEMMA CommitTypes ==
    ASSUME IInv, NEW p \in Handlers, pc[p] = "commit", NEW a, a = call[p].who
    PROVE  /\ lock[<<"shift", a>>] = p => NewShift(p) \in Shift
           /\ NewActive(p) \in Interval \cup {NoInterval}
           /\ NewHist(p) \in Seq(Closed)
           /\ NewEvent(p) \in Event
           /\ NextVersion(shift[a]) \in Nat /\ NextVersion(la[a]) \in Nat
  <1> USE DEF IInv
  <1>1. /\ call[p] \in Call /\ call[p].op \in Ops /\ a \in Associates
        /\ call[p].path \in Paths \cup {NoPath} /\ call[p].certs \in SUBSET Paths
    BY DEF HandlerInv, Call
  <1>2. mem[p].at \in Times /\ mem[p].id \in Nat /\ mem[p].hist \in Seq(Closed)
    BY DEF TypeOK, Mem
  <1>3. ASSUME lock[<<"shift", a>>] = p PROVE NewShift(p) \in Shift
    <2>1. PICK new : new = NewShift(p)
      OBVIOUS
    <2>2. PICK s : s = shift[a].agg
      OBVIOUS
    <2>3. CASE \E certs \in SUBSET Paths : new = NewAssociateShift(certs)
      BY <2>1, <2>3 DEF NewAssociateShift, Shift
    <2>4. CASE s \in Shift /\ \E c \in Paths : new = Certify(s, c)
      BY <2>1, <2>4 DEF Certify, Shift
    <2>5. CASE s \in Shift /\ new \in {StartBreak(s), EndBreak(s), EndShift(s)}
      BY <2>1, <2>5 DEF StartBreak, EndBreak, EndShift, Shift
    <2>6. CASE s \in Shift /\ \E h \in Durations : new \in {LogHours(s, h), EndShift(LogHours(s, h))}
      <3>1. PICK h \in Int : new \in {LogHours(s, h), EndShift(LogHours(s, h))}
        BY <2>6, DomainAssumption DEF Durations
      <3>2. LogHours(s, h) \in Shift
        BY <2>6, <3>1 DEF LogHours, Shift
      <3>3. EndShift(LogHours(s, h)) \in Shift
        BY <3>2 DEF EndShift, Shift
      <3>. QED
        BY <2>1, <3>1, <3>2, <3>3
    <2>. QED
      BY <1>3, <2>1, <2>2, <2>3, <2>4, <2>5, <2>6, ShiftCommitIsMethod
  <1>4. NewActive(p) \in Interval \cup {NoInterval}
    BY <1>2 DEF NewActive, HandlerInv, Interval
  <1>5. NewHist(p) \in Seq(Closed)
    <2>1. CASE ActiveRead(p) = NoInterval
      BY <1>2, <2>1 DEF NewHist, CloseActive
    <2>2. CASE ActiveRead(p) # NoInterval
      <3>1. PICK iv \in Closed : iv = CloseAt(ActiveRead(p), mem[p].at)
        BY <2>2, ClosingType
      <3>2. NewHist(p) = Append(mem[p].hist, iv)
        BY <2>2, <3>1 DEF NewHist, CloseActive
      <3>. QED
        BY <1>2, <3>1, <3>2
    <2>. QED
      BY <2>1, <2>2
  <1>6. NewEvent(p) \in Event
    <2>1. EventType(p) \in EventTypes
      BY <1>1 DEF EventType, EventTypes, Ops
    <2>. QED
      BY <1>1, <1>2, <2>1 DEF NewEvent, Event
  <1>7. NextVersion(shift[a]) \in Nat /\ NextVersion(la[a]) \in Nat
    BY <1>1 DEF NextVersion, TypeOK, ShiftRow, LaRow
  <1>. QED
    BY <1>3, <1>4, <1>5, <1>6, <1>7

\* A commit keeps the invariant: the rows it writes get versions that no handler has
\* read, and no other transaction holds them.
LEMMA CommitInv ==
    ASSUME IInv, NEW p \in Handlers, Commit(p), NEW a, a = call[p].who
    PROVE  IInv'
  <1> USE DomainAssumption, RosterAssumption, NoValueAssumption, NilAssumption
  <1> USE DEF IInv
  <1>1. PICK r \in {"ok", "failed"} :
        /\ pc[p] = "commit" /\ Release(p) /\ Finish(p, r)
        /\ UNCHANGED <<lastId, now, started>>
        /\ outbox' = IF Raises(p) THEN Append(outbox, NewEvent(p)) ELSE outbox
    BY DEF Commit
  <1>2. /\ a \in Associates
        /\ \A b \in Associates \ {a} : shift'[b] = shift[b] /\ la'[b] = la[b] /\ hist'[b] = hist[b]
        /\ lock[<<"shift", a>>] # p => shift' = shift
        /\ lock[<<"la", a>>] # p => la' = la /\ hist' = hist
        /\ lock[<<"shift", a>>] = p =>
             shift'[a] = [agg |-> NewShift(p), version |-> NextVersion(shift[a])]
        /\ lock[<<"la", a>>] = p =>
             /\ la'[a] = [active |-> NewActive(p), version |-> NextVersion(la[a])]
             /\ hist'[a] = NewHist(p)
    BY CommitEffect
  <1>3. /\ lock[<<"shift", a>>] = p => NewShift(p) \in Shift
        /\ NewActive(p) \in Interval \cup {NoInterval}
        /\ NewHist(p) \in Seq(Closed)
        /\ NewEvent(p) \in Event
        /\ NextVersion(shift[a]) \in Nat /\ NextVersion(la[a]) \in Nat
    BY <1>1, CommitTypes
  <1>4. TypeOK'
    <2>1. shift' \in [Associates -> ShiftRow \cup {NoRow}]
      BY <1>3 DEF Commit, TypeOK, ShiftRow
    <2>2. la' \in [Associates -> LaRow \cup {NoRow}] /\ hist' \in [Associates -> Seq(Closed)]
      <3>1. CASE lock[<<"la", a>>] # p
        BY <1>2, <3>1 DEF TypeOK
      <3>2. CASE lock[<<"la", a>>] = p
        <4>1. PICK row : row = [active |-> NewActive(p), version |-> NextVersion(la[a])]
          OBVIOUS
        <4>2. row \in LaRow
          BY <1>3, <4>1 DEF LaRow
        <4>3. la' = [la EXCEPT ![a] = row] /\ hist' = [hist EXCEPT ![a] = NewHist(p)]
          BY <3>2, <4>1 DEF Commit, TypeOK
        <4>. QED
          BY <1>3, <4>2, <4>3 DEF TypeOK
      <3>. QED
        BY <3>1, <3>2
    <2>3. outbox' \in Seq(Event)
      BY <1>1, <1>3 DEF TypeOK
    <2>. QED
      BY <1>1, <2>1, <2>2, <2>3 DEF Finish, Release, TypeOK, EmptyMem, Mem, Times, Replies
  <1>5. /\ shift[a] # NoRow =>
             /\ shift'[a] # NoRow
             /\ shift'[a] = shift[a] \/ shift'[a].version = shift[a].version + 1
        /\ la[a] # NoRow =>
             /\ la'[a] # NoRow
             /\ (la'[a] = la[a] /\ hist'[a] = hist[a]) \/ la'[a].version = la[a].version + 1
    <2>1. lock[<<"shift", a>>] = p => shift'[a] \in ShiftRow
      BY <1>2, <1>3 DEF ShiftRow
    <2>2. lock[<<"la", a>>] = p => la'[a] \in LaRow
      BY <1>2, <1>3 DEF LaRow
    <2>. QED
      BY <1>2, <2>1, <2>2 DEF NextVersion
  <1>6. \A q \in Handlers \ {p} : /\ pc'[q] = pc[q] /\ call'[q] = call[q]
                                  /\ mem'[q] = mem[q] /\ todo'[q] = todo[q]
    BY <1>1 DEF Finish, TypeOK
  <1>7. VersionNamesTheValue'
    <2> SUFFICES ASSUME NEW q \in Handlers, pc'[q] # "idle" PROVE CurrentRead(q)'
      BY DEF VersionNamesTheValue
    <2>1. q # p /\ pc[q] # "idle" /\ CurrentRead(q)
      BY <1>1, <1>6 DEF Finish, TypeOK, VersionNamesTheValue
    <2>2. PICK b \in Associates : b = call[q].who
      BY <2>1 DEF HandlerInv, Call
    <2>3. pc'[q] = pc[q] /\ call'[q] = call[q] /\ mem'[q] = mem[q]
      BY <1>6, <2>1
    <2>4. CASE b # a
      BY <1>2, <2>1, <2>2, <2>3, <2>4 DEF CurrentRead
    <2>5. CASE b = a
      <3>1. mem[q].shift # NoRow => shift[a].version \in Nat /\ mem[q].shift.version \in Nat
        BY <1>2, <2>1, <2>2, <2>5 DEF CurrentRead, TypeOK, Mem, ShiftRow
      <3>2. mem[q].la # NoRow => la[a].version \in Nat /\ mem[q].la.version \in Nat
        BY <1>2, <2>1, <2>2, <2>5 DEF CurrentRead, TypeOK, Mem, LaRow
      <3>3. mem[q].shift # NoRow =>
              /\ shift'[a] # NoRow
              /\ mem[q].shift.version <= shift'[a].version
              /\ mem[q].shift.version = shift'[a].version => mem[q].shift = shift'[a]
        BY <1>5, <2>1, <2>2, <2>5, <3>1 DEF CurrentRead
      <3>4. mem[q].la # NoRow =>
              /\ la'[a] # NoRow
              /\ mem[q].la.version <= la'[a].version
              /\ mem[q].la.version = la'[a].version =>
                    /\ mem[q].la = la'[a]
                    /\ pc[q] # "history" => mem[q].hist = hist'[a]
        BY <1>5, <2>1, <2>2, <2>5, <3>2 DEF CurrentRead
      <3>. QED
        BY <2>2, <2>3, <2>5, <3>3, <3>4 DEF CurrentRead
    <2>. QED
      BY <2>4, <2>5
  <1>8. RowsStartEmpty'
    <2>1. ASSUME NEW b \in Associates, b # a
          PROVE  /\ shift'[b] # NoRow => shift'[b].version >= 1
                 /\ la'[b] # NoRow => la'[b].version >= 1
                 /\ (la'[b] = NoRow \/ la'[b].version = 1) => hist'[b] = << >>
      BY <1>2, <2>1 DEF RowsStartEmpty
    <2>2. shift'[a] # NoRow => shift'[a].version >= 1
      BY <1>2 DEF RowsStartEmpty, NextVersion, TypeOK, ShiftRow
    <2>3. CASE lock[<<"la", a>>] # p
      BY <1>2, <2>1, <2>2, <2>3 DEF RowsStartEmpty
    <2>4. CASE lock[<<"la", a>>] = p
      <3>1. la'[a] # NoRow /\ la'[a].version = NextVersion(la[a])
        <4>1. la'[a] \in LaRow
          BY <1>2, <1>3, <2>4 DEF LaRow
        <4>. QED
          BY <1>2, <2>4, <4>1
      <3>2. CASE la[a] = NoRow
        <4>1. mem[p].la = NoRow
          BY <1>1, <3>2 DEF VersionNamesTheValue, CurrentRead
        <4>2. NewHist(p) = << >>
          BY <1>1, <4>1 DEF HandlerInv, NewHist, CloseActive, ActiveRead
        <4>. QED
          BY <1>2, <2>1, <2>2, <2>4, <3>1, <3>2, <4>2 DEF RowsStartEmpty, NextVersion
      <3>3. CASE la[a] # NoRow
        <4>1. la[a].version \in Nat /\ la[a].version >= 1
          BY <1>2, <3>3 DEF TypeOK, LaRow, RowsStartEmpty
        <4>2. la'[a].version >= 1 /\ la'[a].version # 1
          BY <3>1, <3>3, <4>1 DEF NextVersion
        <4>. QED
          BY <2>1, <2>2, <3>1, <4>2 DEF RowsStartEmpty
      <3>. QED
        BY <3>2, <3>3
    <2>. QED
      BY <2>3, <2>4
  <1>9. HandlerInv(p)' /\ SavesInv(p)'
    BY <1>1 DEF Finish, TypeOK, HandlerInv, SavesInv
  <1>10. ASSUME NEW q \in Handlers, q # p PROVE HandlerInv(q)' /\ SavesInv(q)'
    <2>1. pc[q] # "idle" => \A t \in Tables :
               (lock'[<<t, call[q].who>>] = q) <=> (lock[<<t, call[q].who>>] = q)
      BY <1>1, <1>10 DEF TypeOK, Release, HandlerInv, Call
    <2>. QED
      BY <1>6, <1>10, <2>1, HandlerFrame, SavesFrame
  <1>11. LocksInv'
    <2>1. ASSUME NEW t \in Tables, NEW b \in Associates, lock'[<<t, b>>] # NoOne,
                 NEW q, q = lock[<<t, b>>]
          PROVE  /\ lock'[<<t, b>>] = q
                 /\ pc'[q] \in {"save", "publish", "commit"}
                 /\ call'[q] = call[q] /\ mem'[q].shift = mem[q].shift /\ mem'[q].la = mem[q].la
                 /\ t = "shift" => shift'[b] = shift[b]
                 /\ t = "la" => la'[b] = la[b]
      <3>1. lock'[<<t, b>>] = q /\ q \in Handlers \ {p}
        BY <1>1, <2>1 DEF Release, TypeOK
      <3>2. pc[q] \in {"save", "publish", "commit"}
        BY <2>1, <3>1 DEF LocksInv
      <3>3. (t = "shift" => shift'[b] = shift[b]) /\ (t = "la" => la'[b] = la[b])
        BY <1>2, <2>1, <3>1
      <3>. QED
        BY <1>6, <3>1, <3>2, <3>3
    <2>. QED
      BY <2>1, LocksFrame
  <1>. QED
    BY <1>4, <1>7, <1>8, <1>9, <1>10, <1>11

-----------------------------------------------------------------------------
(* The theorems *)

\* Every step of every handler, and of the clock, keeps the inductive invariant.
LEMMA NextInv == IInv /\ [Next]_vars => IInv'
  <1> SUFFICES ASSUME IInv, [Next]_vars PROVE IInv'
    OBVIOUS
  <1> USE DomainAssumption, RosterAssumption
  <1>1. CASE Tick \/ UNCHANGED vars
    <2>1. /\ UNCHANGED <<shift, la, hist, outbox, lastId, lock, pc, call, mem, todo, reply, started>>
          /\ now' \in Times
      BY <1>1 DEF Tick, vars, handler, db, IInv, TypeOK, Times
    <2>2. TypeOK'
      BY <2>1 DEF IInv, TypeOK
    <2>3. VersionNamesTheValue' /\ RowsStartEmpty'
      BY <2>1 DEF IInv, VersionNamesTheValue, CurrentRead, RowsStartEmpty
    <2>4. ASSUME NEW q \in Handlers PROVE HandlerInv(q)' /\ SavesInv(q)'
      BY <2>1, HandlerFrame, SavesFrame DEF IInv
    <2>5. LocksInv'
      BY <2>1 DEF IInv, LocksInv, VersionMatches
    <2>. QED
      BY <2>2, <2>3, <2>4, <2>5 DEF IInv
  <1>2. ASSUME NEW p \in Handlers, Arrive(p) \/ Work(p) \/ Fail(p) PROVE IInv'
    <2>1. CASE Conflict(p) \/ DeadlockVictim(p) \/ Fail(p)
      BY <2>1, AbortInv DEF Conflict, DeadlockVictim, Fail, Replies
    <2>. QED
      BY <1>2, <2>1, ArriveInv, ReadClockInv, FindAssignmentInv, FindHistoryInv,
         DecideAssignInv, DecideEndInv, SaveInv, PublishInv, CommitInv DEF Work
  <1>. QED
    BY <1>1, <1>2 DEF Next

\* The inductive invariant holds in every state of the roster.
THEOREM Invariance == Spec => []IInv
  BY InitInv, NextInv, PTL DEF Spec

\* (TypeOK) Whatever handlers do concurrently, tables, outbox and handlers keep
\* their types: the history holds closed intervals only, hours are integers.
THEOREM TypeCorrect == Spec => []TypeOK
  <1>1. IInv => TypeOK
    BY DEF IInv
  <1>. QED
    BY <1>1, Invariance, PTL

\* (SELECT ... version) For any number of handlers, associates and paths, a version
\* names one value of the row and of its history.
THEOREM VersionsNameValues == Spec => []VersionNamesTheValue
  <1>1. IInv => VersionNamesTheValue
    BY DEF IInv
  <1>. QED
    BY <1>1, Invariance, PTL

\* Only a commit changes the tables.
LEMMA OnlyCommitsWrite ==
    ASSUME [Next]_vars
    PROVE  UNCHANGED <<shift, la, hist>> \/ \E p \in Handlers : Commit(p)
  <1> USE DEF db
  <1>1. CASE Tick \/ UNCHANGED vars
    BY <1>1 DEF Tick, vars
  <1>2. ASSUME NEW p \in Handlers, Arrive(p) PROVE UNCHANGED <<shift, la, hist>>
    BY <1>2 DEF Arrive, StartAssociateShift, CertifyAssociate, StartAssociateBreak,
       EndAssociateBreak, AssignLabor, EndAssociateShift, Receive
  <1>3. ASSUME NEW p \in Handlers, Work(p) \/ Fail(p), ~Commit(p)
        PROVE  UNCHANGED <<shift, la, hist>>
    BY <1>3 DEF Work, ReadClock, FindAssignment, FindHistory, DecideAssign, DecideEnd, Save,
       Conflict, Publish, DeadlockVictim, Fail
  <1>. QED
    BY <1>1, <1>2, <1>3 DEF Next

\* (HistoryGrowsByClosing) However reads and commits interleave, the rewritten
\* history of an assignment is the old one, or the old one and the interval the
\* row held, closed: no closed interval is ever lost, changed or invented.
THEOREM HistoryOnlyGrows == Spec => HistoryGrowsByClosing
  <1> DEFINE Grows(a) == hist'[a] # hist[a] =>
                /\ la[a] # NoRow
                /\ la[a].active # NoInterval
                /\ \E at \in Times : hist'[a] = Append(hist[a], CloseAt(la[a].active, at))
  <1>1. ASSUME IInv, [Next]_vars, NEW b \in Associates PROVE Grows(b)
    <2>1. CASE UNCHANGED <<shift, la, hist>>
      BY <2>1
    <2>2. ASSUME NEW p \in Handlers, Commit(p), NEW a, a = call[p].who PROVE Grows(b)
      <3>1. \A c \in Associates \ {a} : hist'[c] = hist[c]
        BY <1>1, <2>2 DEF Commit, IInv, TypeOK
      <3>2. lock[<<"la", a>>] # p => hist' = hist
        BY <1>1, <2>2, CommitEffect
      <3>3. lock[<<"la", a>>] = p => hist'[a] = NewHist(p)
        BY <1>1, <2>2, CommitEffect
      <3>4. CASE b = a /\ lock[<<"la", a>>] = p
        <4>1. pc[p] = "commit" /\ mem[p].at \in Times
          BY <1>1, <2>2 DEF Commit, IInv, TypeOK, Mem
        <4>. QED
          BY <1>1, <2>2, <3>3, <3>4, <4>1, HistoryCommit
      <3>. QED
        BY <3>1, <3>2, <3>4
    <2>. QED
      BY <1>1, <2>1, <2>2, OnlyCommitsWrite
  <1>2. IInv /\ [Next]_vars => [\A a \in Associates : Grows(a)]_vars
    BY <1>1
  <1>. QED
    BY <1>2, Invariance, PTL DEF Spec, HistoryGrowsByClosing

\* (AssociateRepo.Save, ADR 0021) The roster implements AtomicShift: for any number
\* of handlers, every committed change of a shift is one domain method, allowed
\* by its guard, of the value the row held at the commit.  No update is lost.
THEOREM ShiftsAreAtomic == Spec => ShiftIsAtomic
  <1>1. Init => AtomicShifts!Init
    BY DEF Init, AtomicShifts!Init, ShiftObject
  <1>2. IInv /\ [Next]_vars => [AtomicShifts!Next]_ShiftObject
    <2> SUFFICES ASSUME IInv, [Next]_vars PROVE AtomicShifts!Next \/ UNCHANGED ShiftObject
      OBVIOUS
    <2>1. CASE UNCHANGED <<shift, la, hist>>
      BY <2>1 DEF ShiftObject
    <2>2. ASSUME NEW p \in Handlers, Commit(p), NEW a, a = call[p].who
          PROVE  AtomicShifts!Next \/ UNCHANGED ShiftObject
      <3>1. a \in Associates /\ pc[p] = "commit"
        BY <2>2, CommitEffect DEF Commit
      <3>2. CASE lock[<<"shift", a>>] # p
        BY <2>2, <3>2 DEF Commit, ShiftObject
      <3>3. CASE lock[<<"shift", a>>] = p
        <4>1. PICK new : new = NewShift(p)
          OBVIOUS
        <4>2. PICK s : s = shift[a].agg
          OBVIOUS
        <4>3. shift' = [shift EXCEPT ![a] = [agg |-> new, version |-> NextVersion(shift[a])]]
          BY <2>2, <3>3, <4>1 DEF Commit, IInv, TypeOK
        <4>4. shift'[a] # NoRow /\ shift'[a].agg = new
          <5>1. NewShift(p) \in Shift /\ NextVersion(shift[a]) \in Nat
            BY <2>2, <3>1, <3>3, CommitTypes
          <5>. QED
            BY <3>1, <4>1, <4>3, <5>1, NoValueAssumption DEF IInv, TypeOK, ShiftRow
        <4>5. ShiftObject' = [ShiftObject EXCEPT ![a] = new]
          BY <3>1, <4>3, <4>4 DEF ShiftObject, IInv, TypeOK
        <4>6. AtomicShifts!Update(a, new)
          BY <4>5 DEF AtomicShifts!Update
        <4>7. CASE \E certs \in SUBSET Paths : new = NewAssociateShift(certs)
          BY <3>1, <4>6, <4>7 DEF AtomicShifts!Next, AtomicShifts!Restart,
             AtomicShifts!NewAssociateShift, NewAssociateShift
        <4>8. CASE /\ shift[a] # NoRow
                   /\ \/ CanCertify(s) /\ \E c \in Paths : new = Certify(s, c)
                      \/ CanStartBreak(s) /\ new = StartBreak(s)
                      \/ CanEndBreak(s) /\ new = EndBreak(s)
                      \/ \E h \in Durations : CanLogHours(s, h) /\ new = LogHours(s, h)
                      \/ \E h \in Durations : CanLogHours(s, h) /\ new = EndShift(LogHours(s, h))
                      \/ new = EndShift(s)
          <5>1. ShiftObject[a] = s /\ s # NoRow
            <6>1. s \in Shift
              BY <3>1, <4>2, <4>8 DEF IInv, TypeOK, ShiftRow
            <6>. QED
              BY <3>1, <4>2, <4>8, <6>1, NilAssumption DEF ShiftObject
          <5>2. AtomicShifts!Modify(a)
            BY <4>6, <4>8, <5>1 DEF AtomicShifts!Modify,
               AtomicShifts!CanCertify, AtomicShifts!Certify, CanCertify, Certify,
               AtomicShifts!CanStartBreak, AtomicShifts!StartBreak, CanStartBreak, StartBreak,
               AtomicShifts!CanEndBreak, AtomicShifts!EndBreak, CanEndBreak, EndBreak,
               AtomicShifts!CanLogHours, AtomicShifts!LogHours, CanLogHours, LogHours,
               AtomicShifts!EndShift, EndShift, AtomicShifts!Durations, Durations
          <5>. QED
            BY <3>1, <5>2 DEF AtomicShifts!Next
        <4>. QED
          BY <2>2, <3>1, <3>3, <4>1, <4>2, <4>7, <4>8, ShiftCommitIsMethod
      <3>. QED
        BY <3>2, <3>3
    <2>. QED
      BY <2>1, <2>2, OnlyCommitsWrite
  <1>. QED
    BY <1>1, <1>2, Invariance, PTL DEF Spec, ShiftIsAtomic, AtomicShifts!Spec

\* A handler that closes an interval commits the shift and the assignment together.
LEMMA ClosingSavesBoth ==
    ASSUME IInv, NEW p \in Handlers, pc[p] = "commit", NEW a, a = call[p].who,
           ActiveRead(p) # NoInterval
    PROVE  lock[<<"shift", a>>] = p /\ lock[<<"la", a>>] = p
  <1>1. call[p].op \in {"Assign", "End"}
    BY DEF IInv, HandlerInv, ActiveRead
  <1>2. Plan(p) \in {<<"shift", "la">>, <<"la", "shift">>}
    BY <1>1 DEF Plan
  <1>3. Plan(p) # <<"la">> /\ Plan(p) # <<"shift">>
    BY <1>2
  <1>4. Holds(p, "shift") /\ Holds(p, "la")
    BY <1>3 DEF IInv, SavesInv, Tables
  <1>. QED
    BY <1>4 DEF Holds

\* The hours of the shift a handler commits: the latest ones, and those of the
\* interval it closes.
LEMMA HoursOfCommit ==
    ASSUME IInv, NEW p \in Handlers, pc[p] = "commit", NEW a, a = call[p].who,
           lock[<<"shift", a>>] = p, NEW new, new = NewShift(p), NEW s, s = shift[a].agg
    PROVE  \/ new = NewAssociateShift(new.certs) /\ ActiveRead(p) = NoInterval
           \/ s \in Shift /\ new.hours = IF ActiveRead(p) = NoInterval THEN s.hours
                                         ELSE s.hours + ClosingHours(p, mem[p].at)
  <1> USE DEF IInv
  <1>0. call[p].op \in Ops
    BY DEF HandlerInv, Call
  <1>1. CASE call[p].op = "Start"
    <2>1. new = NewAssociateShift(call[p].certs)
      BY <1>1 DEF NewShift
    <2>2. new = NewAssociateShift(new.certs)
      BY <2>1 DEF NewAssociateShift
    <2>3. ActiveRead(p) = NoInterval
      BY <1>1 DEF HandlerInv, ActiveRead
    <2>. QED
      BY <2>2, <2>3
  <1>2. CASE call[p].op # "Start"
    <2>1. mem[p].shift.agg = s /\ s \in Shift
      BY <1>2, ShiftReadIsCurrent
    <2>2. CASE call[p].op \in {"Certify", "StartBreak", "EndBreak"}
      <3>1. ActiveRead(p) = NoInterval
        BY <2>2 DEF HandlerInv, ActiveRead
      <3>2. new \in {Certify(s, call[p].path), StartBreak(s), EndBreak(s)}
        BY <2>1, <2>2 DEF NewShift
      <3>3. new.hours = s.hours
        BY <2>1, <3>2 DEF Certify, StartBreak, EndBreak, Shift
      <3>. QED
        BY <2>1, <3>1, <3>3
    <2>3. CASE call[p].op \in {"Assign", "End"} /\ ActiveRead(p) = NoInterval
      <3>1. new \in {s, EndShift(s)}
        BY <2>1, <2>3 DEF NewShift
      <3>2. new.hours = s.hours
        BY <2>1, <3>1 DEF EndShift, Shift
      <3>. QED
        BY <2>1, <2>3, <3>2
    <2>4. CASE call[p].op \in {"Assign", "End"} /\ ActiveRead(p) # NoInterval
      <3>1. PICK h \in Int : h = ClosingHours(p, mem[p].at)
        BY <2>4, ClosingType, DomainAssumption DEF Durations
      <3>2. new \in {LogHours(s, h), EndShift(LogHours(s, h))}
        BY <2>1, <2>4, <3>1 DEF NewShift
      <3>3. LogHours(s, h) \in Shift /\ LogHours(s, h).hours = s.hours + h
        BY <2>1, <3>1 DEF LogHours, Shift
      <3>4. EndShift(LogHours(s, h)).hours = s.hours + h
        BY <3>3 DEF EndShift, Shift
      <3>. QED
        BY <2>1, <2>4, <3>1, <3>2, <3>3, <3>4
    <2>. QED
      BY <1>0, <1>2, <2>2, <2>3, <2>4 DEF Ops
  <1>. QED
    BY <1>1, <1>2

\* (HoursFollowHistory) For every number of concurrent handlers, the hours of a
\* shift and the history of its assignment move in the same commits.
THEOREM HoursAndHistoryAgree == Spec => HoursFollowHistory
  <1> DEFINE Agree(a) ==
        IF hist'[a] # hist[a]
        THEN shift'[a].agg.hours = shift[a].agg.hours + Hours(hist'[a][Len(hist'[a])])
        ELSE shift'[a] # shift[a] =>
                \/ shift'[a].agg = NewAssociateShift(shift'[a].agg.certs)
                \/ shift'[a].agg.hours = shift[a].agg.hours
  <1>1. ASSUME IInv, [Next]_vars, NEW b \in Associates PROVE Agree(b)
    <2>1. CASE UNCHANGED <<shift, la, hist>>
      BY <2>1
    <2>2. ASSUME NEW p \in Handlers, Commit(p), NEW a, a = call[p].who PROVE Agree(b)
      <3>0. pc[p] = "commit" /\ a \in Associates
        BY <1>1, <2>2 DEF Commit, IInv, HandlerInv, Call
      <3>1. CASE b # a
        BY <1>1, <2>2, <3>1 DEF Commit, IInv, TypeOK
      <3>2. CASE b = a /\ ActiveRead(p) # NoInterval
        <4>1. lock[<<"shift", a>>] = p /\ lock[<<"la", a>>] = p
          BY <1>1, <2>2, <3>0, <3>2, ClosingSavesBoth
        <4>2. PICK iv \in Closed : iv = CloseAt(ActiveRead(p), mem[p].at)
          BY <1>1, <3>0, <3>2, ClosingType
        <4>3. NewHist(p) = Append(hist[a], iv)
          BY <1>1, <2>2, <3>0, <3>2, <4>1, <4>2, HistoryCommit
        <4>4. hist'[a] = Append(hist[a], iv) /\ shift'[a].agg = NewShift(p)
          BY <1>1, <2>2, <3>0, <4>1, <4>3 DEF Commit, IInv, TypeOK
        <4>5. hist'[a] # hist[a] /\ hist'[a][Len(hist'[a])] = iv
          BY <1>1, <3>0, <4>2, <4>4 DEF IInv, TypeOK
        <4>6. NewShift(p).hours = shift[a].agg.hours + ClosingHours(p, mem[p].at)
          BY <1>1, <2>2, <3>0, <3>2, <4>1, HoursOfCommit
        <4>. QED
          BY <3>2, <4>2, <4>4, <4>5, <4>6 DEF ClosingHours
      <3>3. CASE b = a /\ ActiveRead(p) = NoInterval
        <4>1. hist'[a] = hist[a]
          <5>1. lock[<<"la", a>>] = p => NewHist(p) = hist[a]
            BY <1>1, <2>2, <3>0, <3>3, HistoryCommit
          <5>. QED
            BY <1>1, <2>2, <3>0, <5>1 DEF Commit, IInv, TypeOK
        <4>2. CASE lock[<<"shift", a>>] = p
          <5>1. shift'[a].agg = NewShift(p)
            BY <1>1, <2>2, <3>0, <4>2 DEF Commit, IInv, TypeOK
          <5>2. \/ NewShift(p) = NewAssociateShift(NewShift(p).certs)
                \/ NewShift(p).hours = shift[a].agg.hours
            BY <1>1, <2>2, <3>0, <3>3, <4>2, HoursOfCommit
          <5>. QED
            BY <3>3, <4>1, <5>1, <5>2
        <4>3. CASE lock[<<"shift", a>>] # p
          BY <2>2, <3>3, <4>1, <4>3 DEF Commit
        <4>. QED
          BY <4>2, <4>3
      <3>. QED
        BY <3>1, <3>2, <3>3
    <2>. QED
      BY <1>1, <2>1, <2>2, OnlyCommitsWrite
  <1>2. IInv /\ [Next]_vars => [\A a \in Associates : Agree(a)]_vars
    BY <1>1
  <1>. QED
    BY <1>2, Invariance, PTL DEF Spec, HoursFollowHistory

-----------------------------------------------------------------------------
(* The order of the intervals *)

\* What a step that commits nothing does to the times a handler knows.
Recalls(q) ==
    \/ mem'[q].hist = << >> /\ mem'[q].at = 0 /\ ~Opening(q)'
    \/ mem'[q].hist = mem[q].hist /\ mem'[q].at = now
    \/ mem'[q].hist = mem[q].hist /\ mem'[q].at = mem[q].at /\ (Opening(q)' => Opening(q))
    \/ /\ \E a \in Associates : mem'[q].hist = hist[a]
       /\ mem'[q].at = mem[q].at /\ ~Opening(q)'

LEMMA FinishRecalls ==
    ASSUME TypeOK, NEW p \in Handlers, NEW r, Finish(p, r)
    PROVE  Recalls(p)
  BY DEF Finish, TypeOK, Recalls, Opening, EmptyMem

LEMMA ReceiveRecalls ==
    ASSUME TypeOK, NEW p \in Handlers, NEW c \in Call, NEW accepted \in BOOLEAN,
           NEW next, NEW saves, Receive(p, c, accepted, next, saves),
           \/ next = "save" /\ c.op \notin {"Assign", "End"}
           \/ next = "row" /\ c.op = "Assign"
           \/ next = "clock" /\ c.op = "End"
    PROVE  Recalls(p)
  <1>1. CASE accepted
    <2>1. /\ pc'[p] = next /\ call'[p] = c
          /\ mem'[p] = [mem[p] EXCEPT !.shift = shift[c.who]] /\ mem[p] \in Mem
      BY <1>1 DEF Receive, TypeOK
    <2>2. mem'[p].hist = mem[p].hist /\ mem'[p].at = mem[p].at
      BY <2>1 DEF Mem
    <2> QED
      BY <2>1, <2>2 DEF Recalls, Opening
  <1>2. CASE ~accepted
    BY <1>2, FinishRecalls DEF Receive
  <1> QED
    BY <1>1, <1>2

LEMMA ArriveRecalls ==
    ASSUME TypeOK, NEW p \in Handlers, Arrive(p)
    PROVE  Recalls(p)
  <1> PICK a \in Associates :
        \/ \E certs \in SUBSET Paths : StartAssociateShift(p, a, certs)
        \/ \E c \in Paths : CertifyAssociate(p, a, c)
        \/ StartAssociateBreak(p, a)
        \/ EndAssociateBreak(p, a)
        \/ \E path \in Paths : AssignLabor(p, a, path)
        \/ EndAssociateShift(p, a)
    BY DEF Arrive
  <1>1. ASSUME NEW certs \in SUBSET Paths, StartAssociateShift(p, a, certs) PROVE Recalls(p)
    BY <1>1, ReceiveRecalls DEF StartAssociateShift, Request, Call, Ops, Found
  <1>2. ASSUME NEW c \in Paths, CertifyAssociate(p, a, c) PROVE Recalls(p)
    BY <1>2, ReceiveRecalls DEF CertifyAssociate, Request, Call, Ops, Found
  <1>3. CASE StartAssociateBreak(p, a)
    BY <1>3, ReceiveRecalls DEF StartAssociateBreak, Request, Call, Ops, Found
  <1>4. CASE EndAssociateBreak(p, a)
    BY <1>4, ReceiveRecalls DEF EndAssociateBreak, Request, Call, Ops, Found
  <1>5. ASSUME NEW path \in Paths, AssignLabor(p, a, path) PROVE Recalls(p)
    BY <1>5, ReceiveRecalls DEF AssignLabor, Request, Call, Ops, Found
  <1>6. CASE EndAssociateShift(p, a)
    BY <1>6, ReceiveRecalls DEF EndAssociateShift, Request, Call, Ops, Found
  <1> QED
    BY <1>1, <1>2, <1>3, <1>4, <1>5, <1>6

LEMMA WorkRecalls ==
    ASSUME IInv, NEW p \in Handlers, Work(p) \/ Fail(p), ~Commit(p)
    PROVE  Recalls(p)
  <1>1. TypeOK /\ mem[p] \in Mem
    BY DEF IInv, TypeOK
  <1>2. CASE ReadClock(p)
    <2>1. mem'[p] = [mem[p] EXCEPT !.at = now]
      BY <1>1, <1>2 DEF ReadClock, TypeOK
    <2> QED
      BY <1>1, <2>1 DEF Mem, Recalls
  <1>3. CASE FindAssignment(p)
    <2>1. /\ mem'[p] = [mem[p] EXCEPT !.la = la[call[p].who]]
          /\ pc'[p] \in {"decide", "history"}
      BY <1>1, <1>3 DEF FindAssignment, TypeOK
    <2>2. mem'[p].hist = mem[p].hist /\ mem'[p].at = mem[p].at
      BY <1>1, <2>1 DEF Mem
    <2> QED
      BY <2>1, <2>2 DEF Recalls, Opening
  <1>4. CASE FindHistory(p)
    <2>1. /\ mem'[p] = [mem[p] EXCEPT !.hist = hist[call[p].who]]
          /\ pc[p] = "history" /\ pc'[p] = "decide"
      BY <1>1, <1>4 DEF FindHistory, TypeOK
    <2>2. mem'[p].hist = hist[call[p].who] /\ mem'[p].at = mem[p].at
      BY <1>1, <2>1 DEF Mem
    <2>3. call[p].who \in Associates
      BY <2>1 DEF IInv, HandlerInv, Call
    <2> QED
      BY <2>1, <2>2, <2>3 DEF Recalls, Opening
  <1>5. CASE DecideAssign(p)
    <2>1. Finish(p, "rejected") \/ mem' = [mem EXCEPT ![p].at = now]
      BY <1>5 DEF DecideAssign
    <2>2. ASSUME mem' = [mem EXCEPT ![p].at = now] PROVE Recalls(p)
      <3>1. mem'[p] = [mem[p] EXCEPT !.at = now]
        BY <1>1, <2>2 DEF TypeOK
      <3> QED
        BY <1>1, <3>1 DEF Mem, Recalls
    <2> QED
      BY <1>1, <2>1, <2>2, FinishRecalls
  <1>6. CASE DecideEnd(p)
    <2>1. Finish(p, "rejected") \/ (mem' = mem /\ call' = call /\ call[p].op = "End")
      BY <1>6 DEF DecideEnd
    <2>2. ASSUME mem' = mem, call' = call, call[p].op = "End" PROVE Recalls(p)
      BY <2>2 DEF Recalls, Opening
    <2> QED
      BY <1>1, <2>1, <2>2, FinishRecalls
  <1>7. CASE Save(p)
    BY <1>7 DEF Save, Recalls, Opening
  <1>8. CASE Publish(p)
    <2>1. /\ mem' = mem \/ mem' = [mem EXCEPT ![p].id = lastId + 1]
          /\ call' = call /\ pc[p] = "publish"
      BY <1>8 DEF Publish
    <2>2. mem'[p].hist = mem[p].hist /\ mem'[p].at = mem[p].at
      <3>1. CASE mem' = [mem EXCEPT ![p].id = lastId + 1]
        <4>1. mem'[p] = [mem[p] EXCEPT !.id = lastId + 1]
          BY <1>1, <3>1 DEF TypeOK
        <4> QED
          BY <1>1, <4>1 DEF Mem
      <3> QED
        BY <2>1, <3>1
    <2> QED
      BY <2>1, <2>2 DEF Recalls, Opening
  <1>9. CASE Conflict(p) \/ DeadlockVictim(p) \/ Fail(p)
    BY <1>1, <1>9, FinishRecalls DEF Conflict, DeadlockVictim, Fail
  <1> QED
    BY <1>2, <1>3, <1>4, <1>5, <1>6, <1>7, <1>8, <1>9 DEF Work

\* A handler's step does not touch the others, and only Tick moves the clock.
LEMMA OthersStand ==
    ASSUME TypeOK, NEW p \in Handlers, Arrive(p) \/ Work(p) \/ Fail(p)
    PROVE  /\ now' = now
           /\ \A q \in Handlers \ {p} :
                 pc'[q] = pc[q] /\ call'[q] = call[q] /\ mem'[q] = mem[q]
  <1>1. CASE Arrive(p)
    BY <1>1 DEF Arrive, StartAssociateShift, CertifyAssociate, StartAssociateBreak,
       EndAssociateBreak, AssignLabor, EndAssociateShift, Receive, Finish, TypeOK
  <1>2. CASE Work(p) \/ Fail(p)
    BY <1>2 DEF Work, ReadClock, FindAssignment, FindHistory, DecideAssign, DecideEnd, Save,
       Conflict, Publish, Commit, DeadlockVictim, Fail, Finish, TypeOK
  <1> QED
    BY <1>1, <1>2

LEMMA EndedLater ==
    ASSUME NEW h \in Seq(Closed), NEW t \in Int, NEW u \in Int, t <= u, EndedBy(h, t)
    PROVE  EndedBy(h, u)
  <1> SUFFICES ASSUME NEW i \in 1 .. Len(h) PROVE h[i].end <= u
    BY DEF EndedBy
  <1>1. h[i] \in Closed /\ h[i].end <= t
    BY DEF EndedBy
  <1>2. h[i].end \in Int
    BY <1>1, DomainAssumption DEF Closed, Times
  <1> QED
    BY <1>1, <1>2

LEMMA TimesKept ==
    ASSUME IInv, TimesInv, now' \in Times, now <= now', NEW q \in Handlers, Recalls(q)
    PROVE  /\ mem'[q].at <= now' /\ EndedBy(mem'[q].hist, now')
           /\ Opening(q)' => EndedBy(mem'[q].hist, mem'[q].at)
  <1> USE DomainAssumption
  <1>1. /\ mem[q].hist \in Seq(Closed) /\ mem[q].at \in Int
        /\ now \in Int /\ now' \in Int /\ 0 <= now'
        /\ \A a \in Associates : hist[a] \in Seq(Closed)
    BY DEF IInv, TypeOK, Mem, Times
  <1>2. /\ mem[q].at <= now /\ EndedBy(mem[q].hist, now)
        /\ Opening(q) => EndedBy(mem[q].hist, mem[q].at)
        /\ \A a \in Associates : EndedBy(hist[a], now)
    BY DEF TimesInv
  <1>3. CASE mem'[q].hist = << >> /\ mem'[q].at = 0 /\ ~Opening(q)'
    BY <1>1, <1>3 DEF EndedBy
  <1>4. CASE mem'[q].hist = mem[q].hist /\ mem'[q].at = now
    BY <1>1, <1>2, <1>4, EndedLater
  <1>5. CASE mem'[q].hist = mem[q].hist /\ mem'[q].at = mem[q].at /\ (Opening(q)' => Opening(q))
    BY <1>1, <1>2, <1>5, EndedLater
  <1>6. CASE /\ \E a \in Associates : mem'[q].hist = hist[a]
             /\ mem'[q].at = mem[q].at /\ ~Opening(q)'
    BY <1>1, <1>2, <1>6, EndedLater
  <1> QED
    BY <1>3, <1>4, <1>5, <1>6 DEF Recalls

\* The intervals of one associate, in order.
Ordered(h) == \A i \in 1 .. Len(h) - 1 : h[i].end <= h[i + 1].start

LEMMA AppendOrdered ==
    ASSUME NEW h \in Seq(Closed), NEW iv \in Closed, Ordered(h),
           h # << >> => h[Len(h)].end <= iv.start
    PROVE  Ordered(Append(h, iv))
  <1> SUFFICES ASSUME NEW i \in 1 .. Len(h)
               PROVE  Append(h, iv)[i].end <= Append(h, iv)[i + 1].start
    BY DEF Ordered
  <1>1. CASE i = Len(h)
    BY <1>1
  <1>2. CASE i # Len(h)
    <2>1. i \in 1 .. Len(h) - 1 /\ Append(h, iv)[i] = h[i] /\ Append(h, iv)[i + 1] = h[i + 1]
      BY <1>2
    <2> QED
      BY <2>1 DEF Ordered
  <1> QED
    BY <1>1, <1>2

\* The intervals a commit leaves in the row it writes.
LEMMA CommitOrdered ==
    ASSUME IInv, TimesInv, IntervalsInOrder, NEW p \in Handlers, Commit(p),
           NEW a, a = call[p].who, lock[<<"la", a>>] = p
    PROVE  /\ EndedBy(hist'[a], now)
           /\ Ordered(hist'[a])
           /\ (la'[a] # NoRow /\ la'[a].active # NoInterval /\ hist'[a] # << >>)
                 => hist'[a][Len(hist'[a])].end <= la'[a].active.start
  <1> USE DomainAssumption
  <1> DEFINE closed == CloseAt(la[a].active, mem[p].at)
             opened == [path |-> call[p].path, start |-> mem[p].at]
  <1>1. /\ a \in Associates /\ pc[p] = "commit" /\ hist'[a] = NewHist(p)
        /\ la'[a] = [active |-> NewActive(p), version |-> NextVersion(la[a])]
    BY CommitEffect DEF Commit
  <1>2. /\ hist[a] \in Seq(Closed) /\ mem[p].at \in Times /\ now \in Int
        /\ mem[p].at <= now /\ mem[p].at \in Int
    BY <1>1 DEF IInv, TypeOK, Mem, Times, TimesInv
  <1>3. /\ EndedBy(hist[a], now) /\ Ordered(hist[a])
        /\ (la[a] # NoRow /\ la[a].active # NoInterval /\ hist[a] # << >>)
              => hist[a][Len(hist[a])].end <= la[a].active.start
    BY <1>1 DEF TimesInv, IntervalsInOrder, Ordered
  <1>4. la'[a].active # NoInterval => Opening(p) /\ la'[a].active.start = mem[p].at
    BY <1>1 DEF NewActive, Opening
  <1>5. CASE ActiveRead(p) = NoInterval
    <2>1. hist'[a] = hist[a] /\ hist'[a] = mem[p].hist
      BY <1>1, <1>5, HistoryCommit DEF NewHist, CloseActive
    <2>2. Opening(p) => EndedBy(hist[a], mem[p].at)
      BY <2>1 DEF TimesInv
    <2>3. hist[a] # << >> => Len(hist[a]) \in 1 .. Len(hist[a])
      BY <1>2
    <2> QED
      BY <1>3, <1>4, <2>1, <2>2, <2>3 DEF EndedBy
  <1>6. CASE ActiveRead(p) # NoInterval
    <2>1. /\ la[a] # NoRow /\ la[a].active # NoInterval
          /\ hist'[a] = Append(hist[a], closed) /\ ActiveRead(p) = la[a].active
      BY <1>1, <1>6, HistoryCommit
    <2>2. /\ closed \in Closed /\ closed.start = la[a].active.start /\ closed.end = mem[p].at
      BY <1>1, <1>2, <2>1, ClosingType DEF CloseAt
    <2> HIDE DEF closed
    <2>3. Ordered(hist'[a])
      BY <1>2, <1>3, <2>1, <2>2, AppendOrdered
    <2>4. /\ Len(hist'[a]) = Len(hist[a]) + 1 /\ Len(hist[a]) \in Nat
          /\ hist'[a][Len(hist[a]) + 1] = closed
          /\ \A i \in 1 .. Len(hist[a]) : hist'[a][i] = hist[a][i]
      BY <1>2, <2>1, <2>2
    <2>5. EndedBy(hist'[a], now)
      <3> SUFFICES ASSUME NEW i \in 1 .. Len(hist[a]) + 1 PROVE hist'[a][i].end <= now
        BY <2>4 DEF EndedBy
      <3>1. CASE i = Len(hist[a]) + 1
        BY <1>2, <2>2, <2>4, <3>1
      <3>2. CASE i \in 1 .. Len(hist[a])
        BY <1>3, <2>4, <3>2 DEF EndedBy
      <3> QED
        BY <2>4, <3>1, <3>2
    <2>6. hist'[a][Len(hist'[a])].end = mem[p].at
      BY <2>2, <2>4
    <2> QED
      BY <1>2, <1>4, <2>3, <2>5, <2>6
  <1> QED
    BY <1>5, <1>6

LEMMA OrderNext == OrderInv /\ [Next]_vars => OrderInv'
  <1> SUFFICES ASSUME OrderInv, [Next]_vars PROVE OrderInv'
    OBVIOUS
  <1> USE DomainAssumption
  <1>1. IInv /\ IInv' /\ TypeOK /\ TimesInv /\ IntervalsInOrder
    BY NextInv DEF OrderInv, IInv
  <1>2. now <= now' /\ now' \in Times /\ now \in Int /\ now' \in Int
        /\ \A q \in Handlers : Recalls(q)
    <2>1. now \in Int /\ now' \in Times /\ now' \in Int
      BY <1>1 DEF IInv, TypeOK, Times
    <2>2. CASE Tick \/ UNCHANGED vars
      <3>1. now <= now' /\ UNCHANGED <<pc, call, mem>>
        BY <2>1, <2>2 DEF Tick, handler, vars
      <3> QED
        BY <2>1, <3>1 DEF Recalls, Opening
    <2>3. ASSUME NEW p \in Handlers, Arrive(p) \/ Work(p) \/ Fail(p)
          PROVE  now <= now' /\ \A q \in Handlers : Recalls(q)
      <3>1. now' = now /\ \A q \in Handlers \ {p} : Recalls(q)
        BY <1>1, <2>3, OthersStand DEF Recalls, Opening
      <3>2. ASSUME Commit(p) PROVE Recalls(p)
        BY <1>1, <3>2, FinishRecalls DEF Commit
      <3>3. Recalls(p)
        BY <1>1, <2>3, <3>2, ArriveRecalls, WorkRecalls
      <3> QED
        BY <2>1, <3>1, <3>3
    <2> QED
      BY <2>1, <2>2, <2>3 DEF Next
  <1>3. ASSUME NEW b \in Associates
        PROVE  /\ EndedBy(hist'[b], now')
               /\ Ordered(hist'[b])
               /\ (la'[b] # NoRow /\ la'[b].active # NoInterval /\ hist'[b] # << >>)
                     => hist'[b][Len(hist'[b])].end <= la'[b].active.start
    <2>1. /\ EndedBy(hist[b], now) /\ Ordered(hist[b])
          /\ (la[b] # NoRow /\ la[b].active # NoInterval /\ hist[b] # << >>)
                => hist[b][Len(hist[b])].end <= la[b].active.start
      BY <1>1 DEF TimesInv, IntervalsInOrder, Ordered
    <2>2. hist[b] \in Seq(Closed) /\ hist'[b] \in Seq(Closed)
      BY <1>1 DEF IInv, TypeOK
    <2>3. CASE la'[b] = la[b] /\ hist'[b] = hist[b]
      BY <1>2, <2>1, <2>2, <2>3, EndedLater
    <2>4. ASSUME NEW p \in Handlers, Commit(p), NEW a, a = call[p].who,
                 ~(la'[b] = la[b] /\ hist'[b] = hist[b])
          PROVE  b = a /\ lock[<<"la", a>>] = p
      <3>1. \A c \in Associates \ {a} : la'[c] = la[c] /\ hist'[c] = hist[c]
        BY <1>1, <2>4 DEF Commit, IInv, TypeOK
      <3>2. lock[<<"la", a>>] # p => la' = la /\ hist' = hist
        BY <1>1, <2>4, CommitEffect
      <3> QED
        BY <2>4, <3>1, <3>2
    <2>5. CASE \E p \in Handlers : Commit(p) /\ ~(la'[b] = la[b] /\ hist'[b] = hist[b])
      <3>1. PICK p \in Handlers : Commit(p) /\ ~(la'[b] = la[b] /\ hist'[b] = hist[b])
        BY <2>5
      <3>2. b = call[p].who /\ lock[<<"la", b>>] = p
        BY <2>4, <3>1
      <3>3. /\ EndedBy(hist'[b], now) /\ Ordered(hist'[b])
            /\ (la'[b] # NoRow /\ la'[b].active # NoInterval /\ hist'[b] # << >>)
                  => hist'[b][Len(hist'[b])].end <= la'[b].active.start
        BY <1>1, <3>1, <3>2, CommitOrdered
      <3> QED
        BY <1>2, <2>2, <3>3, EndedLater
    <2> QED
      BY <2>3, <2>5, OnlyCommitsWrite
  <1>4. TimesInv'
    <2>1. ASSUME NEW q \in Handlers
          PROVE  /\ mem'[q].at <= now' /\ EndedBy(mem'[q].hist, now')
                 /\ Opening(q)' => EndedBy(mem'[q].hist, mem'[q].at)
      BY <1>1, <1>2, TimesKept
    <2>2. \A b \in Associates : EndedBy(hist'[b], now')
      BY <1>3
    <2> QED
      BY <2>1, <2>2 DEF TimesInv, EndedBy
  <1>5. IntervalsInOrder'
    BY <1>3 DEF IntervalsInOrder, Ordered
  <1> QED
    BY <1>1, <1>4, <1>5 DEF OrderInv

\* (invariants.md, "No double-booking across paths, ever") For every number of handlers
\* working on what they read before others committed, no interval of an associate starts
\* before the one before it ended.
THEOREM NoDoubleBooking == Spec => []IntervalsInOrder
  <1>1. Init => OrderInv
    <2>1. ASSUME Init PROVE TimesInv /\ IntervalsInOrder
      BY <2>1 DEF Init, TimesInv, EndedBy, Opening, IntervalsInOrder, EmptyMem
    <2> QED
      BY <2>1, InitInv DEF OrderInv
  <1>2. OrderInv => IntervalsInOrder
    BY DEF OrderInv
  <1> QED
    BY <1>1, <1>2, OrderNext, PTL DEF Spec

-----------------------------------------------------------------------------
(* The view of a consumer: what Replay computes *)

\* h is the function by which Replay is defined.
Views(h, rows, last) ==
    h = [n \in 0 .. last |-> IF n = 0 THEN NewAssociateShift({})
                             ELSE Stepped(rows, n, h[n - 1])]

\* h is the view after each id up to the last.
ViewUpTo(h, rows, last) ==
    /\ DOMAIN h = 0 .. last
    /\ h[0] = NewAssociateShift({})
    /\ \A n \in 1 .. last : h[n] = Stepped(rows, n, h[n - 1])

LEMMA ReplayUnfolds ==
    ASSUME NEW rows, NEW last
    PROVE  Replay(rows, last) = (CHOOSE h : Views(h, rows, last))[last]
  BY DEF Replay, Views

LEMMA ViewsFollow ==
    ASSUME NEW rows, NEW last \in Nat, NEW h, Views(h, rows, last)
    PROVE  ViewUpTo(h, rows, last)
  <1>1. \A n \in 0 .. last :
           h[n] = IF n = 0 THEN NewAssociateShift({}) ELSE Stepped(rows, n, h[n - 1])
    BY DEF Views
  <1>2. DOMAIN h = 0 .. last
    BY DEF Views
  <1> QED
    BY <1>1, <1>2 DEF ViewUpTo

LEMMA ViewsExist ==
    ASSUME NEW rows, NEW last \in Nat
    PROVE  \E h : Views(h, rows, last)
  <1> DEFINE D == {n \in Nat : \E h : Views(h, rows, n)}
  <1>1. 0 \in D
    <2> DEFINE h == [n \in 0 .. 0 |-> NewAssociateShift({})]
    <2>1. Views(h, rows, 0)
      BY DEF Views
    <2> QED
      BY <2>1
  <1>2. ASSUME NEW n \in Nat, n \in D PROVE n + 1 \in D
    <2>1. PICK h : Views(h, rows, n)
      BY <1>2
    <2>2. \A k \in 0 .. n :
             h[k] = IF k = 0 THEN NewAssociateShift({}) ELSE Stepped(rows, k, h[k - 1])
      BY <2>1 DEF Views
    <2> DEFINE g == [k \in 0 .. n + 1 |->
                        IF k = n + 1 THEN Stepped(rows, n + 1, h[n]) ELSE h[k]]
    <2>3. \A k \in 0 .. n + 1 :
             g[k] = IF k = 0 THEN NewAssociateShift({}) ELSE Stepped(rows, k, g[k - 1])
      <3> SUFFICES ASSUME NEW k \in 0 .. n + 1
                   PROVE  g[k] = IF k = 0 THEN NewAssociateShift({})
                                 ELSE Stepped(rows, k, g[k - 1])
        OBVIOUS
      <3>1. CASE k = n + 1
        <4>1. g[k] = Stepped(rows, k, h[n]) /\ g[k - 1] = h[n] /\ k # 0
          BY <3>1
        <4> HIDE DEF g
        <4> QED
          BY <4>1
      <3>2. CASE k # n + 1
        <4>1. g[k] = h[k] /\ k \in 0 .. n /\ (k # 0 => g[k - 1] = h[k - 1])
          BY <3>2
        <4> HIDE DEF g
        <4> QED
          BY <2>2, <4>1
      <3> QED
        BY <3>1, <3>2
    <2>4. g = [k \in 0 .. n + 1 |-> g[k]]
      OBVIOUS
    <2> HIDE DEF g
    <2>5. g = [k \in 0 .. n + 1 |-> IF k = 0 THEN NewAssociateShift({})
                                    ELSE Stepped(rows, k, g[k - 1])]
      BY <2>3, <2>4
    <2> QED
      BY <2>5 DEF Views
  <1>3. last \in D
    <2> HIDE DEF D
    <2> QED
      BY <1>1, <1>2, CountingUp
  <1> QED
    BY <1>3

LEMMA ViewsAgree ==
    ASSUME NEW rows, NEW last \in Nat, NEW more \in Nat, last <= more,
           NEW h, NEW g, ViewUpTo(h, rows, last), ViewUpTo(g, rows, more)
    PROVE  h[last] = g[last]
  <1> DEFINE D == {n \in Nat : n <= last => h[n] = g[n]}
  <1>1. 0 \in D
    BY DEF ViewUpTo
  <1>2. ASSUME NEW n \in Nat, n \in D PROVE n + 1 \in D
    <2> SUFFICES ASSUME n + 1 <= last PROVE h[n + 1] = g[n + 1]
      OBVIOUS
    <2>1. h[n] = g[n] /\ n + 1 \in 1 .. last /\ n + 1 \in 1 .. more /\ (n + 1) - 1 = n
      BY <1>2
    <2> QED
      BY <2>1 DEF ViewUpTo
  <1>3. last \in D
    <2> HIDE DEF D
    <2> QED
      BY <1>1, <1>2, CountingUp
  <1> QED
    BY <1>3

\* The view after no id, and the view after one id more.
LEMMA ReplaySteps ==
    ASSUME NEW rows
    PROVE  /\ Replay(rows, 0) = NewAssociateShift({})
           /\ \A n \in Nat : Replay(rows, n + 1) = Stepped(rows, n + 1, Replay(rows, n))
  <1>1. ASSUME NEW n \in Nat
        PROVE  \E h : ViewUpTo(h, rows, n) /\ Replay(rows, n) = h[n]
    <2>1. Views(CHOOSE h : Views(h, rows, n), rows, n)
      BY ViewsExist
    <2> QED
      BY <2>1, ReplayUnfolds, ViewsFollow
  <1>2. Replay(rows, 0) = NewAssociateShift({})
    BY <1>1 DEF ViewUpTo
  <1>3. ASSUME NEW n \in Nat
        PROVE  Replay(rows, n + 1) = Stepped(rows, n + 1, Replay(rows, n))
    <2>1. PICK h : ViewUpTo(h, rows, n) /\ Replay(rows, n) = h[n]
      BY <1>1
    <2>2. PICK g : ViewUpTo(g, rows, n + 1) /\ Replay(rows, n + 1) = g[n + 1]
      BY <1>1
    <2>3. h[n] = g[n]
      BY <2>1, <2>2, ViewsAgree
    <2>4. n + 1 \in 1 .. n + 1 /\ (n + 1) - 1 = n
      OBVIOUS
    <2>5. g[n + 1] = Stepped(rows, n + 1, g[n])
      BY <2>2, <2>4 DEF ViewUpTo
    <2> QED
      BY <2>1, <2>2, <2>3, <2>5
  <1> QED
    BY <1>2, <1>3

\* An id that no row has changes nothing.
LEMMA ReplayIdle ==
    ASSUME NEW rows, NEW n \in Nat, \A e \in rows : e.id # n + 1
    PROVE  Replay(rows, n + 1) = Replay(rows, n)
  <1>1. RowsAt(rows, n + 1) = {}
    BY DEF RowsAt
  <1> QED
    BY <1>1, ReplaySteps DEF Stepped

\* A view has the fields of a shift.
IsView(s) ==
    \E certs, onBreak, hours, ended :
        s = [certs |-> certs, onBreak |-> onBreak, hours |-> hours, ended |-> ended]

LEMMA ApplyView ==
    ASSUME NEW s, IsView(s), NEW e, e.type \in ShiftEvents
    PROVE  IsView(Apply(s, e))
  <1>1. PICK certs, onBreak, hours, ended :
            s = [certs |-> certs, onBreak |-> onBreak, hours |-> hours, ended |-> ended]
    BY DEF IsView
  <1>2. CASE e.type = "AssociateShiftStarted"
    BY <1>2 DEF IsView, Apply, NewAssociateShift
  <1>3. CASE e.type = "AssociateCertified"
    <2>1. Apply(s, e) = [certs |-> certs \cup {e.path}, onBreak |-> onBreak,
                         hours |-> hours, ended |-> ended]
      BY <1>1, <1>3 DEF Apply, Certify
    <2> QED
      BY <2>1 DEF IsView
  <1>4. CASE e.type = "AssociateBreakStarted"
    <2>1. Apply(s, e) = [certs |-> certs, onBreak |-> TRUE, hours |-> hours, ended |-> ended]
      BY <1>1, <1>4 DEF Apply, StartBreak
    <2> QED
      BY <2>1 DEF IsView
  <1>5. CASE e.type = "AssociateBreakEnded"
    <2>1. Apply(s, e) = [certs |-> certs, onBreak |-> FALSE, hours |-> hours, ended |-> ended]
      BY <1>1, <1>5 DEF Apply, EndBreak
    <2> QED
      BY <2>1 DEF IsView
  <1>6. CASE e.type = "AssociateShiftEnded"
    <2>1. Apply(s, e) = [certs |-> certs, onBreak |-> onBreak, hours |-> hours, ended |-> TRUE]
      BY <1>1, <1>6 DEF Apply, EndShift
    <2> QED
      BY <2>1 DEF IsView
  <1> QED
    BY <1>2, <1>3, <1>4, <1>5, <1>6 DEF ShiftEvents

LEMMA ReplayIsView ==
    ASSUME NEW rows, \A e \in rows : e.type \in ShiftEvents, NEW last \in Nat
    PROVE  IsView(Replay(rows, last))
  <1> DEFINE D == {n \in Nat : IsView(Replay(rows, n))}
  <1>1. 0 \in D
    BY ReplaySteps DEF IsView, NewAssociateShift
  <1>2. ASSUME NEW n \in Nat, n \in D PROVE n + 1 \in D
    <2>1. Replay(rows, n + 1) = Stepped(rows, n + 1, Replay(rows, n))
      BY ReplaySteps
    <2>2. CASE RowsAt(rows, n + 1) = {}
      BY <1>2, <2>1, <2>2 DEF Stepped
    <2>3. CASE RowsAt(rows, n + 1) # {}
      <3>1. PICK e \in rows : Stepped(rows, n + 1, Replay(rows, n)) = Apply(Replay(rows, n), e)
        BY <2>3 DEF Stepped, RowsAt, TheRow
      <3> QED
        BY <1>2, <2>1, <3>1, ApplyView
    <2> QED
      BY <2>2, <2>3
  <1>3. last \in D
    <2> HIDE DEF D
    <2> QED
      BY <1>1, <1>2, CountingUp
  <1> QED
    BY <1>3

\* A row adds nothing at another id.
LEMMA RowsElsewhere ==
    ASSUME NEW rows, NEW e, NEW n, e.id # n
    PROVE  RowsAt(rows \cup {e}, n) = RowsAt(rows, n)
  <1>1. ASSUME NEW d \in rows \cup {e}, d.id = n PROVE d \in rows
    BY <1>1
  <1>2. {d \in rows \cup {e} : d.id = n} = {d \in rows : d.id = n}
    BY <1>1
  <1> QED
    BY <1>2 DEF RowsAt

\* One row more, with an id after those of the others, is applied last.
LEMMA ReplayLater ==
    ASSUME NEW rows, NEW last \in Nat, NEW e, e.id \in 1 .. last,
           \A d \in rows : d.id \in Nat /\ d.id < e.id
    PROVE  Replay(rows \cup {e}, last) = Apply(Replay(rows, last), e)
  <1> DEFINE all == rows \cup {e}
             k == e.id
             D == {n \in Nat : Replay(all, n) = IF n < k THEN Replay(rows, n)
                                                ELSE Apply(Replay(rows, n), e)}
  <1>0. k \in Nat /\ 1 <= k /\ k <= last
    OBVIOUS
  <1>1. 0 \in D
    BY <1>0, ReplaySteps
  <1>2. ASSUME NEW n \in Nat, n \in D PROVE n + 1 \in D
    <2>1. /\ Replay(all, n + 1) = Stepped(all, n + 1, Replay(all, n))
          /\ Replay(rows, n + 1) = Stepped(rows, n + 1, Replay(rows, n))
      BY ReplaySteps
    <2>2. Replay(all, n) = IF n < k THEN Replay(rows, n) ELSE Apply(Replay(rows, n), e)
      BY <1>2
    <2>3. CASE n + 1 < k
      <3>1. RowsAt(all, n + 1) = RowsAt(rows, n + 1)
        <4>1. e.id # n + 1
          BY <1>0, <2>3
        <4> QED
          BY <4>1, RowsElsewhere
      <3>2. n < k
        BY <1>0, <2>3
      <3>3. Stepped(all, n + 1, Replay(rows, n)) = Stepped(rows, n + 1, Replay(rows, n))
        BY <3>1 DEF Stepped
      <3>4. Replay(all, n + 1) = Replay(rows, n + 1)
        BY <2>1, <2>2, <3>2, <3>3
      <3> QED
        BY <2>3, <3>4
    <2>4. CASE n + 1 = k
      <3>1. RowsAt(all, n + 1) = {e} /\ RowsAt(rows, n + 1) = {}
        BY <1>0, <2>4 DEF RowsAt
      <3>2. TheRow({e}) = e
        BY DEF TheRow
      <3>3. n < k /\ ~(n + 1 < k)
        BY <1>0, <2>4
      <3>4. Stepped(all, n + 1, Replay(all, n)) = Apply(Replay(all, n), e)
        BY <3>1, <3>2 DEF Stepped
      <3> QED
        BY <1>0, <2>1, <2>2, <2>4, <3>1, <3>3, <3>4 DEF Stepped
    <2>5. CASE n + 1 > k
      <3>1. RowsAt(all, n + 1) = {} /\ RowsAt(rows, n + 1) = {} /\ ~(n < k) /\ ~(n + 1 < k)
        BY <1>0, <2>5 DEF RowsAt
      <3> QED
        BY <1>0, <2>1, <2>2, <2>5, <3>1 DEF Stepped
    <2> QED
      BY <1>0, <2>3, <2>4, <2>5
  <1>3. last \in D
    <2> HIDE DEF D
    <2> QED
      BY <1>1, <1>2, CountingUp
  <1> QED
    BY <1>0, <1>3

-----------------------------------------------------------------------------
(* The outbox replayed *)

\* A step that is no commit leaves shifts and events alone; a handler it brings to its
\* commit has drawn the next id, if it has an event.
LEMMA NothingCommitted ==
    ASSUME IInv, [Next]_vars, \A p \in Handlers : ~Commit(p)
    PROVE  /\ UNCHANGED <<shift, outbox>>
           /\ lastId' \in {lastId, lastId + 1}
           /\ \A q \in Handlers : pc'[q] = "commit" =>
                 \/ pc[q] = "commit" /\ call'[q] = call[q] /\ mem'[q] = mem[q]
                 \/ /\ call'[q] = call[q]
                    /\ Raises(q)' => mem'[q].id = lastId + 1 /\ lastId' = lastId + 1
  <1> USE DEF db
  <1>0. TypeOK /\ lastId \in Nat
    BY DEF IInv, TypeOK
  <1>1. CASE Tick \/ UNCHANGED vars
    BY <1>1 DEF Tick, vars, handler
  <1>2. ASSUME NEW p \in Handlers, Arrive(p) \/ Work(p) \/ Fail(p)
        PROVE  /\ UNCHANGED <<shift, outbox>>
               /\ lastId' \in {lastId, lastId + 1}
               /\ pc'[p] = "commit" =>
                     /\ call'[p] = call[p]
                     /\ Raises(p)' => mem'[p].id = lastId + 1 /\ lastId' = lastId + 1
    <2>1. CASE Arrive(p)
      <3>1. UNCHANGED <<shift, outbox, lastId>>
        BY <2>1 DEF Arrive, StartAssociateShift, CertifyAssociate, StartAssociateBreak,
           EndAssociateBreak, AssignLabor, EndAssociateShift, Receive
      <3>2. pc'[p] # "commit"
        BY <1>0, <2>1 DEF Arrive, StartAssociateShift, CertifyAssociate, StartAssociateBreak,
           EndAssociateBreak, AssignLabor, EndAssociateShift, Receive, Finish, TypeOK
      <3> QED
        BY <3>1, <3>2
    <2>2. CASE Publish(p)
      <3>1. /\ UNCHANGED <<shift, outbox>> /\ call' = call
            /\ \/ Raises(p) /\ lastId' = lastId + 1 /\ mem' = [mem EXCEPT ![p].id = lastId + 1]
               \/ ~Raises(p) /\ lastId' = lastId /\ mem' = mem
        BY <2>2 DEF Publish
      <3>2. CASE Raises(p)
        <4>1. mem'[p] = [mem[p] EXCEPT !.id = lastId + 1] /\ mem[p] \in Mem
          BY <1>0, <3>1, <3>2 DEF TypeOK
        <4> QED
          BY <3>1, <3>2, <4>1 DEF Mem
      <3>3. CASE ~Raises(p)
        BY <3>1, <3>3 DEF Raises
      <3> QED
        BY <3>2, <3>3
    <2>3. CASE (Work(p) \/ Fail(p)) /\ ~Publish(p)
      <3>1. UNCHANGED <<shift, outbox, lastId>>
        BY <2>3 DEF Work, ReadClock, FindAssignment, FindHistory, DecideAssign, DecideEnd,
           Save, Conflict, DeadlockVictim, Fail
      <3>2. pc'[p] # "commit"
        BY <1>0, <2>3 DEF Work, ReadClock, FindAssignment, FindHistory, DecideAssign,
           DecideEnd, Save, Conflict, DeadlockVictim, Fail, Finish, TypeOK
      <3> QED
        BY <3>1, <3>2
    <2> QED
      BY <1>2, <2>1, <2>2, <2>3
  <1>3. ASSUME NEW p \in Handlers, Arrive(p) \/ Work(p) \/ Fail(p), NEW q \in Handlers \ {p}
        PROVE  pc'[q] = pc[q] /\ call'[q] = call[q] /\ mem'[q] = mem[q]
    BY <1>0, <1>3, OthersStand
  <1>4. CASE \E p \in Handlers : Arrive(p) \/ Work(p) \/ Fail(p)
    <2>1. PICK p \in Handlers : Arrive(p) \/ Work(p) \/ Fail(p)
      BY <1>4
    <2> QED
      BY <1>2, <1>3, <2>1
  <1> QED
    BY <1>1, <1>4 DEF Next

LEMMA ReplaysIdle ==
    ASSUME IInv, ReplaysInv, [Next]_vars, \A p \in Handlers : ~Commit(p)
    PROVE  ReplaysInv'
  <1>1. /\ UNCHANGED <<shift, outbox>>
        /\ lastId' \in {lastId, lastId + 1}
        /\ \A q \in Handlers : pc'[q] = "commit" =>
              \/ pc[q] = "commit" /\ call'[q] = call[q] /\ mem'[q] = mem[q]
              \/ /\ call'[q] = call[q]
                 /\ Raises(q)' => mem'[q].id = lastId + 1 /\ lastId' = lastId + 1
    BY NothingCommitted
  <1>2. lastId \in Nat
    BY DEF IInv, TypeOK
  <1>3. Rows' = Rows /\ \A a : ShiftRows(a)' = ShiftRows(a)
    BY <1>1 DEF Rows, ShiftRows
  <1>4. \A e \in Rows : e.id \in 1 .. lastId
    BY DEF ReplaysInv
  <1>5. \A e \in Rows' : e.id \in 1 .. lastId'
    BY <1>1, <1>2, <1>3, <1>4
  <1>6. ASSUME NEW q \in Handlers, pc'[q] = "commit", Raises(q)'
        PROVE  /\ mem'[q].id \in 1 .. lastId'
               /\ call'[q].op # "Assign" =>
                     \A e \in ShiftRows(call'[q].who) : e.id < mem'[q].id
    <2>1. CASE pc[q] = "commit" /\ call'[q] = call[q] /\ mem'[q] = mem[q]
      <3>1. Raises(q)
        BY <1>6, <2>1 DEF Raises
      <3>2. /\ mem[q].id \in 1 .. lastId
            /\ call[q].op # "Assign" => \A e \in ShiftRows(call[q].who) : e.id < mem[q].id
        BY <2>1, <3>1 DEF ReplaysInv
      <3> QED
        BY <1>1, <1>2, <2>1, <3>2
    <2>2. CASE mem'[q].id = lastId + 1 /\ lastId' = lastId + 1
      <3>1. \A e \in ShiftRows(call'[q].who) : e.id \in 1 .. lastId
        BY <1>4 DEF ShiftRows
      <3> QED
        BY <1>2, <2>2, <3>1
    <2> QED
      BY <1>1, <1>6, <2>1, <2>2
  <1>7. OutboxReplaysToShift'
    <2>1. ASSUME NEW a PROVE Replay(ShiftRows(a), lastId') = Replay(ShiftRows(a), lastId)
      <3>1. \A e \in ShiftRows(a) : e.id # lastId + 1
        BY <1>2, <1>4 DEF ShiftRows
      <3>2. Replay(ShiftRows(a), lastId + 1) = Replay(ShiftRows(a), lastId)
        BY <1>2, <3>1, ReplayIdle
      <3> QED
        BY <1>1, <3>2
    <2>2. OutboxReplaysToShift
      BY DEF ReplaysInv
    <2> QED
      BY <1>1, <1>3, <2>1, <2>2 DEF OutboxReplaysToShift
  <1> QED
    BY <1>3, <1>5, <1>6, <1>7 DEF ReplaysInv

\* A handler with an event of a shift commits under the lock of the shift's row.
LEMMA ShiftEventsAreLocked ==
    ASSUME IInv, NEW p \in Handlers, pc[p] = "commit", call[p].op # "Assign"
    PROVE  lock[<<"shift", call[p].who>>] = p
  <1>1. Plan(p) # <<"la">>
    BY DEF Plan
  <1> QED
    BY <1>1 DEF IInv, SavesInv, Holds, Tables

\* The methods of a shift do to a consumer's view what they do to the shift: they look
\* neither at its hours nor at the certifications it started with.
LEMMA MethodsKeepTheView ==
    ASSUME NEW view, IsView(view), NEW s, IsView(s), SeenAs(s, view)
    PROVE  /\ \A c : SeenAs(Certify(s, c), Certify(view, c))
           /\ SeenAs(StartBreak(s), StartBreak(view))
           /\ SeenAs(EndBreak(s), EndBreak(view))
           /\ SeenAs(EndShift(s), EndShift(view))
           /\ \A h : SeenAs(LogHours(s, h), view)
  <1>1. PICK certs, onBreak, hours, ended :
            s = [certs |-> certs, onBreak |-> onBreak, hours |-> hours, ended |-> ended]
    BY DEF IsView
  <1>2. PICK seen, own : view = [certs |-> seen, onBreak |-> onBreak,
                                 hours |-> own, ended |-> ended]
    BY <1>1 DEF IsView, SeenAs
  <1>3. ASSUME NEW c PROVE SeenAs(Certify(s, c), Certify(view, c))
    BY <1>1, <1>2 DEF SeenAs, Certify
  <1>4. SeenAs(StartBreak(s), StartBreak(view))
    BY <1>1, <1>2 DEF SeenAs, StartBreak
  <1>5. SeenAs(EndBreak(s), EndBreak(view))
    BY <1>1, <1>2 DEF SeenAs, EndBreak
  <1>6. SeenAs(EndShift(s), EndShift(view))
    BY <1>1, <1>2 DEF SeenAs, EndShift
  <1>7. ASSUME NEW h PROVE SeenAs(LogHours(s, h), view)
    BY <1>1, <1>2 DEF SeenAs, LogHours
  <1> QED
    BY <1>3, <1>4, <1>5, <1>6, <1>7

\* The shift a handler commits is the one a consumer sees after the handler's event.
LEMMA CommitReplays ==
    ASSUME IInv, NEW p \in Handlers, pc[p] = "commit", NEW a, a = call[p].who,
           lock[<<"shift", a>>] = p,
           NEW view, IsView(view), shift[a] # NoRow => SeenAs(shift[a].agg, view),
           NEW next, next = IF call[p].op # "Assign" /\ Raises(p)
                            THEN Apply(view, NewEvent(p)) ELSE view
    PROVE  SeenAs(NewShift(p), next)
  <1>0. call[p] \in Call /\ call[p].op \in Ops
    BY DEF IInv, HandlerInv, Call
  <1>1. CASE call[p].op = "Start"
    <2>1. /\ NewShift(p) = NewAssociateShift(call[p].certs)
          /\ Raises(p) /\ Apply(view, NewEvent(p)) = NewAssociateShift({})
      BY <1>1 DEF NewShift, Raises, Apply, NewEvent, EventType
    <2> QED
      BY <1>1, <2>1 DEF NewAssociateShift, SeenAs
  <1>2. ASSUME call[p].op # "Start" PROVE SeenAs(NewShift(p), next)
    <2>1. PICK s \in Shift : s = shift[a].agg /\ mem[p].shift.agg = s /\ SeenAs(s, view)
      BY <1>2, ShiftReadIsCurrent
    <2>0. IsView(s)
      BY DEF Shift, IsView
    <2>2. /\ \A c : SeenAs(Certify(s, c), Certify(view, c))
          /\ SeenAs(StartBreak(s), StartBreak(view))
          /\ SeenAs(EndBreak(s), EndBreak(view))
          /\ SeenAs(EndShift(s), EndShift(view))
          /\ \A h : SeenAs(LogHours(s, h), view)
      BY <2>0, <2>1, MethodsKeepTheView
    <2>3. CASE call[p].op = "Certify"
      <3>1. NewShift(p) = Certify(s, call[p].path)
        BY <2>1, <2>3 DEF NewShift
      <3>2. Apply(view, NewEvent(p)) = Certify(view, call[p].path) /\ Raises(p)
        BY <2>3 DEF Apply, NewEvent, EventType, Raises
      <3> QED
        BY <2>2, <2>3, <3>1, <3>2
    <2>4. CASE call[p].op = "StartBreak"
      <3>1. NewShift(p) = StartBreak(s)
        BY <2>1, <2>4 DEF NewShift
      <3>2. Apply(view, NewEvent(p)) = StartBreak(view) /\ Raises(p)
        BY <2>4 DEF Apply, NewEvent, EventType, Raises
      <3> QED
        BY <2>2, <2>4, <3>1, <3>2
    <2>5. CASE call[p].op = "EndBreak"
      <3>1. NewShift(p) = EndBreak(s)
        BY <2>1, <2>5 DEF NewShift
      <3>2. Apply(view, NewEvent(p)) = EndBreak(view) /\ Raises(p)
        BY <2>5 DEF Apply, NewEvent, EventType, Raises
      <3> QED
        BY <2>2, <2>5, <3>1, <3>2
    <2>6. CASE call[p].op = "Assign"
      <3>1. NewShift(p) = s \/ \E h : NewShift(p) = LogHours(s, h)
        BY <2>1, <2>6 DEF NewShift
      <3> QED
        BY <2>1, <2>2, <2>6, <3>1
    <2>7. CASE call[p].op = "End"
      <3>1. PICK t : NewShift(p) = EndShift(t) /\ (t = s \/ \E h : t = LogHours(s, h))
        BY <2>1, <2>7 DEF NewShift
      <3>2. SeenAs(t, view) /\ IsView(t)
        BY <2>0, <2>1, <2>2, <3>1 DEF LogHours, IsView
      <3>3. SeenAs(EndShift(t), EndShift(view))
        BY <3>2, MethodsKeepTheView
      <3>4. CASE Raises(p)
        <4>1. Apply(view, NewEvent(p)) = EndShift(view)
          BY <2>7 DEF Apply, NewEvent, EventType
        <4> QED
          BY <2>7, <3>1, <3>3, <3>4, <4>1
      <3>5. CASE ~Raises(p)
        <4>1. s.ended = TRUE
          BY <2>1, <2>7, <3>5 DEF Raises, Shift
        <4>2. EndShift(view) = view
          <5>1. view.ended = TRUE
            BY <2>1, <4>1 DEF SeenAs
          <5> QED
            BY <5>1 DEF IsView, EndShift
        <4> QED
          BY <2>7, <3>1, <3>3, <3>5, <4>2
      <3> QED
        BY <3>4, <3>5
    <2> QED
      BY <1>0, <1>2, <2>3, <2>4, <2>5, <2>6, <2>7 DEF Ops
  <1> QED
    BY <1>1, <1>2

\* One row more among those of an associate's shift.
OfShift(rows, a) == {d \in rows : d.key = a /\ d.type \in ShiftEvents}

LEMMA OneRowMore ==
    ASSUME NEW rows, NEW e, NEW b
    PROVE  OfShift(rows \cup {e}, b) =
              IF e.key = b /\ e.type \in ShiftEvents THEN OfShift(rows, b) \cup {e}
              ELSE OfShift(rows, b)
  <1>1. CASE e.key = b /\ e.type \in ShiftEvents
    <2>1. OfShift(rows \cup {e}, b) \subseteq OfShift(rows, b) \cup {e}
      BY DEF OfShift
    <2>2. OfShift(rows, b) \cup {e} \subseteq OfShift(rows \cup {e}, b)
      BY <1>1 DEF OfShift
    <2> QED
      BY <1>1, <2>1, <2>2
  <1>2. CASE ~(e.key = b /\ e.type \in ShiftEvents)
    <2>1. ASSUME NEW d \in rows \cup {e}, d.key = b, d.type \in ShiftEvents PROVE d \in rows
      BY <1>2, <2>1
    <2>2. {d \in rows \cup {e} : d.key = b /\ d.type \in ShiftEvents}
             = {d \in rows : d.key = b /\ d.type \in ShiftEvents}
      BY <2>1
    <2> QED
      BY <1>2, <2>2 DEF OfShift
  <1> QED
    BY <1>1, <1>2

\* A commit appends its event, with an id after those of the shift's other events.
LEMMA ReplaysCommit ==
    ASSUME IInv, ReplaysInv, NEW p \in Handlers, Commit(p), NEW a, a = call[p].who
    PROVE  ReplaysInv'
  <1> DEFINE e == NewEvent(p)
             last == lastId
  <1>0. /\ a \in Associates /\ call[p].op \in Ops /\ call[p] \in Call
        /\ pc[p] = "commit" /\ lastId \in Nat /\ outbox \in Seq(Event)
    BY CommitEffect DEF IInv, TypeOK, HandlerInv, Call, Commit
  <1>1. /\ lastId' = lastId
        /\ pc'[p] = "idle"
        /\ outbox' = IF Raises(p) THEN Append(outbox, e) ELSE outbox
        /\ \A q \in Handlers \ {p} : pc'[q] = pc[q] /\ call'[q] = call[q] /\ mem'[q] = mem[q]
    BY <1>0 DEF Commit, Finish, IInv, TypeOK
  <1>2. Rows' = IF Raises(p) THEN Rows \cup {e} ELSE Rows
    <2>1. CASE Raises(p)
      <3>1. /\ Len(outbox') = Len(outbox) + 1 /\ Len(outbox) \in Nat
            /\ outbox'[Len(outbox) + 1] = e
            /\ \A i \in 1 .. Len(outbox) : outbox'[i] = outbox[i]
        BY <1>0, <1>1, <2>1, CommitTypes
      <3>2. Rows' \subseteq Rows \cup {e}
        BY <3>1 DEF Rows
      <3>3. Rows \cup {e} \subseteq Rows'
        BY <3>1 DEF Rows
      <3> QED
        BY <2>1, <3>2, <3>3
    <2>2. CASE ~Raises(p)
      BY <1>1, <2>2 DEF Rows
    <2> QED
      BY <2>1, <2>2
  <1>3. /\ \A d \in Rows : d.id \in 1 .. lastId
        /\ Raises(p) => e.id \in 1 .. lastId
        /\ Raises(p) /\ call[p].op # "Assign" => \A d \in ShiftRows(a) : d.id < e.id
        /\ OutboxReplaysToShift
    BY <1>0 DEF ReplaysInv, NewEvent
  <1>4. /\ e.key = a
        /\ e.type \in ShiftEvents <=> call[p].op # "Assign"
    BY <1>0 DEF NewEvent, EventType, ShiftEvents, Ops
  <1> HIDE DEF e
  <1>5. /\ \A b : b # a => ShiftRows(b)' = ShiftRows(b)
        /\ ShiftRows(a)' = IF call[p].op # "Assign" /\ Raises(p) THEN ShiftRows(a) \cup {e}
                           ELSE ShiftRows(a)
    <2>1. CASE ~Raises(p)
      BY <1>2, <2>1 DEF ShiftRows
    <2>2. CASE Raises(p)
      <3>1. \A b : ShiftRows(b) = OfShift(Rows, b) /\ ShiftRows(b)' = OfShift(Rows \cup {e}, b)
        BY <1>2, <2>2 DEF ShiftRows, OfShift
      <3> QED
        BY <1>4, <2>2, <3>1, OneRowMore
    <2> QED
      BY <2>1, <2>2
  <1>6. \A d \in Rows' : d.id \in 1 .. lastId'
    BY <1>1, <1>2, <1>3
  <1>7. ASSUME NEW q \in Handlers, pc'[q] = "commit", Raises(q)'
        PROVE  /\ mem'[q].id \in 1 .. lastId'
               /\ call'[q].op # "Assign" =>
                     \A d \in ShiftRows(call[q].who)' : d.id < mem'[q].id
    <2>1. q # p /\ pc[q] = "commit" /\ call'[q] = call[q] /\ mem'[q] = mem[q]
      BY <1>1, <1>7
    <2>2. Raises(q)
      BY <1>7, <2>1 DEF Raises
    <2>3. /\ mem[q].id \in 1 .. lastId
          /\ call[q].op # "Assign" => \A d \in ShiftRows(call[q].who) : d.id < mem[q].id
      BY <2>1, <2>2 DEF ReplaysInv
    <2>4. ASSUME call[q].op # "Assign" PROVE ShiftRows(call[q].who)' = ShiftRows(call[q].who)
      <3>1. lock[<<"shift", call[q].who>>] = q
        BY <2>1, <2>4, ShiftEventsAreLocked
      <3>2. call[q].who # a \/ call[p].op = "Assign"
        BY <1>0, <2>1, <3>1, ShiftEventsAreLocked
      <3>3. PICK b : b = call[q].who
        OBVIOUS
      <3>4. ShiftRows(b)' = ShiftRows(b)
        BY <1>5, <3>2, <3>3
      <3> QED
        BY <2>1, <3>3, <3>4 DEF ShiftRows
    <2> QED
      BY <1>1, <2>1, <2>3, <2>4
  <1>8. ASSUME NEW b \in Associates
        PROVE  IF shift'[b] = NoRow THEN \A d \in Rows' : d.key # b
               ELSE SeenAs(shift'[b].agg, Replay(ShiftRows(b)', last))
    <2>0. IF shift[b] = NoRow THEN \A d \in Rows : d.key # b
          ELSE SeenAs(shift[b].agg, Replay(ShiftRows(b), last))
      BY <1>3 DEF OutboxReplaysToShift
    <2>1. CASE b # a
      <3>0. shift'[b] = shift[b]
        <4>1. \A c \in Associates \ {a} : shift'[c] = shift[c]
          BY <1>0 DEF Commit, IInv, TypeOK
        <4> QED
          BY <2>1, <4>1
      <3>1. ShiftRows(b)' = ShiftRows(b)
        BY <1>5, <2>1
      <3>2. \A d \in Rows' : d.key = b => d \in Rows
        BY <1>2, <1>4, <2>1
      <3>3. Replay(ShiftRows(b)', last) = Replay(ShiftRows(b), last)
        BY <3>1
      <3> QED
        BY <2>0, <3>0, <3>2, <3>3
    <2>2. CASE b = a /\ lock[<<"shift", a>>] = p
      <3> DEFINE view == Replay(ShiftRows(a), last)
                 next == IF call[p].op # "Assign" /\ Raises(p) THEN Apply(view, e) ELSE view
      <3>1. shift'[a] = [agg |-> NewShift(p), version |-> NextVersion(shift[a])]
        BY <2>2, CommitEffect
      <3>2. shift'[a] # NoRow /\ shift'[a].agg = NewShift(p)
        <4>1. shift'[a] \in ShiftRow
          BY <1>0, <2>2, <3>1, CommitTypes DEF ShiftRow
        <4> QED
          BY <3>1, <4>1, NoValueAssumption
      <3>3. Replay(ShiftRows(a)', last) = next
        <4>1. CASE call[p].op # "Assign" /\ Raises(p)
          <5>1. \A d \in ShiftRows(a) : d.id \in Nat /\ d.id < e.id
            BY <1>3, <4>1 DEF ShiftRows
          <5>2. Replay(ShiftRows(a) \cup {e}, last) = Apply(view, e)
            BY <1>0, <1>3, <4>1, <5>1, ReplayLater
          <5> QED
            BY <1>5, <4>1, <5>2
        <4>2. CASE ~(call[p].op # "Assign" /\ Raises(p))
          BY <1>5, <4>2
        <4> QED
          BY <4>1, <4>2
      <3>4. IsView(view)
        <4>1. \A d \in ShiftRows(a) : d.type \in ShiftEvents
          BY DEF ShiftRows
        <4> QED
          BY <1>0, <4>1, ReplayIsView
      <3>5. shift[a] # NoRow => SeenAs(shift[a].agg, view)
        BY <2>0, <2>2
      <3> HIDE DEF view
      <3>6. SeenAs(NewShift(p), next)
        BY <1>0, <2>2, <3>4, <3>5, CommitReplays DEF e
      <3> QED
        BY <2>2, <3>2, <3>3, <3>6
    <2>3. CASE b = a /\ lock[<<"shift", a>>] # p
      <3>1. call[p].op = "Assign"
        BY <1>0, <2>3, ShiftEventsAreLocked
      <3>2. shift' = shift /\ ShiftRows(a)' = ShiftRows(a)
        BY <1>5, <2>3, <3>1, CommitEffect
      <3>3. shift[a] # NoRow
        BY <1>0, <3>1 DEF IInv, HandlerInv, VersionNamesTheValue, CurrentRead
      <3> QED
        BY <2>0, <2>3, <3>2, <3>3
    <2> QED
      BY <2>1, <2>2, <2>3
  <1>9. OutboxReplaysToShift'
    BY <1>1, <1>8 DEF OutboxReplaysToShift
  <1> QED
    BY <1>6, <1>7, <1>9 DEF ReplaysInv

\* (ADR 0016, OutboxPublisher.Publish in the unit of work) However requests interleave,
\* collide and fail, the committed events of an associate, read in the order of their
\* ids, give the break and the end of the committed shift and, of its certifications,
\* those gained since it started: the event of the start does not carry the others.
THEOREM OutboxTellsTheShift == Spec => []OutboxReplaysToShift
  <1>1. Init => ReplaysInv
    BY DEF Init, ReplaysInv, OutboxReplaysToShift, Rows
  <1>2. IInv /\ ReplaysInv /\ [Next]_vars => ReplaysInv'
    BY ReplaysCommit, ReplaysIdle
  <1>3. ReplaysInv => OutboxReplaysToShift
    BY DEF ReplaysInv
  <1> QED
    BY <1>1, <1>2, <1>3, Invariance, PTL DEF Spec

=============================================================================
