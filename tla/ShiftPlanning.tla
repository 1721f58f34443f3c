---------------------------- MODULE ShiftPlanning ----------------------------
(***************************************************************************)
(* CommitShiftPlan (internal/application/usecases) for one building and    *)
(* shift, run by concurrent handlers over Postgres.                        *)
(*                                                                         *)
(* A request's live ceilings are fetched from fulfillment-execution before *)
(* its transaction.  The transaction, READ COMMITTED, inserts the header   *)
(* row ON CONFLICT DO NOTHING, deletes the path_plan rows its DELETE sees, *)
(* inserts its own lines under the primary key (building, shift, path),    *)
(* re-reads the plan for the integration event, and commits.  No row has a *)
(* version and an existing header is not locked, so two re-commits overlap.*)
(***************************************************************************)
EXTENDS PathCatalogue, FiniteSets

CONSTANTS
    Catalogue,         \* the declared process paths, in the order of the file
    Requests,          \* the bodies considered: [lines, installed]
    MaxStations,       \* bound: stations of a capability
    MaxHoursPerShift,  \* MAX_HOURS_PER_SHIFT
    Handlers,          \* request goroutines, over all replicas
    MaxRequests,       \* bound: requests started in a behaviour
    NoOne,             \* no handler
    NoBody             \* a handler that serves no request

ASSUME PlanningAssumption ==
    /\ Loads(Catalogue)
    /\ \A b \in Requests : b.lines \in Seq({b.lines[i] : i \in 1 .. Len(b.lines)})
    /\ MaxStations \in Nat
    /\ MaxHoursPerShift \in Nat
    /\ MaxRequests \in Nat
    /\ NoOne \notin Handlers
    /\ NoBody \notin Requests

VARIABLES
    header,    \* the shift_plan row is committed
    headerBy,  \* the handler whose transaction has inserted it, or NoOne
    lines,     \* the committed path_plan rows: [path, heads, by]
    events,    \* committed ShiftPlanCommitted messages, a set of lines each
    pc,        \* pc[p]: the next step of handler p
    body,      \* body[p]: the request p serves
    by,        \* by[p]: its number
    memo,      \* memo[p]: the stations fetched so far, by capability
    seen,      \* seen[p]: the rows its DELETE sees
    deleted,   \* deleted[p]: the rows it has deleted
    inserted,  \* inserted[p]: the rows it has inserted
    reread,    \* reread[p]: the plan its event carries
    reply,     \* reply[p]: how its last request ended
    started    \* requests started so far

table == <<header, lines, events>>
transaction == <<headerBy, seen, deleted, inserted, reread>>
vars == <<header, headerBy, lines, events, pc, body, by, memo, seen, deleted,
          inserted, reread, reply, started>>

Capabilities == UNION {Catalogue[i].caps : i \in 1 .. Len(Catalogue)}
NothingFetched == [c \in {} |-> 0]

Init ==
    /\ header = FALSE
    /\ headerBy = NoOne
    /\ lines = {}
    /\ events = << >>
    /\ pc = [p \in Handlers |-> "idle"]
    /\ body = [p \in Handlers |-> NoBody]
    /\ by = [p \in Handlers |-> 0]
    /\ memo = [p \in Handlers |-> NothingFetched]
    /\ seen = [p \in Handlers |-> {}]
    /\ deleted = [p \in Handlers |-> {}]
    /\ inserted = [p \in Handlers |-> {}]
    /\ reread = [p \in Handlers |-> {}]
    /\ reply = [p \in Handlers |-> "none"]
    /\ started = 0

-----------------------------------------------------------------------------
(* The checks of a request *)

Lines(p) == body[p].lines

\* The first line whose path still has a capability to fetch, or is unknown.
Unresolved(p, i) ==
    LET path == Lines(p)[i].path
    IN  Known(Catalogue, path) => ~(Lookup(Catalogue, path).caps \subseteq DOMAIN memo[p])
NextLine(p, i) ==
    i \in 1 .. Len(Lines(p)) /\ Unresolved(p, i) /\ \A j \in 1 .. i - 1 : ~Unresolved(p, j)
Resolved(p) == \A i \in 1 .. Len(Lines(p)) : ~Unresolved(p, i)

\* installedCapacityForPath: the least count of the path's capabilities; 0 for none.
Ceiling(p, path) ==
    LET counts == {memo[p][c] : c \in Lookup(Catalogue, path).caps}
    IN  IF counts = {} THEN 0 ELSE CHOOSE n \in counts : \A m \in counts : n <= m

\* shiftplan.CommitShiftPlan returns no error.
Valid(p) ==
    /\ Lines(p) # << >>
    /\ \A i \in 1 .. Len(Lines(p)) :
        LET line == Lines(p)[i]
        IN  /\ line.path \in DOMAIN body[p].installed
            /\ line.heads <= body[p].installed[line.path]
            /\ line.heads <= Ceiling(p, line.path)
            /\ line.hours <= line.heads * MaxHoursPerShift

\* The row of a line of p's request.
Row(p, i) == [path |-> Lines(p)[i].path, heads |-> Lines(p)[i].heads, by |-> by[p]]
Rows(p) == {Row(p, i) : i \in 1 .. Len(Lines(p))}

-----------------------------------------------------------------------------
(* Steps of a handler *)

Goto(p, step) == pc' = [pc EXCEPT ![p] = step]

\* Mutant: the transaction is left open, its deleted rows stay locked.
FinishKeepingLocks(p, r) ==
    /\ Goto(p, "idle")
    /\ body' = [body EXCEPT ![p] = NoBody]
    /\ by' = [by EXCEPT ![p] = 0]
    /\ memo' = [memo EXCEPT ![p] = NothingFetched]
    /\ seen' = [seen EXCEPT ![p] = {}]
    /\ inserted' = [inserted EXCEPT ![p] = {}]
    /\ reread' = [reread EXCEPT ![p] = {}]
    /\ headerBy' = IF headerBy = p THEN NoOne ELSE headerBy
    /\ reply' = [reply EXCEPT ![p] = r]
    /\ UNCHANGED deleted

\* The handler answers; the transaction's rows and locks are gone.
Finish(p, r) ==
    /\ Goto(p, "idle")
    /\ body' = [body EXCEPT ![p] = NoBody]
    /\ by' = [by EXCEPT ![p] = 0]
    /\ memo' = [memo EXCEPT ![p] = NothingFetched]
    /\ seen' = [seen EXCEPT ![p] = {}]
    /\ deleted' = [deleted EXCEPT ![p] = {}]
    /\ inserted' = [inserted EXCEPT ![p] = {}]
    /\ reread' = [reread EXCEPT ![p] = {}]
    /\ headerBy' = IF headerBy = p THEN NoOne ELSE headerBy
    /\ reply' = [reply EXCEPT ![p] = r]

Receive(p, b) ==
    /\ pc[p] = "idle"
    /\ started < MaxRequests
    /\ started' = started + 1
    /\ Goto(p, "fetch")
    /\ body' = [body EXCEPT ![p] = b]
    /\ by' = [by EXCEPT ![p] = started + 1]
    /\ reply' = [reply EXCEPT ![p] = "none"]
    /\ UNCHANGED <<table, transaction, memo>>

\* One call of InstalledCapacity, whatever fulfillment-execution answers.
Fetch(p) ==
    /\ pc[p] = "fetch"
    /\ \E i \in 1 .. Len(Lines(p)) :
        /\ NextLine(p, i)
        /\ Known(Catalogue, Lines(p)[i].path)
        /\ \E c \in Lookup(Catalogue, Lines(p)[i].path).caps \ DOMAIN memo[p] :
           \E n \in 0 .. MaxStations :
              memo' = [memo EXCEPT ![p] =
                        [d \in DOMAIN @ \cup {c} |-> IF d = c THEN n ELSE @[d]]]
    /\ UNCHANGED <<table, transaction, pc, body, by, reply, started>>

\* An unknown path fails the whole commit.
UnknownPath(p) ==
    /\ pc[p] = "fetch"
    /\ \E i \in 1 .. Len(Lines(p)) : NextLine(p, i) /\ ~Known(Catalogue, Lines(p)[i].path)
    /\ Finish(p, "rejected")
    /\ UNCHANGED <<table, started>>

Validate(p) ==
    /\ pc[p] = "fetch"
    /\ Resolved(p)
    /\ IF Valid(p) THEN Goto(p, "header") /\ UNCHANGED <<transaction, body, by, memo, reply>>
       ELSE Finish(p, "rejected")
    /\ UNCHANGED <<table, started>>

\* INSERT INTO shift_plan ... ON CONFLICT DO NOTHING: it waits for an uncommitted
\* header, and takes no lock on a committed one.
InsertHeader(p) ==
    /\ pc[p] = "header"
    /\ headerBy = NoOne
    /\ headerBy' = IF header THEN NoOne ELSE p
    /\ Goto(p, "delete")
    /\ UNCHANGED <<table, body, by, memo, seen, deleted, inserted, reread, reply, started>>

\* DELETE FROM path_plan: the rows visible when the statement begins ...
BeginDelete(p) ==
    /\ pc[p] = "delete"
    /\ seen' = [seen EXCEPT ![p] = lines]
    /\ Goto(p, "scan")
    /\ UNCHANGED <<table, headerBy, body, by, memo, deleted, inserted, reread, reply, started>>

\* Mutant: only the lines of the paths the request names are replaced.
RemainingOfRequest(p) ==
    {row \in (seen[p] \cap lines) \ deleted[p] :
        \E i \in 1 .. Len(Lines(p)) : Lines(p)[i].path = row.path}

\* ... that are still there, ...
Remaining(p) == (seen[p] \cap lines) \ deleted[p]

DeletedByAnother(p, row) == \E q \in Handlers \ {p} : row \in deleted[q]

\* Mutant: the DELETE runs outside the transaction.
DeleteRowAtOnce(p) ==
    /\ pc[p] = "scan"
    /\ \E row \in Remaining(p) : lines' = lines \ {row}
    /\ UNCHANGED <<header, events, transaction, pc, body, by, memo, reply, started>>

\* ... one by one, in the order of the scan.
DeleteRow(p) ==
    /\ pc[p] = "scan"
    /\ \E row \in Remaining(p) :
        /\ ~DeletedByAnother(p, row)
        /\ deleted' = [deleted EXCEPT ![p] = @ \cup {row}]
    /\ UNCHANGED <<table, headerBy, pc, body, by, memo, seen, inserted, reread, reply, started>>

EndDelete(p) ==
    /\ pc[p] = "scan"
    /\ Remaining(p) = {}
    /\ Goto(p, "insert")
    /\ UNCHANGED <<table, transaction, body, by, memo, reply, started>>

\* The row to insert next: the lines are inserted in order.
Inserting(p) == Row(p, Cardinality(inserted[p]) + 1)

\* Another transaction decides whether the key is free: p waits for it.
KeyHeldBy(p, q) ==
    /\ q # p
    /\ \E row \in inserted[q] \cup (lines \cap deleted[q]) : row.path = Inserting(p).path

\* Mutant: path_plan without its primary key.
NoKey(p) == FALSE

KeyTaken(p) ==
    \E row \in inserted[p] \cup (lines \ deleted[p]) : row.path = Inserting(p).path

InsertLine(p) ==
    /\ pc[p] = "insert"
    /\ \A q \in Handlers : ~KeyHeldBy(p, q)
    /\ ~KeyTaken(p)
    /\ inserted' = [inserted EXCEPT ![p] = @ \cup {Inserting(p)}]
    /\ Goto(p, IF Cardinality(inserted[p]) + 1 = Len(Lines(p)) THEN "publish" ELSE "insert")
    /\ UNCHANGED <<table, headerBy, body, by, memo, seen, deleted, reread, reply, started>>

\* A unique violation: a line of a concurrent commit, or of the request itself.
DuplicateKey(p) ==
    /\ pc[p] = "insert"
    /\ \A q \in Handlers : ~KeyHeldBy(p, q)
    /\ KeyTaken(p)
    /\ Finish(p, "failed")
    /\ UNCHANGED <<table, started>>

\* What a SELECT of p's transaction returns.
Visible(p) == (lines \ deleted[p]) \cup inserted[p]

\* Mutant: the plan is re-read outside the transaction.
PublishCommitted(p) ==
    /\ pc[p] = "publish"
    /\ reread' = [reread EXCEPT ![p] = lines]
    /\ Goto(p, "commit")
    /\ UNCHANGED <<table, headerBy, body, by, memo, seen, deleted, inserted, reply, started>>

\* Publisher.Encode re-reads the plan in the transaction; the outbox rows follow.
Publish(p) ==
    /\ pc[p] = "publish"
    /\ reread' = [reread EXCEPT ![p] = Visible(p)]
    /\ Goto(p, "commit")
    /\ UNCHANGED <<table, headerBy, body, by, memo, seen, deleted, inserted, reply, started>>

\* The answer to COMMIT may be lost: the caller is told it failed.
Commit(p) ==
    /\ pc[p] = "commit"
    /\ header' = TRUE
    /\ lines' = Visible(p)
    /\ events' = Append(events, [by |-> by[p], lines |-> reread[p]])
    /\ \E r \in {"ok", "failed"} : Finish(p, r)
    /\ UNCHANGED started

WaitsFor(p, q) ==
    /\ q # p
    /\ \/ pc[p] = "header" /\ headerBy = q
       \/ /\ pc[p] = "scan"
          /\ \A row \in Remaining(p) : DeletedByAnother(p, row)
          /\ Remaining(p) \cap deleted[q] # {}
       \/ pc[p] = "insert" /\ KeyHeldBy(p, q)

\* Postgres aborts a transaction of a cycle of waiting ones.
DeadlockVictim(p) ==
    /\ \E C \in SUBSET Handlers : p \in C /\ \A q \in C : \E r \in C : WaitsFor(q, r)
    /\ Finish(p, "failed")
    /\ UNCHANGED <<table, started>>

\* ErrInstalledCapacityUnavailable, a failed statement, a crash: nothing is kept.
Fail(p) ==
    /\ pc[p] # "idle"
    /\ Finish(p, "failed")
    /\ UNCHANGED <<table, started>>

-----------------------------------------------------------------------------
Work(p) ==
    \/ Fetch(p) \/ UnknownPath(p) \/ Validate(p)
    \/ InsertHeader(p) \/ BeginDelete(p) \/ DeleteRow(p) \/ EndDelete(p)
    \/ InsertLine(p) \/ DuplicateKey(p) \/ Publish(p) \/ Commit(p) \/ DeadlockVictim(p)

Next == \E p \in Handlers : Work(p) \/ Fail(p) \/ \E b \in Requests : Receive(p, b)

Spec == Init /\ [][Next]_vars

\* A handler goroutine keeps running; requests need not come, failures need not happen.
FairSpec == Spec /\ \A p \in Handlers : WF_vars(Work(p))

-----------------------------------------------------------------------------
(* Properties *)

\* (FindByBuildingAndShift, PRIMARY KEY (building_id, shift_id, path_id)) However commits
\* overlap, a plan that exists has lines, the DELETE of a re-commit being never visible
\* without the INSERTs that follow it, and a path has one line: PlannedHeadsFor has one
\* answer.
PlanIsWellFormed ==
    /\ header <=> lines # {}
    /\ \A r, s \in lines : r.path = s.path => r = s

\* (ShiftPlanRepo.Save) A commit leaves all the lines of its request in the plan,
\* and besides them only lines that were committed after its DELETE began.
CommitReplacesWhatItSaw ==
    [][\A p \in Handlers :
        (pc[p] = "commit" /\ pc'[p] = "idle" /\ events' # events) =>
            lines' = Rows(p) \cup (lines \ seen[p])]_vars

\* (Publisher.Encode inside the unit of work) Every ShiftPlanCommitted carries all
\* the lines of its own commit, and otherwise only lines of commits before it:
\* nothing of a transaction that was still open or was rolled back.
EventsCarryCommittedLines ==
    \A n \in 1 .. Len(events) :
        /\ \E row \in events[n].lines : row.by = events[n].by
        /\ \A row \in events[n].lines : \E m \in 1 .. n : events[m].by = row.by
        /\ \A row \in lines : row.by = events[n].by => row \in events[n].lines

\* (UnitOfWork.Execute) Every commit request is answered, whatever it waits for.
EveryCommitIsAnswered == \A p \in Handlers : pc[p] # "idle" ~> pc[p] = "idle"

-----------------------------------------------------------------------------
(* The inductive invariant of ShiftPlanningProofs *)

PlanningTypes ==
    /\ started \in Nat
    /\ by \in [Handlers -> 0 .. started]
    /\ pc \in [Handlers -> {"idle", "fetch", "header", "delete", "scan", "insert", "publish", "commit"}]
    /\ DOMAIN body = Handlers
    /\ DOMAIN seen = Handlers /\ DOMAIN deleted = Handlers
    /\ DOMAIN inserted = Handlers /\ DOMAIN reread = Handlers
    /\ events \in Seq({events[n] : n \in 1 .. Len(events)})

OnePerPath(rows) == \A r, s \in rows : r.path = s.path => r = s

\* The numbers of requests that have ended, and those of commits.
Closed == (1 .. started) \ {by[p] : p \in Handlers}
Committed == {events[n].by : n \in 1 .. Len(events)}

\* Committed rows are of ended requests that committed, one per path.
TableInv ==
    /\ header <=> lines # {}
    /\ OnePerPath(lines)
    /\ \A row \in lines : row.by \in Committed
    /\ Committed \subseteq Closed

\* What a transaction has deleted are rows it has seen and holds the locks of, from the end
\* of its DELETE on all of them; what it has inserted are its first lines.
TransactionInv(p) ==
    /\ pc[p] = "idle" <=> by[p] = 0
    /\ pc[p] # "idle" => body[p] \in Requests
    /\ pc[p] \notin {"idle", "fetch"} => Lines(p) # << >>
    /\ \A row \in seen[p] : row.by \in Closed
    /\ deleted[p] \subseteq seen[p] \cap lines
    /\ pc[p] \notin {"scan", "insert", "publish", "commit"} => deleted[p] = {}
    /\ pc[p] \in {"insert", "publish", "commit"} => seen[p] \cap lines \subseteq deleted[p]
    /\ pc[p] \notin {"insert", "publish", "commit"} => inserted[p] = {}
    /\ IsFiniteSet(inserted[p])
    /\ inserted[p] = {Row(p, i) : i \in 1 .. Cardinality(inserted[p])}
    /\ pc[p] = "insert" => Cardinality(inserted[p]) < Len(Lines(p))
    /\ pc[p] \in {"publish", "commit"} => Cardinality(inserted[p]) = Len(Lines(p))
    /\ OnePerPath(Visible(p))
    /\ pc[p] = "commit" =>
          /\ inserted[p] \subseteq reread[p]
          /\ \A row \in reread[p] : row.by = by[p] \/ row.by \in Committed

\* Transactions have numbers, deleted rows and keys of their own.
ApartInv(p, q) ==
    /\ by[p] = by[q] => by[p] = 0
    /\ deleted[p] \cap deleted[q] = {}
    /\ \A r \in inserted[p], s \in inserted[q] : r.path # s.path

IInv ==
    /\ PlanningTypes
    /\ TableInv
    /\ \A p \in Handlers : TransactionInv(p)
    /\ \A p, q \in Handlers : p # q => ApartInv(p, q)
    /\ EventsCarryCommittedLines

=============================================================================
