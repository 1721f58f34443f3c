----------------------------- MODULE StaffingGap -----------------------------
(***************************************************************************)
(* GetStaffingGap (internal/application/usecases), for one building and    *)
(* shift: the single-path lookup and the list of all planned paths, while  *)
(* plans are re-committed and associates move.                             *)
(*                                                                         *)
(* A read is not a transaction: the plan is found by two SELECTs, and then *)
(* every path has a COUNT of its own.  PathUnderstaffed is raised on every *)
(* read, all events of a read in one unit of work; the MCP tool only logs  *)
(* them.  Commits of the plan (ShiftPlanning: never without lines, a path  *)
(* once) and of assignments (LaborRoster) are atomic here.  The observed   *)
(* idle share of a gap, which decides nothing, is left out.                *)
(***************************************************************************)
EXTENDS Integers, Sequences, FiniteSetsExt

CONSTANTS
    Associates,
    Paths,        \* paths a caller may name
    Declared,     \* the paths of the catalogue
    Plans,        \* the plans considered: functions from paths to heads
    Handlers,     \* request goroutines of the HTTP and the MCP server
    MaxRequests,  \* bound: reads started in a behaviour
    MaxChanges,   \* bound: commits of plans and of assignments
    NoPath,       \* no active assignment; a read of all paths
    NoPlan        \* no shift_plan row

ASSUME StaffingAssumption ==
    /\ IsFiniteSet(Associates)
    /\ Declared \subseteq Paths
    /\ NoPath \notin Paths
    /\ \A plan \in Plans : DOMAIN plan # {} /\ DOMAIN plan \subseteq Declared
    /\ NoPlan \notin Plans

VARIABLES
    plan,     \* the committed plan, or NoPlan
    active,   \* active[a]: labor_assignment.active_path_id
    outbox,   \* committed batches of PathUnderstaffed: [by, events]
    pc,       \* pc[p]: the next step of handler p
    req,      \* req[p]: its request [no, path, via]; it and the answer stay when p is idle
    lines,    \* lines[p]: the plan it has read
    left,     \* left[p]: the paths still to count
    gaps,     \* gaps[p]: the gaps computed so far, by path
    reply,    \* reply[p]: how its request ended
    started,  \* reads started so far
    changes,  \* commits so far
    held,     \* history: the gaps that were true at some moment since p's request came
    moves,    \* history: assignments committed since then
    replanned \* history: a plan was committed since then

tables == <<plan, active>>
request == <<req, started, held, moves, replanned>>
vars == <<plan, active, outbox, pc, req, lines, left, gaps, reply, started, changes,
          held, moves, replanned>>

NoGaps == [path \in {} |-> 0]

\* Mutant: the COUNT without its predicate on the path.
CountAssigned(on, path) == Cardinality({a \in Associates : on[a] # NoPath})

\* CountActiveByPath.
CountActiveByPath(on, path) == Cardinality({a \in Associates : on[a] = path})

\* PlannedHeadsFor: 0 for a path that is not in the plan.
PlannedHeadsFor(of, path) == IF of # NoPlan /\ path \in DOMAIN of THEN of[path] ELSE 0

\* The gap of a path, were it computed at once.
GapNow(of, on, path) == [planned |-> PlannedHeadsFor(of, path),
                       active |-> Cardinality({a \in Associates : on[a] = path})]
Truth(of, on) == {<<path, GapNow(of, on, path)>> : path \in Paths}

Understaffed(g) == g.active < g.planned
Events(p) == {<<path, gaps[p][path]>> : path \in {q \in DOMAIN gaps[p] : Understaffed(gaps[p][q])}}

Init ==
    /\ plan = NoPlan
    /\ active = [a \in Associates |-> NoPath]
    /\ outbox = << >>
    /\ pc = [p \in Handlers |-> "idle"]
    /\ req = [p \in Handlers |-> [no |-> 0, path |-> NoPath, via |-> "http"]]
    /\ lines = [p \in Handlers |-> NoPlan]
    /\ left = [p \in Handlers |-> {}]
    /\ gaps = [p \in Handlers |-> NoGaps]
    /\ reply = [p \in Handlers |-> "none"]
    /\ started = 0
    /\ changes = 0
    /\ held = [p \in Handlers |-> {}]
    /\ moves = [p \in Handlers |-> 0]
    /\ replanned = [p \in Handlers |-> FALSE]

-----------------------------------------------------------------------------
(* What other requests commit *)

Change ==
    /\ changes < MaxChanges
    /\ changes' = changes + 1
    /\ held' = [p \in Handlers |-> IF pc[p] = "idle" THEN held[p]
                                   ELSE held[p] \cup Truth(plan', active')]
    /\ UNCHANGED <<outbox, pc, req, lines, left, gaps, reply, started>>

\* ShiftPlanRepo.Save: the lines of a plan are replaced in one transaction.
CommitPlan(l) ==
    /\ l # plan
    /\ plan' = l
    /\ replanned' = [p \in Handlers |-> TRUE]
    /\ UNCHANGED <<active, moves>>
    /\ Change

\* AssignmentRepo.Save: an associate gets an active path, another one, or none.
Move(a, path) ==
    /\ path # active[a]
    /\ active' = [active EXCEPT ![a] = path]
    /\ moves' = [p \in Handlers |-> moves[p] + 1]
    /\ UNCHANGED <<plan, replanned>>
    /\ Change

-----------------------------------------------------------------------------
(* Steps of a read *)

Goto(p, step) == pc' = [pc EXCEPT ![p] = step]

Finish(p, r) ==
    /\ Goto(p, "idle")
    /\ reply' = [reply EXCEPT ![p] = r]
    /\ left' = [left EXCEPT ![p] = {}]

Ask(p, path, via) ==
    /\ pc[p] = "idle"
    /\ started < MaxRequests
    /\ started' = started + 1
    /\ req' = [req EXCEPT ![p] = [no |-> started + 1, path |-> path, via |-> via]]
    /\ lines' = [lines EXCEPT ![p] = NoPlan]
    /\ gaps' = [gaps EXCEPT ![p] = NoGaps]
    /\ held' = [held EXCEPT ![p] = Truth(plan, active)]
    /\ moves' = [moves EXCEPT ![p] = 0]
    /\ replanned' = [replanned EXCEPT ![p] = FALSE]
    /\ IF via = "http" /\ path \notin Declared \cup {NoPath}
       THEN Finish(p, "rejected")
       ELSE /\ Goto(p, "exists")
            /\ reply' = [reply EXCEPT ![p] = "none"]
            /\ UNCHANGED left
    /\ UNCHANGED <<tables, outbox, changes>>

\* GET /paths/{pathId}/staffing-gap: the path must be in the catalogue.
StaffingGapOf(p, path) == Ask(p, path, "http")

\* GET /buildings/{buildingId}/shifts/{shiftId}/staffing-gap.
StaffingGapForShift(p) == Ask(p, NoPath, "http")

\* The MCP tool get_staffing_gap: any path.
McpStaffingGap(p, path) == Ask(p, path, "mcp")

\* SELECT EXISTS (... FROM shift_plan ...).
FindPlan(p) ==
    /\ pc[p] = "exists"
    /\ IF plan = NoPlan THEN Finish(p, "not_found")
       ELSE Goto(p, "lines") /\ UNCHANGED <<reply, left>>
    /\ UNCHANGED <<tables, outbox, request, lines, gaps, changes>>

\* Mutant: the plan read for the list is read again for every line.
ReadLinesPerPath(p) ==
    /\ pc[p] \in {"lines", "count"}
    /\ lines' = [lines EXCEPT ![p] = plan]
    /\ IF pc[p] = "lines"
       THEN left' = [left EXCEPT ![p] = IF req[p].path = NoPath THEN DOMAIN plan ELSE {req[p].path}]
       ELSE UNCHANGED left
    /\ Goto(p, "count")
    /\ UNCHANGED <<tables, outbox, request, gaps, reply, changes>>

\* SELECT ... FROM path_plan ..., in no order.
ReadLines(p) ==
    /\ pc[p] = "lines"
    /\ lines' = [lines EXCEPT ![p] = plan]
    /\ left' = [left EXCEPT ![p] = IF req[p].path = NoPath THEN DOMAIN plan ELSE {req[p].path}]
    /\ Goto(p, "count")
    /\ UNCHANGED <<tables, outbox, request, gaps, reply, changes>>

\* gapForLine for one more path; the answer needs no event when none is understaffed.
GapForLine(p) ==
    /\ pc[p] = "count"
    /\ \E path \in left[p] :
        LET g == [planned |-> PlannedHeadsFor(lines[p], path),
                  active |-> CountActiveByPath(active, path)]
        IN  /\ gaps' = [gaps EXCEPT ![p] = [q \in DOMAIN @ \cup {path} |->
                                                IF q = path THEN g ELSE @[q]]]
            /\ IF left[p] # {path}
               THEN left' = [left EXCEPT ![p] = @ \ {path}] /\ UNCHANGED <<pc, reply>>
               ELSE IF Understaffed(g) \/ Events(p) # {}
               THEN left' = [left EXCEPT ![p] = {}] /\ Goto(p, "publish") /\ UNCHANGED reply
               ELSE Finish(p, "ok")
    /\ UNCHANGED <<tables, outbox, request, lines, changes>>

\* Mutant: a unit of work per event.
PublishOneByOne(p) ==
    /\ pc[p] = "publish"
    /\ \E e \in Events(p) : outbox' = Append(outbox, [by |-> req[p].no, events |-> {e}])
    /\ \E r \in {"ok", "failed"} : Finish(p, r)
    /\ UNCHANGED <<tables, request, lines, gaps, changes>>

\* The outbox rows of the read commit on their own; the answer to COMMIT may be lost.
Publish(p) ==
    /\ pc[p] = "publish"
    /\ req[p].via = "http"
    /\ outbox' = Append(outbox, [by |-> req[p].no, events |-> Events(p)])
    /\ \E r \in {"ok", "failed"} : Finish(p, r)
    /\ UNCHANGED <<tables, request, lines, gaps, changes>>

\* LogPublisher.Publish: nothing is stored.
LogEvents(p) ==
    /\ pc[p] = "publish"
    /\ req[p].via = "mcp"
    /\ Finish(p, "ok")
    /\ UNCHANGED <<tables, outbox, request, lines, gaps, changes>>

\* A statement fails, the client goes away or the process crashes.
Fail(p) ==
    /\ pc[p] # "idle"
    /\ Finish(p, "failed")
    /\ UNCHANGED <<tables, outbox, request, lines, gaps, changes>>

-----------------------------------------------------------------------------
Read(p) ==
    \/ \E path \in Paths : StaffingGapOf(p, path) \/ McpStaffingGap(p, path)
    \/ StaffingGapForShift(p)
    \/ FindPlan(p) \/ ReadLines(p) \/ GapForLine(p) \/ Publish(p) \/ LogEvents(p) \/ Fail(p)

Next ==
    \/ \E l \in Plans : CommitPlan(l)
    \/ \E a \in Associates, path \in Declared \cup {NoPath} : Move(a, path)
    \/ \E p \in Handlers : Read(p)

Spec == Init /\ [][Next]_vars

-----------------------------------------------------------------------------
(* Properties *)

\* (gapForLine) No gap is made up: each count was true at some moment of its request,
\* and so was the whole gap, planned and active heads together, unless a plan was
\* committed meanwhile; then the planned heads are still those of one committed plan.
GapsWereTrue ==
    \A p \in Handlers : \A path \in DOMAIN gaps[p] :
        LET g == gaps[p][path]
        IN  /\ \E h \in held[p] : h[1] = path /\ h[2].active = g.active
            /\ replanned[p] \/ <<path, g>> \in held[p]
            /\ g.planned = PlannedHeadsFor(lines[p], path)

\* The heads on the paths of a list, as they were counted and as they really are.
HeadsCounted(list) == SumFunction([path \in DOMAIN list |-> list[path].active])
HeadsThere(on, list) == Cardinality({a \in Associates : on[a] \in DOMAIN list})

\* (ExecuteAll) The paths are counted one after the other, so an associate may be
\* counted twice or not at all; but the heads of a list differ from those really on
\* its paths by no more than the assignments committed since the request came.  A list
\* nobody disturbed is exact.
ListsBlurByMoves ==
    \A p \in Handlers :
        HeadsCounted(gaps[p]) - HeadsThere(active, gaps[p]) \in -moves[p] .. moves[p]

\* The commits of p's read.
Batches(p) == {i \in 1 .. Len(outbox) : outbox[i].by = req[p].no}

\* (GetStaffingGap.publish, "published together, in one atomic scope") The events of a
\* read are those of its understaffed gaps, all in one commit: exactly once when an
\* HTTP read is answered, and all or none when its answer is a failure.
EventsMatchTheAnswer ==
    \A p \in Handlers :
        /\ Cardinality(Batches(p)) <= 1
        /\ \A i \in Batches(p) : outbox[i].events = Events(p)
        /\ reply[p] = "ok" /\ req[p].via = "http" /\ Events(p) # {} => Batches(p) # {}

-----------------------------------------------------------------------------
(* The inductive invariants of StaffingGapProofs *)

StaffingTypes ==
    /\ plan \in Plans \cup {NoPlan}
    /\ outbox \in Seq({outbox[i] : i \in 1 .. Len(outbox)})
    /\ pc \in [Handlers -> {"idle", "exists", "lines", "count", "publish"}]
    /\ req \in [Handlers -> [no : 0 .. started, path : Paths \cup {NoPath}, via : {"http", "mcp"}]]
    /\ left \in [Handlers -> SUBSET Paths]
    /\ reply \in [Handlers -> {"none", "ok", "failed", "rejected", "not_found"}]
    /\ replanned \in [Handlers -> BOOLEAN]
    /\ DOMAIN lines = Handlers /\ DOMAIN gaps = Handlers /\ DOMAIN held = Handlers
    /\ started \in Nat

\* While a read is on, what is true now is among what has been true, and its plan is the
\* present one unless another was committed.
ReadInv(p) ==
    /\ pc[p] # "idle" => Truth(plan, active) \subseteq held[p] /\ reply[p] = "none"
    /\ pc[p] \in {"lines", "count", "publish"} => plan # NoPlan
    /\ pc[p] \in {"exists", "lines"} => gaps[p] = NoGaps
    /\ pc[p] = "count" => replanned[p] \/ lines[p] = plan

\* Requests have numbers of their own, and a number stands in one commit at most, which
\* ends its read.
CommitsInv ==
    /\ \A p, q \in Handlers : req[p].no = req[q].no => p = q \/ req[p].no = 0
    /\ \A i \in 1 .. Len(outbox) : outbox[i].by \in 1 .. started
    /\ \A i, j \in 1 .. Len(outbox) : outbox[i].by = outbox[j].by => i = j
    /\ \A p \in Handlers : pc[p] # "idle" => req[p].no # 0 /\ Batches(p) = {}

IInv ==
    /\ StaffingTypes
    /\ \A p \in Handlers : ReadInv(p)
    /\ GapsWereTrue
    /\ CommitsInv
    /\ EventsMatchTheAnswer

\* A list has finitely many paths, and none of them is still to be counted.
ListsInv ==
    /\ active \in [Associates -> Paths \cup {NoPath}]
    /\ moves \in [Handlers -> Nat]
    /\ \A p \in Handlers :
        /\ IsFiniteSet(DOMAIN gaps[p])
        /\ \A path \in DOMAIN gaps[p] : gaps[p][path].active \in Nat
        /\ pc[p] = "count" => left[p] \cap DOMAIN gaps[p] = {}
    /\ ListsBlurByMoves

=============================================================================
