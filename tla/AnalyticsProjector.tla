-------------------------- MODULE AnalyticsProjector --------------------------
(***************************************************************************)
(* The analytics projector: AnalyticsConsumer reading one partition of the *)
(* analytics topic (internal/adapters/inbound/kafka) into the labor rollup *)
(* (internal/adapters/outbound/analyticsstore, PostgresProjection).        *)
(*                                                                         *)
(* A message passes the consumer's own gate, analytics_consumed_events, in *)
(* a statement of its own; then the projection claims the event id in      *)
(* analytics_processed_events in the transaction of its effect.  Both      *)
(* steps are retried MaxAttempts times.  A database statement that returns *)
(* an error may have taken effect.  A pod may crash anywhere and resumes   *)
(* at the committed offset.  The group protocol is over-approximated: the  *)
(* pods of a crew of two may work on the partition at once, as they do     *)
(* around a rebalance.                                                     *)
(***************************************************************************)
EXTENDS LaborReport

CONSTANTS
    Consumers,     \* projector pods
    Crews,         \* the sets of pods considered, one in a behaviour
    MaxAttempts,   \* maxAnalyticsHandlerAttempts
    MaxFaults      \* bound: failed calls, crashes and rebalances

ASSUME ProjectorAssumption ==
    /\ MaxAttempts \in Nat \ {0}
    /\ MaxFaults \in Nat
    /\ \A pods \in Crews : pods \subseteq Consumers /\ IsFiniteSet(pods)

VARIABLES
    crew,       \* the pods that ever run
    topic,      \* the partition: messages [id, kind, who, path, at]
    offset,     \* the group's committed offset: messages 1 .. offset are done
    pos,        \* pos[c]: the message c handles or will fetch
    pc,         \* pc[c]: the next step of pod c
    tries,      \* tries[c]: failed attempts of its current stage
    start,      \* start[c]: the start of a break its open transaction has read
    consumed,   \* analytics_consumed_events
    processed,  \* analytics_processed_events
    rollup,     \* labor_rollup: a bag of increments, <<column, path, hour>> -> Int
    pending,    \* analytics_pending_breaks
    dead,       \* messages on the dead-letter topic, by position
    faults      \* failures so far

store == <<consumed, processed, rollup, pending>>
log == <<crew, topic, offset, dead>>
vars == <<crew, topic, offset, pos, pc, tries, start, consumed, processed, rollup, pending,
          dead, faults>>

Init ==
    /\ crew \in Crews
    /\ topic \in Topics
    /\ offset = 0
    /\ pos = [c \in Consumers |-> 0]
    /\ pc = [c \in Consumers |-> "down"]
    /\ tries = [c \in Consumers |-> 0]
    /\ start = [c \in Consumers |-> NoStart]
    /\ consumed = {}
    /\ processed = {}
    /\ rollup = NoRows
    /\ pending = [a \in Who |-> NoStart]
    /\ dead = {}
    /\ faults = 0

Msg(c) == topic[pos[c]]

Goto(c, stage) ==
    /\ pc' = [pc EXCEPT ![c] = stage]
    /\ tries' = [tries EXCEPT ![c] = 0]
    /\ start' = [start EXCEPT ![c] = NoStart]

-----------------------------------------------------------------------------
(* PostgresProjection *)

\* Mutant: the duration of a break is counted in the hour of its end.
HourOfTheEnd(m, began) == m.at

\* The hour a duration is counted in: that of the start it was paired with.
DurationAt(m, began) == began

\* ApplyShiftStarted ... ApplyPathUnderstaffed, ApplyBreakStarted, ApplyBreakEnded:
\* the rollup after a claimed event, which has read that its break began at `began'.
RollupAfter(m, began) ==
    CASE m.kind \in Counted -> Add(rollup, m.path, m.at, One(m.kind))
      [] m.kind = "breakStarted" -> Add(rollup, m.path, m.at, One("breaks"))
      [] m.kind = "breakEnded" ->
            IF began = NoStart THEN rollup
            ELSE Add(rollup, m.path, DurationAt(m, began), Break(m.at - began))

\* Mutant: the end of a break leaves its start pending.
PendingNotCleared(m, began) ==
    IF m.kind = "breakStarted" THEN [pending EXCEPT ![m.who] = m.at] ELSE pending

\* The DELETE after a pairing removes the row of the associate, whatever it holds now.
PendingAfter(m, began) ==
    CASE m.kind = "breakStarted"                    -> [pending EXCEPT ![m.who] = m.at]
      [] m.kind = "breakEnded" /\ began # NoStart -> [pending EXCEPT ![m.who] = NoStart]
      [] OTHER                                       -> pending

\* Mutant: an effect that is not guarded by the claim of the event id.
ProjectUnclaimed(m, began) ==
    /\ processed' = processed \cup {m.id}
    /\ rollup' = RollupAfter(m, began)
    /\ pending' = PendingAfter(m, began)

\* inTx: the claim and the effect, at once; a claimed event has no effect again.
Project(m, began) ==
    IF m.id \in processed THEN UNCHANGED <<processed, rollup, pending>>
    ELSE /\ processed' = processed \cup {m.id}
         /\ rollup' = RollupAfter(m, began)
         /\ pending' = PendingAfter(m, began)

\* The end of a break reads its start before it writes, in one transaction.
NeedsStart(m) == m.kind = "breakEnded" /\ m.id \notin processed

\* A transaction that has inserted the same event id is open: the INSERT waits.
ClaimHeld(c) == \E d \in Consumers \ {c} : pc[d] = "pair" /\ Msg(d).id = Msg(c).id

\* The statements that end c's transaction, and its COMMIT.
Projects(c) ==
    \/ /\ pc[c] = "apply"
       /\ ~ClaimHeld(c)
       /\ ~NeedsStart(Msg(c))
       /\ Project(Msg(c), NoStart)
    \/ /\ pc[c] = "pair"
       /\ Project(Msg(c), start[c])

-----------------------------------------------------------------------------
(* AnalyticsConsumer *)

\* A pod (re)starts: its reader joins the group and begins at the committed offset.
Join(c) ==
    /\ c \in crew
    /\ pc[c] = "down"
    /\ pos' = [pos EXCEPT ![c] = offset + 1]
    /\ Goto(c, "fetch")
    /\ UNCHANGED <<log, store, faults>>

\* Mutant: a message that does not decode is fetched again and again.
FetchRetriesPoison(c) ==
    /\ pc[c] = "fetch"
    /\ pos[c] <= Len(topic)
    /\ Goto(c, CASE Msg(c).kind = "poison"  -> "fetch"
                 [] Msg(c).kind = "ignored" -> "commit"
                 [] OTHER                   -> "mark")
    /\ UNCHANGED <<log, pos, store, faults>>

\* FetchMessage and the decoding of handleFetchedMessage.
Fetch(c) ==
    /\ pc[c] = "fetch"
    /\ pos[c] <= Len(topic)
    /\ Goto(c, CASE Msg(c).kind = "poison"  -> "deadletter"
                 [] Msg(c).kind = "ignored" -> "commit"
                 [] OTHER                   -> "mark")
    /\ UNCHANGED <<log, pos, store, faults>>

\* markProcessedWithRetry, an attempt that answers.
MarkProcessed(c) ==
    /\ pc[c] = "mark"
    /\ consumed' = consumed \cup {Msg(c).id}
    /\ Goto(c, IF Msg(c).id \in consumed THEN "commit" ELSE "apply")
    /\ UNCHANGED <<log, pos, processed, rollup, pending, faults>>

Fault == faults < MaxFaults /\ faults' = faults + 1

\* A failed attempt of a stage: the next one, or the dead-letter topic.
Retry(c, stage) ==
    IF tries[c] + 1 = MaxAttempts THEN Goto(c, "deadletter")
    ELSE /\ pc' = [pc EXCEPT ![c] = stage]
         /\ tries' = [tries EXCEPT ![c] = @ + 1]
         /\ start' = [start EXCEPT ![c] = NoStart]

\* ... an attempt that returns an error, with or without its insert.
MarkFails(c) ==
    /\ pc[c] = "mark"
    /\ Fault
    /\ consumed' = consumed \cup {Msg(c).id} \/ UNCHANGED consumed
    /\ Retry(c, "mark")
    /\ UNCHANGED <<log, pos, processed, rollup, pending>>

\* ApplyBreakEnded: the id is claimed and the start of the break read, without a lock.
ReadStart(c) ==
    /\ pc[c] = "apply"
    /\ ~ClaimHeld(c)
    /\ NeedsStart(Msg(c))
    /\ pc' = [pc EXCEPT ![c] = "pair"]
    /\ start' = [start EXCEPT ![c] = pending[Msg(c).who]]
    /\ UNCHANGED <<log, pos, tries, store, faults>>

\* applyWithRetry, an attempt that succeeds.
Apply(c) ==
    /\ Projects(c)
    /\ Goto(c, "commit")
    /\ UNCHANGED <<log, pos, consumed, faults>>

\* ... an attempt that returns an error, rolled back or with its commit unanswered.
ApplyFails(c) ==
    /\ pc[c] \in {"apply", "pair"}
    /\ Fault
    /\ Projects(c) \/ UNCHANGED <<processed, rollup, pending>>
    /\ Retry(c, "apply")
    /\ UNCHANGED <<log, pos, consumed>>

\* deadLetterAndCommit: the message is stored on the dead-letter topic.
DeadLetter(c) ==
    /\ pc[c] = "deadletter"
    /\ dead' = dead \cup {pos[c]}
    /\ Goto(c, "commit")
    /\ UNCHANGED <<crew, topic, offset, pos, store, faults>>

\* CommitMessages.
Commit(c) ==
    /\ pc[c] = "commit"
    /\ offset' = pos[c]
    /\ pos' = [pos EXCEPT ![c] = @ + 1]
    /\ Goto(c, "fetch")
    /\ UNCHANGED <<crew, topic, dead, store, faults>>

\* Run returns the error of a fetch, of the dead-letter write or of the commit; run() of
\* the binary logs it and keeps the process and its /healthz.
LoopEnds(c) ==
    /\ pc[c] \in {"fetch", "deadletter", "commit"}
    /\ Fault
    /\ Goto(c, "stopped")
    /\ UNCHANGED <<log, pos, store>>

\* The pod dies, or a signal cancels the context it works under; a stopped one is
\* restarted from outside.
Crash(c) ==
    /\ pc[c] # "down"
    /\ Fault
    /\ Goto(c, "down")
    /\ UNCHANGED <<log, pos, store>>

-----------------------------------------------------------------------------
Work(c) ==
    \/ Join(c) \/ Fetch(c) \/ MarkProcessed(c) \/ ReadStart(c) \/ Apply(c)
    \/ DeadLetter(c) \/ Commit(c)

Fails(c) == MarkFails(c) \/ ApplyFails(c) \/ LoopEnds(c) \/ Crash(c)

Next == \E c \in Consumers : Work(c) \/ Fails(c)

Spec == Init /\ [][Next]_vars

\* A pod that can take a step takes one, and a crashed pod is started again; nothing
\* restarts a pod whose loop has ended.
FairSpec == Spec /\ \A c \in Consumers : WF_vars(Work(c))

-----------------------------------------------------------------------------
(* Properties *)

\* The processed events of a kind, of a path or of all paths.
Recorded(kind, filter) ==
    {m.id : m \in {n \in Messages(topic) :
                    n.id \in processed /\ n.kind = kind /\ AsksFor(filter, n.path)}}

\* The columns the partition can change, and the ends of the hours it covers.
Cuts == {hour * HourLength + t : hour \in Hours, t \in 0 .. HourLength - 1}
Horizon == Max(Hours) * HourLength + 1
ColumnOf(kind) == IF kind = "breakStarted" THEN "breaks" ELSE kind

\* (claim, PostgresReport.Query, "From is inclusive, To is exclusive") Retries,
\* redeliveries and two pods on one message never count an event twice, and the
\* reports of two adjoining windows, wherever they meet, count every processed event
\* of a kind and of the paths asked for exactly once; a processed end of a break
\* counts at most one duration.
ReportsCountOnce ==
    /\ Total(rollup, "breaksWithDuration", 0, Horizon, AnyPath)
          <= Cardinality(Recorded("breakEnded", AnyPath))
    /\ \A kind \in {m.kind : m \in Messages(topic)} \cap (Counted \cup {"breakStarted"}) :
       \A cut \in Cuts, filter \in Filters :
          Total(rollup, ColumnOf(kind), 0, cut, filter)
              + Total(rollup, ColumnOf(kind), cut, Horizon, filter)
          = Cardinality(Recorded(kind, filter))

\* (analytics_pending_breaks) However pods overlap and starts are overwritten, the
\* report has durations only in an hour in which it counts a break.
DurationsAreOfBreaks ==
    \A cell \in Cells : cell[1] = "breaksWithDuration" /\ rollup[cell] > 0 =>
        rollup[<<"breaks", cell[2], cell[3]>>] > 0

\* (report.ProjectionStore) A pod that has the partition to itself makes of Postgres
\* what MemoryStore is: each of its transactions is one Apply of the mutex-guarded
\* object, whatever fails and however often it is tried.  Two pods on one partition
\* do not keep this: the DELETE of one may take the start another has just recorded.
AsMemoryStore ==
    INSTANCE MemoryStore WITH seen <- processed, rows <- rollup, breaks <- pending,
                              latest <- Newest(processed)
ActsAsMemoryStore ==
    [][Cardinality(crew) = 1 => (\/ AsMemoryStore!Next
                                   \/ UNCHANGED <<processed, rollup, pending>>)]_vars

\* (AnalyticsConsumer, "exactly once per CloudEvents id") An event whose offset is
\* committed has had its effect, or is on the dead-letter topic.
AppliedOrDeadLettered ==
    \A i \in 1 .. offset :
        topic[i].kind \in {"poison", "ignored"} \/ topic[i].id \in processed
            \/ \E j \in dead : topic[j].id = topic[i].id

\* (ADR 0022) Unless a loop has ended, every message of the partition is passed in
\* the end: poison messages, failed databases and crashes included.
DrainedUnlessStopped ==
    ([]<>(\A c \in Consumers : pc[c] # "stopped")) => <>(offset = Len(topic))

-----------------------------------------------------------------------------
(* The inductive invariant of AnalyticsProjectorProofs *)

Decoded == {"mark", "apply", "pair"}
Holding == Decoded \cup {"deadletter", "commit"}

ProjectorTypes ==
    /\ crew \in Crews
    /\ topic \in Topics
    /\ offset \in Nat
    /\ pos \in [Consumers -> Nat]
    /\ pc \in [Consumers -> Holding \cup {"down", "fetch", "stopped"}]
    /\ tries \in [Consumers -> Nat]
    /\ start \in [Consumers -> Nat \cup {NoStart}]
    /\ rollup \in [Cells -> Int]
    /\ pending \in [Who -> Nat \cup {NoStart}]

\* A pod that works has a place in the partition, and a message from "mark" on.
PodsInv ==
    \A c \in Consumers :
        /\ pc[c] # "down" => c \in crew /\ pos[c] > 0
        /\ pc[c] \in Holding => pos[c] <= Len(topic)
        /\ pc[c] \in Decoded => Msg(c).kind \notin {"poison", "ignored"}

\* What the only pod has read for the transaction it is in is still so.
AloneInv ==
    \A c \in Consumers :
        crew = {c} /\ pc[c] = "pair" =>
            NeedsStart(Msg(c)) /\ start[c] = pending[Msg(c).who]

\* The events applied have a newest one.
NewestInv == \E x \in Times(processed) : \A y \in Times(processed) : x >= y

\* A start that is pending, or was read, is of a break that the report counts.
Begun(t) ==
    \A m \in Everything : m.kind \in BreakKinds =>
        <<"breaks", m.path, Bucket(t)>> \in Cells /\ rollup[<<"breaks", m.path, Bucket(t)>>] > 0

BreaksInv ==
    /\ \A cell \in Cells : cell[1] = "breaks" => rollup[cell] >= 0
    /\ \A a \in Who : pending[a] # NoStart => Begun(pending[a])
    /\ \A c \in Consumers : start[c] # NoStart => Begun(start[c])
    /\ DurationsAreOfBreaks

IInv == ProjectorTypes /\ PodsInv /\ AloneInv /\ NewestInv /\ BreaksInv

=============================================================================
