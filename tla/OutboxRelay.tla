----------------------------- MODULE OutboxRelay -----------------------------
(***************************************************************************)
(* The transactional outbox and the relays that drain it onto Kafka        *)
(* (internal/adapters/outbound/postgres/outbox_relay.go, ADR 0016).        *)
(*                                                                         *)
(* A unit of work draws the BIGSERIAL id of an outbox row when it inserts  *)
(* it; its rows become visible together when it commits.  A use case of    *)
(* the roster inserts one row while it holds the row lock of the aggregate *)
(* it saved, so the transactions of one aggregate follow one another; two  *)
(* aggregates may share a Kafka key (an associate's shift and assignment). *)
(* CommitShiftPlan inserts one row per line of the plan and one for        *)
(* analytics, and a read of the staffing gap or a proposal one per event:  *)
(* no lock orders those, two such transactions may overlap.  A relay's     *)
(* pass is one transaction: claim, then Send and mark row by row, commit.  *)
(***************************************************************************)
EXTENDS Integers, Sequences

CONSTANTS
    Aggregates,     \* rows whose lock orders the transactions that publish
    Lockless,       \* what else publishes: plan commits, staffing-gap reads, proposals
    Keys,           \* Kafka message keys of a topic: the unit of ordering
    KeysOf(_),      \* the keys of the rows an aggregate or a lockless source inserts
    Relays,         \* relay goroutines, one per replica
    Deployments,    \* the sets of replicas that may run: one, or the two of a rollout
    BatchSize,      \* OutboxRelay.batchSize
    MaxRows,        \* bound: outbox rows inserted in a behaviour
    MaxFaults       \* bound: failures of the broker and of relays

Sources == Aggregates \cup Lockless

ASSUME RelayAssumption ==
    /\ BatchSize \in Nat \ {0}
    /\ MaxRows \in Nat
    /\ MaxFaults \in Nat
    /\ Sources # {}
    /\ \A g \in Sources : KeysOf(g) \subseteq Keys /\ KeysOf(g) # {}
    /\ Deployments \subseteq SUBSET Relays

VARIABLES
    running,    \* the replicas of this behaviour
    lastId,     \* the sequence of outbox_events.id
    source,     \* source[id]: what inserted the row
    key,        \* key[id]: the Kafka key of the row
    sees,       \* sees[id]: the rows the transaction saw when it inserted id (history)
    open,       \* the rows of each open transaction
    committed,  \* the visible rows
    published,  \* the rows with a published_at
    batch,      \* batch[r]: the rows relay r has claimed, in order
    pos,        \* pos[r]: how many of them it has marked in its transaction
    pc,         \* pc[r]: the next step of relay r
    log,        \* log[k]: what Kafka has stored for key k
    faults      \* failures so far

table == <<running, lastId, source, key, sees, open, committed>>
vars == <<table, published, batch, pos, pc, log, faults>>

Ids == 1 .. MaxRows
Elements(s) == {s[i] : i \in 1 .. Len(s)}

Init ==
    /\ running \in Deployments
    /\ lastId = 0
    /\ source = [id \in Ids |-> CHOOSE g \in Sources : TRUE]
    /\ key = [id \in Ids |-> CHOOSE k \in Keys : TRUE]
    /\ sees = [id \in Ids |-> {}]
    /\ open = {}
    /\ committed = {}
    /\ published = {}
    /\ batch = [r \in Relays |-> << >>]
    /\ pos = [r \in Relays |-> 0]
    /\ pc = [r \in Relays |-> "idle"]
    /\ log = [k \in Keys |-> << >>]
    /\ faults = 0

-----------------------------------------------------------------------------
(* Units of work *)

\* The rows of the transactions that have not ended.
Pending == UNION open

\* Transaction u, {} for one that starts, inserts a row of g; the row lock of an
\* aggregate is held to the end of the transaction.
MayInsert(g, u) ==
    /\ lastId < MaxRows
    /\ u \in open \cup {{}}
    /\ \A id \in u : source[id] = g
    /\ g \in Aggregates => \A id \in Pending : source[id] # g

\* Mutant: the event is inserted outside the unit of work's transaction.
InsertOutsideTransaction(g, k, u) ==
    /\ MayInsert(g, u)
    /\ lastId' = lastId + 1
    /\ source' = [source EXCEPT ![lastId + 1] = g]
    /\ key' = [key EXCEPT ![lastId + 1] = k]
    /\ sees' = [sees EXCEPT ![lastId + 1] = committed \cup u]
    /\ open' = (open \ {u}) \cup {u \cup {lastId + 1}}
    /\ committed' = committed \cup {lastId + 1}
    /\ UNCHANGED <<running, published, batch, pos, pc, log, faults>>

\* OutboxPublisher.Publish in transaction u: one row, under one key.
Insert(g, k, u) ==
    /\ MayInsert(g, u)
    /\ lastId' = lastId + 1
    /\ source' = [source EXCEPT ![lastId + 1] = g]
    /\ key' = [key EXCEPT ![lastId + 1] = k]
    /\ sees' = [sees EXCEPT ![lastId + 1] = committed \cup u]
    /\ open' = (open \ {u}) \cup {u \cup {lastId + 1}}
    /\ UNCHANGED <<running, committed, published, batch, pos, pc, log, faults>>

\* UnitOfWork.Execute commits the rows of u, or rolls back and wastes their ids.
EndTransaction(u) ==
    /\ open' = open \ {u}
    /\ \/ committed' = committed \cup u
       \/ UNCHANGED committed
    /\ UNCHANGED <<running, lastId, source, key, sees, published, batch, pos, pc, log, faults>>

-----------------------------------------------------------------------------
(* Relays *)

\* The rows locked by another relay's transaction are skipped.
Locked == UNION {Elements(batch[r]) : r \in Relays}

\* Mutant: a claim that takes rows whatever their lock.
UnpublishedUnlocked == committed \ published

Claimable == (committed \ published) \ Locked

\* Mutant: ORDER BY id DESC.
NewestFirst(S) ==
    {s \in UNION {[1 .. n -> S] : n \in 1 .. BatchSize} :
        /\ \A i, j \in 1 .. Len(s) : i < j => s[i] > s[j]
        /\ \A x \in S : x \in Elements(s) \/ (Len(s) = BatchSize /\ x < s[Len(s)])}

\* ORDER BY id LIMIT batchSize: the batches a claim may take, which is just one.
Oldest(S) ==
    {s \in UNION {[1 .. n -> S] : n \in 1 .. BatchSize} :
        /\ \A i, j \in 1 .. Len(s) : i < j => s[i] < s[j]
        /\ \A x \in S : x \in Elements(s) \/ (Len(s) = BatchSize /\ s[Len(s)] < x)}

\* An empty claim commits and sleeps: it changes nothing.
Claim(r) ==
    /\ pc[r] = "idle"
    /\ \E s \in Oldest(Claimable) : batch' = [batch EXCEPT ![r] = s]
    /\ pc' = [pc EXCEPT ![r] = "send"]
    /\ UNCHANGED <<table, published, pos, log, faults>>

Current(r) == batch[r][pos[r] + 1]

Deliver(id) == log' = [log EXCEPT ![key[id]] = Append(@, id)]

\* The end of a pass: the row locks are gone, the marks stay if it committed.
EndPass(r, marks) ==
    /\ published' = published \cup marks
    /\ batch' = [batch EXCEPT ![r] = << >>]
    /\ pos' = [pos EXCEPT ![r] = 0]
    /\ pc' = [pc EXCEPT ![r] = "idle"]

Marked(r) == {batch[r][i] : i \in 1 .. pos[r]}

\* flush: the broker acknowledges the row.
Send(r) ==
    /\ pc[r] = "send"
    /\ Deliver(Current(r))
    /\ pc' = [pc EXCEPT ![r] = "mark"]
    /\ UNCHANGED <<table, published, batch, pos, faults>>

\* Mutant: a failed row is skipped and the pass goes on with the next one.
SendFailsAndGoesOn(r) ==
    /\ pc[r] = "send"
    /\ faults < MaxFaults
    /\ faults' = faults + 1
    /\ pos[r] + 1 < Len(batch[r])
    /\ batch' = [batch EXCEPT ![r] = SubSeq(@, 1, pos[r]) \o SubSeq(@, pos[r] + 2, Len(@))]
    /\ UNCHANGED <<table, published, pos, pc, log>>

\* failRow: the pass stops at the row and commits the marks before it.  Kafka may
\* have stored the message although the writer returned an error.
SendFails(r) ==
    /\ pc[r] = "send"
    /\ faults < MaxFaults
    /\ faults' = faults + 1
    /\ Deliver(Current(r)) \/ UNCHANGED log
    /\ EndPass(r, Marked(r))
    /\ UNCHANGED table

\* flush: the UPDATE of the row in the pass's transaction.
Mark(r) ==
    /\ pc[r] = "mark"
    /\ pos' = [pos EXCEPT ![r] = @ + 1]
    /\ pc' = [pc EXCEPT ![r] = IF pos[r] + 1 = Len(batch[r]) THEN "commit" ELSE "send"]
    /\ UNCHANGED <<table, published, batch, log, faults>>

CommitPass(r) ==
    /\ pc[r] = "commit"
    /\ EndPass(r, Marked(r))
    /\ UNCHANGED <<table, log, faults>>

\* Mutant: a pass that returns early without its deferred Rollback.
AbortPassWithoutRollback(r) ==
    /\ pc[r] # "idle"
    /\ faults < MaxFaults
    /\ faults' = faults + 1
    /\ pc' = [pc EXCEPT ![r] = "idle"]
    /\ UNCHANGED <<table, published, batch, pos, log>>

\* Mutant: a pass whose marks survive the crash in the middle of it, as they
\* would if claim itself set published_at.
AbortPassKeepingMarks(r) ==
    /\ pc[r] # "idle"
    /\ faults < MaxFaults
    /\ faults' = faults + 1
    /\ EndPass(r, Elements(batch[r]))
    /\ UNCHANGED <<table, log>>

\* The replica crashes or shuts down, or a statement of the pass fails: rollback.
AbortPass(r) ==
    /\ pc[r] # "idle"
    /\ faults < MaxFaults
    /\ faults' = faults + 1
    /\ EndPass(r, {})
    /\ UNCHANGED <<table, log>>

-----------------------------------------------------------------------------
Pass(r) == Claim(r) \/ Send(r) \/ Mark(r) \/ CommitPass(r)

Next ==
    \/ \E g \in Sources : \E k \in KeysOf(g), u \in open \cup {{}} : Insert(g, k, u)
    \/ \E u \in open : EndTransaction(u)
    \/ \E r \in running : Pass(r) \/ SendFails(r) \/ AbortPass(r)

Spec == Init /\ [][Next]_vars

\* Run loops for ever, so a relay that can take a step takes one; failures are
\* bounded by MaxFaults, the broker and the database come back.
FairSpec == Spec /\ \A r \in Relays : WF_vars(r \in running /\ Pass(r))

-----------------------------------------------------------------------------
(* Properties *)

\* The values of the tables and of the relays' memory; the row of an open
\* transaction is not visible, and only visible rows are claimed or published.
TypeOK ==
    /\ running \in Deployments
    /\ \A q \in Relays \ running : pc[q] = "idle"
    /\ lastId \in 0 .. MaxRows
    /\ source \in [Ids -> Sources]
    /\ key \in [Ids -> Keys]
    /\ sees \in [Ids -> SUBSET Ids]
    /\ Pending \subseteq (1 .. lastId) \ committed
    /\ committed \subseteq 1 .. lastId
    /\ published \subseteq committed
    /\ Locked \subseteq committed
    /\ batch \in [Relays -> Seq(Ids)]
    /\ pos \in [Relays -> Nat]
    /\ \A r \in Relays : Len(batch[r]) <= BatchSize /\ pos[r] \in 0 .. Len(batch[r])
    /\ pc \in [Relays -> {"idle", "send", "mark", "commit"}]
    /\ log \in [Keys -> Seq(Ids)]
    /\ faults \in 0 .. MaxFaults

Delivered(id) == id \in Elements(log[key[id]])

\* (RelayOnce, "the rows stay unpublished, so nothing is lost") Whatever relays
\* crash and sends fail, a row that will not be claimed again has reached Kafka
\* under its key, and only rows of committed transactions ever do.
NothingLostNothingInvented ==
    /\ \A id \in published : Delivered(id)
    /\ \A k \in Keys : \A id \in Elements(log[k]) : id \in committed /\ key[id] = k

\* (FOR UPDATE SKIP LOCKED) No row is in the hands of two relays, and none that is
\* published is claimed again.
ClaimsAreExclusive ==
    /\ \A r, q \in Relays : r # q => Elements(batch[r]) \cap Elements(batch[q]) = {}
    /\ \A r \in Relays : Elements(batch[r]) \cap published = {}

\* One relay drains the outbox.
Alone == \E r \in Relays : running = {r}

\* A key under which one aggregate publishes: its lock puts all the key's rows in order.
Ordered(k) == \E g \in Aggregates : \A h \in Sources : k \in KeysOf(h) => h = g

\* Of two rows under one key, new tells of what came after old: the transaction of new
\* saw old when it inserted new (old had been committed, or is an earlier row of the
\* same commit), or the two were ordered by a lock.
Before(old, new) ==
    /\ key[old] = key[new]
    /\ old \in sees[new] \/ (old < new /\ Ordered(key[new]))

\* (ADR 0016, "Per-key ordering is preserved") Whatever fails, Kafka receives a row for
\* the first time after every row before it: of an associate whose key one lock orders
\* all older rows, of a shift plan those of the commits that had ended and the earlier
\* lines of the same commit.  Two relays of a rollout do not keep it.
FirstDeliveriesInOrder ==
    Alone => \A old, new \in committed : Before(old, new) =>
        LET stored == log[key[new]]
        IN  \A n \in 1 .. Len(stored) : stored[n] = new =>
                \E m \in 1 .. n - 1 : stored[m] = old

\* Every message of old is followed by one of new.
Follows(old, new) ==
    LET stored == log[key[new]]
    IN  \A n \in 1 .. Len(stored) : stored[n] = old =>
            \E m \in n + 1 .. Len(stored) : stored[m] = new

\* (ADR 0023, consumers must not be left with "a stale or partially-applied revision")
\* Once every row is published, each message, redeliveries included, is followed by one
\* of every row that came after it: whatever a consumer overwrites by, an associate or a
\* path of the plan, no row of an earlier commit is the last it reads.  Of commits that
\* overlapped it may be.
SettledOnTheLatest ==
    (Alone /\ committed = published) =>
        \A old, new \in committed : Before(old, new) => Follows(old, new)

\* (Run) Every committed row is published in the end.
EveryRowIsPublished == \A id \in Ids : id \in committed ~> id \in published

-----------------------------------------------------------------------------
(* The inductive invariant of OutboxRelayProofs *)

\* A relay has claimed rows exactly while it is in a pass, in the order of their ids.
PassInv(r) ==
    /\ pc[r] = "idle" => batch[r] = << >> /\ pos[r] = 0
    /\ pc[r] \in {"send", "mark"} => pos[r] < Len(batch[r])
    /\ pc[r] = "commit" => pos[r] = Len(batch[r])
    /\ \A i, j \in 1 .. Len(batch[r]) : i < j => batch[r][i] < batch[r][j]

\* The rows of its batch that r knows Kafka has acknowledged.
Sent(r) == {batch[r][i] : i \in 1 .. (IF pc[r] = "mark" THEN pos[r] + 1 ELSE pos[r])}

SentInv == \A r \in Relays : \A id \in Sent(r) : Delivered(id)

\* A transaction sees what is committed and its own rows, all of them older, and its
\* rows become visible together.
SeesInv ==
    /\ \A u \in open : \A id \in u : sees[id] \subseteq (committed \cup u)
    /\ \A id \in committed : sees[id] \subseteq committed
    /\ \A id \in committed \cup Pending : key[id] \in KeysOf(source[id])
    /\ \A id \in committed \cup Pending : \A old \in sees[id] : old < id
    /\ \A u, v \in open : u # v => u \cap v = {}

\* Two rows of one aggregate: the later one was inserted when the other was visible.
LockInv ==
    \A old, new \in committed \cup Pending :
        (old < new /\ source[old] = source[new] /\ source[new] \in Aggregates) =>
            old \in committed /\ old \in sees[new]

\* Of two rows one of which is before the other, the older is published first, a batch
\* does not leave it out, and the message of a row that counts as sent follows those of
\* the rows before it.
OrderInv ==
    \A old, new \in committed : Before(old, new) =>
        /\ new \in published => old \in published
        /\ \A r \in Relays : new \in Elements(batch[r]) =>
              old \in published \cup Elements(batch[r])
        /\ new \in published \cup UNION {Sent(r) : r \in Relays} => Follows(old, new)

IInv ==
    /\ TypeOK
    /\ NothingLostNothingInvented
    /\ ClaimsAreExclusive
    /\ \A r \in Relays : PassInv(r)
    /\ SentInv
    /\ SeesInv
    /\ LockInv
    /\ Alone => OrderInv
    /\ FirstDeliveriesInOrder

=============================================================================
