# Workforce management: TLA+ models and proofs

The repository is a Go service that keeps the roster of a warehouse: who is on shift, who is
assigned to which process path, how a shift is planned, and a labor analytics read model fed from
its events. This directory holds the TLA+ modules of the parts with logic of their own, the TLC
configurations that check them on small instances, and TLAPS proofs of every safety property of the
passing runs, for all values of the constants.

    tlc -workers 2 -config LaborRoster.cfg LaborRoster     # any run of PROJECT.json
    tlapm LaborRosterProofs.tla                            # any of the ...Proofs modules, and SumLemmas

`PROJECT.json` lists components, runs, mutants, the source lines behind every definition, findings,
hazards and theorems.

## 1. Inventory

Paths are relative to `src/internal/` unless they start with `cmd/`; use cases are in
`application/usecases`, adapters in `adapters/inbound` and `adapters/outbound`.

| Component | State | Operations | Hard behaviour | What makes it correct | Module |
|---|---|---|---|---|---|
| Aggregates `domain/shift`, `domain/assignment` | one associate's shift (certifications, break, end, hours); his active interval and history | start, certify, start/end break, log hours, end; assign, close | none alone: pure methods | error conditions; intervals in order | `RosterDomain`, `AtomicShift`, `AtomicAssignment` |
| Roster use cases `application/usecases` with `adapters/outbound/postgres` repositories | tables `associate_shift`, `labor_assignment`, `labor_assignment_history`, `outbox_events` | StartAssociateShift, CertifyAssociate, StartBreak, EndBreak, AssignLabor, EndAssociateShift | reads outside the transaction, two-statement reads, version checks, row locks in opposite orders, rollbacks | no lost update; hours, history and events move together; every request answered | `LaborRoster`, `LaborRosterProofs` |
| Outbox and relay `postgres/outbox_*.go` | outbox rows, claims, what Kafka has | insert, claim, send, mark, commit | crashes between send and commit, two replicas in a rollout | nothing lost, nothing invented, order where one lock gives it | `OutboxRelay`, `OutboxRelayProofs` |
| Analytics consumer, projection and report `inbound/kafka/analytics_consumer.go`, `outbound/analyticsstore`, `cmd/workforce-reports` | consumer offset, `consumed_events`, `analytics_processed_events`, rollup, pending breaks, dead letters | fetch, gate, apply, dead-letter, commit; query by window and path, freshness | at-least-once delivery, retries of statements whose answer was lost, overlapping pods, crashes; windows that meet inside an hour | reports count an event once; the projection acts as the in-memory store | `AnalyticsProjector`, `AnalyticsProjectorProofs`, `LaborReport`, `MemoryStore` |
| Shift planning `usecases/commit_shift_plan.go`, `postgres/shift_plan_repo.go`, `filecatalog` | `shift_plan`, `path_plan`, the catalogue of the boot | CommitShiftPlan | overlapping re-commits, deadlock, re-read for the event | plan never empty, one line per path, events carry what was committed | `ShiftPlanning`, `ShiftPlanningProofs`, `PathCatalogue` |
| GetStaffingGap `usecases/get_staffing_gap.go` | none; reads plans and assignments | gap of a path, gaps of a shift, the MCP tool | a plan in two statements, then a count per path, while others commit; an event on every read | gaps were true; a list is off by its moves at most; events and answer agree | `StaffingGap`, `StaffingGapProofs` |
| MCP server `cmd/mcp`, `inbound/mcp` | none; writes the roster's tables | assign_labor, get_staffing_gap, propose_path_heads, the report tool | saves without a transaction beside the HTTP service | (violated) changes carry their events | `McpAssignment`, `StaffingGap`, `PlanProposal` |
| Catalogue and performance caches `kafkacatalog`, `laborperformancecache` | replayed maps and means, dedupe set, readiness | capture, read, commit offsets, restart, look up | rebalances, redeliveries, retention, empty topics, map order | ready means replayed; latest value, also of lookups; a task counts once | `ReplayReader` with `CatalogueCache`, `PerformanceCache`; `ReplayedCachesProofs` |
| Outbound clients and breaker `resilience`, `fulfillmentexecution`, `laborperformance` | gobreaker's state, counts, generation | call, retry, give up, cancel, fall back | calls of old generations, probes, windows | one probe; trips on fresh failures; recovers | `CircuitBreaker`, `ProcessProofs` |
| ProposePathPlan `usecases/propose_path_plan.go` | none but its request; calls the performance cache twice | resolve the rate, heads, trim, publish | the cache moves between the calls; float rounding | heads cover the charge; trims are bounded; both rest on recorded tasks | `PlanProposal` over `PerformanceCache`, `ReplayedCachesProofs` |
| Process lifecycle `cmd/*/main.go`, `bootretry` | boot stage, readiness, requests and relay pass in flight | boot, gate, serve, signal, shut down | order of stopping, deadline, background loops that end | boots end; relay outlives requests; shutdown ends | `ServiceLifecycle`, `ProcessProofs` |
| HTTP routing, CloudEvents encoding, in-memory repositories, telemetry, pools, migrations | none, or static | | | | not modelled (section 7) |

Interactions: HTTP handlers run the use cases; a use case writes its aggregates and its outbox rows
in one transaction (`UnitOfWork.Execute`); the relay sends the rows to Kafka; the projector reads
the analytics topic into the rollup. CommitShiftPlan looks paths up in the catalogue cache and asks
fulfillment-execution for installed stations through a breaker; ProposePathPlan asks the performance
cache, or labor-performance through the other breaker. GetStaffingGap compares the committed plan with
the active assignments. The MCP server runs three of the use cases in a process of its own, on the same
tables. The lifecycle decides when each may run.

## 2. Modules and their correspondence to the code

* **`RosterDomain`**: the two aggregates as records, one operator per method, one `Can...` operator
  per error condition. A clock tick stands for an hour; `MaxHoursPerShift` is the policy value.
* **`AtomicShift`, `AtomicAssignment`**: what a caller expects of one row: it changes by one
  domain method applied to its latest value. Both are used through `INSTANCE ... WITH`.
* **`LaborRoster`** (extends `RosterDomain`): `pc[p]` walks the statements of a use case. `Receive`
  is the request with its first SELECT, `clock/row/history` the later reads, `decide` the domain
  call, `save` one version-guarded upsert each (it takes the row lock, or waits, or conflicts),
  `publish` the outbox insert, `commit` the commit. `DeadlockVictim` is Postgres's detector,
  `Fail` any statement that fails, or a crash. `mem[p]` is what the handler has read; nothing
  refreshes it. `Apply` is what a consumer makes of an event of the outbox, and `Replay` of all of an
  associate's in the order of their ids. The row of an `AssociateShiftStarted` carries the associate alone,
  so a view has the certifications gained since; `SeenAs` compares it with the stored shift. `now` is one
  clock for all replicas, and never goes back: skew between their `time.Now` is not modelled, and
  `IntervalsInOrder` and its theorem rest on that.
* **`OutboxRelay`**: units of work that draw ids and commit or roll back, and relays whose pass is
  claim (oldest unpublished, unlocked rows), send and mark row by row, commit. A use case of the roster
  inserts one row under the lock of its aggregate (`Aggregates`). CommitShiftPlan inserts one per line,
  a staffing gap or a proposal one per event, and no lock orders such units (`Lockless`): the insert of a
  plan's header does nothing when it exists, and locks nothing. So they have any number of rows and
  overlap at will. `sees[id]` is a history variable, what the transaction saw when it inserted the row. `SendFails` stops the
  pass at the row and keeps the marks before it; the message may have been stored all the same.
  `AbortPass` is a rollback. `running` is the set of replicas of a behaviour.
* **`LaborReport`**: the rollup as a function of cells (column, path, hour), what an event adds, and the
  query: `Selected` is the WHERE clause, `Total` what the rows of a report add up to, `Newest` the event
  behind the freshness lag.
* **`AnalyticsProjector`** (extends `LaborReport`): a pod's loop over one partition, with both
  idempotency layers, the bounded retries, the dead-letter write and the offset commit as separate
  steps. A failed statement may have taken effect. The end of a break is two steps: its transaction
  reads the pending start without a lock (`ReadStart`), then writes. A crew is one pod, or the two of a
  rebalance.
* **`MemoryStore`**: the in-memory projection, one atomic step per `Apply`; it is the abstract
  specification that `ActsAsMemoryStore` says the Postgres projection of one pod implements.
* **`McpAssignment`** (extends `LaborRoster`): some handlers are tool calls of the MCP server: the same
  reads and decision, but `SaveAlone` commits each row as it is written, and `LogEvent` stores nothing.
* **`StaffingGap`**: a read walks `exists`, `lines`, `count` (once per path), `publish`; meanwhile plans
  and assignments are committed atomically. `held` and `moves` are history variables: what was true, and
  how many assignments were committed, since the request came.
* **`PathCatalogue`, `ShiftPlanning`**: longest-prefix lookup and what the file loader accepts, and
  CommitShiftPlan for one building and shift. READ COMMITTED is visible: the DELETE acts on the rows its
  statement saw, the inserts wait for a key held by another transaction, the event's lines are re-read
  inside the transaction.
* **`ReplayReader`**: the replay consumer both caches are built on; **`CatalogueCache`** and
  **`PerformanceCache`** extend it with the effect of a message and with what their callers ask.
  `Answers` is the set of results a lookup can have, over all iteration orders of the map.
* **`CircuitBreaker`**: the library's states, counts and generations as configured here, and the
  retry loop that is one call of the breaker. The library's own code is not in the repository; it is
  modelled from its configuration and from how the clients use it.
* **`PlanProposal`** (extends `PerformanceCache`): the handler and the cache it asks are one state
  machine, so the cache reads on, rewinds or restarts between the two calls; the other compositions
  (HTTP client, permissive, MCP) are values of `mode`. Charges and a caller's rate are integers, a measured
  mean a fraction; `ProposedHeads` and `RoundedUp` give both results that `math.Ceil` of a
  floating-point quotient or product can have where the exact one is whole.
* **`ServiceLifecycle`**: a binary is the sequence of stages of its `run()`; `Configurations` has the
  workforce service with file or Kafka catalogue, with or without kafka-cache rates, with outbox or log
  publisher; the MCP server with and without a database; the projector; the reports service.

* **`SumLemmas`**: what the proofs need to know of sums over finite sets.

`MC...` modules give the parameters their values. Operators marked *Mutant* are plausible mistakes
in the definition that follows them; for each property one of them is known to break it, and some
properties of several parts have more than one.

## 3. Runs

Each passing run checks safety properties and, where there is one, refinement and liveness.
All runs stop at bounds (requests, rows, faults), after which the system may rest, so deadlock is
not checked; the liveness properties say what must not get stuck.

| Run | Instance | Shows |
|---|---|---|
| `roster` | 1 associate, 1 path, 2 handlers, 4 requests, times 0..2, at most 1 hour per shift; 220,000 states | versions name values; shifts are atomic (refinement of `AtomicShift`); history only grows by closing; hours follow history; intervals in order; the outbox replays to the row, as far as its events tell; every request is answered |
| `assignment_atomic` | as above with 2 paths, times 0..1 | *violated*: two first assignments; the second overwrites the first |
| `outbox_relay` | 2 relays or 1, batch 2, 3 rows of a shift and of a plan's commits, 2 faults; 565,000 states | nothing lost or invented; claims exclusive; first and last messages in order, of overlapping and many-row commits too; every row published |
| `projector` | 1 or 2 pods, 3 attempts, 3 faults, three partitions, hours of 2 ticks; 144,000 states | adjoining reports count every processed event, and every end of a break, once; durations are in the hours of breaks; one pod acts as `MemoryStore`; drained unless a loop has ended |
| `exactly_once` | 1 pod, 1 fault | *violated*: a crash behind the gate loses the event |
| `shift_planning` | 2 handlers, 3 requests, 6 bodies, 0 or 1 stations; 42,000 states | plans are never empty and have one line per path; events carry committed lines; commits replace what they saw; every commit answered |
| `staffing` | 1 read at a time, 2 reads, 2 associates, 3 paths, 3 plans, 4 commits; 822,000 states | gaps were true; lists are off by the moves at most; events match the answer |
| `mcp_events` | 1 HTTP and 1 MCP handler, 2 requests | *violated*: an assignment through the MCP server has no outbox row |
| `catalogue` | 2 paths on 2 partitions of up to 2 messages, or a history of 3, 2 expired each, 2 upsets, 4 ids looked up; 1,002,000 states | ready means replayed; a settled cache is latest, and so are lookups; becomes ready |
| `rates` | 1 partition of up to 3 messages, 4 tasks of one type and 2 other messages, 1 expired, 2 upsets, 6 requests, all four compositions; 1,773,000 states | a task counts once; heads cover the charge; trims bounded; proposals rest on recorded tasks |
| `breaker` | 2 callers, limit 2 for 5, volume 4 for 10, 2 attempts, 3 outages, 1 cancel; 79,000 states | one probe; trips on fresh evidence; recovers |
| `lifecycle` | 12 configurations, 2 requests, 5 attempts, reset of 10 seconds; 36,000 states | the reset is outlived; boots end; relay outlives requests; a signal ends the process |

Why these bounds are enough for the question asked:

* Two handlers are all that row locks need for conflict, wait and deadlock; of four requests, two set
  the stage (a shift, an assignment) and two interleave, or three follow one another. One associate
  suffices: no statement touches the rows of two. `MaxHoursPerShift = 1` with times to 2 reaches the
  refusal for too many hours.
* A batch of two with three rows has a pass that stops in the middle, a row behind it, and a row the
  second relay can take. The shift is ordered by its row's lock; the plan's three rows are one commit of
  three lines, or two or three commits that overlap or follow one another. A shift and an assignment under
  one key are two such commits of one row.
* The projector's partitions hold two breaks in sequence, a redelivered pair, and a mixture with a
  poison message, an ignored type and a duplicate, over three hours. Three faults exhaust the
  attempts of a stage, or crash a pod and leave two.
* The six bodies share a path and each has one the other lacks; the rest are refused, each for a
  reason of its own, the one with a path twice by the primary key.
* A read of two paths has one point between its counts; two moves there count an associate twice, or
  not at all, and four commits leave two for a plan. Two reads in sequence tell the events of one from
  those of the other. Concurrent reads share nothing but the outbox, to which each appends once.
* Of the two catalogue paths one is more specific until the other takes its prefix; one has an empty
  prefix. Three tasks in a partition make a mean that no float64 equals.
* Two upsets allow a rewind and a restart in one behaviour; the topics include an empty one.
* Breaker limits are scaled down, with their order kept: the volume leg needs more calls than the
  consecutive leg.

### Fairness

Fairness is only put on what the code itself keeps doing. Failures, requests and outages are never
forced; they are bounded, so they cease.

* `LaborRoster`, `ShiftPlanning`: `WF(Work(p))`. A handler goroutine runs on, and the deadlock
  detector acts on a cycle. A request that waits for a row is enabled again when the lock is released.
* `OutboxRelay`: `WF` on each running relay's pass: `Run` is an endless loop.
* `AnalyticsProjector`: `WF(Work(c))`: a crashed pod is restarted, a loop that has returned is not,
  since the process stays up and healthy.
* `ReplayReader`: the boot sequence and the `Run` goroutine go on. `BecomesReady` excludes a stopped
  reader and a tail deleted by retention, where the code waits for a message that need not come.
* `CircuitBreaker`: time passes, a call ends (its timeout), and requests keep coming: gobreaker
  changes its state only when asked. `Recovers` assumes that calls in flight are answerable, and
  that no probe's caller has given up: what the library does with the slot of an excluded result
  is modelled both ways, and one of them keeps it.
* `ServiceLifecycle`: `run()` goes on, the timers of bootretry, of `WaitReady` and of the shutdown come,
  statements and sends end. That one attempt of a boot returns is assumed, not shown: `bootretry`, `Migrate`
  and `ReadPartitions` set no timeout of their own. `BootEnds` is about attempts that fail and replays that
  do not end.

## 4. Findings

The three *violation* runs are listed under `findings` with the quoted lines. The same models showed
these further divergences while they were written; they are stated here, and the properties of the
passing runs are the ones that do hold instead.

* `usecases/assign_labor.go:79`: the shift is saved, and its version checked, only when an interval
  was closed; a break or end that commits in between leaves an associate on break assigned, against
  `docs/docs/ddd/invariants.md:113`.
* `usecases/end_associate_shift.go:40`: an ended shift with an active assignment is changed or
  refused, against `apis/openapi.yaml:659` ("no error, no event"). Line 31: the clock is read before
  the assignment, so an interval can be closed before its start.
* `cmd/mcp/main.go:177`: besides the events (`mcp_events`), a failure between the two saves of a
  re-assignment leaves the hours logged and the interval open: with tool calls among the handlers
  `HoursFollowHistory` fails, while `VersionNamesTheValue`, `IntervalsInOrder`, `HistoryGrowsByClosing`
  and `ShiftIsAtomic` still hold in the same instance.
* `cmd/workforce/main.go:534`: `stopRelay()` cancels the pass in flight and starts none, so an event of
  a request answered before the signal can be left to the next pod, against line 531 ("is not
  stranded"). `NothingStranded` of `ServiceLifecycle` states it; it is violated.
* `postgres/outbox_relay.go:138`: two relays deliver a key out of order, against line 32 of the same file
  and ADR 0016:165; one relay delivers the rows of transactions that overlap in the order in which they
  become visible, then of their ids. `Before` names the rows whose order is kept. A rolled-back pass sends
  older rows again after newer ones.
* `postgres/shift_plan_repo.go:33`: re-commits of one plan can overlap, so ADR 0023:30 ("any later
  re-commit") is kept only for a re-commit that began to publish when the earlier had ended. Of two that
  overlap the last message under `building/shift` can be of the one that ended first, and the one with
  the larger id can carry a line, re-read from a third commit, that the other has just replaced.
* `analyticsstore/postgres_projection.go:133`: after a lost or dead-lettered break event an end is
  paired with a start of another break. Lines 143 to 165: the start is read without a lock and deleted
  by associate, so two pods around a rebalance can count one break's duration twice in its hour, or
  delete a start that was just recorded; `ActsAsMemoryStore` names the condition of one pod.
  `postgres_report.go:73`: the freshness lag is that of the newest event applied and does not show the
  events lost behind the gate. `cmd/workforce-projector/main.go:149`: a failed dead-letter
  write ends the loop while the process stays healthy, the proviso of `DrainedUnlessStopped`.
* `postgres/shift_plan_repo.go:40`: overlapping re-commits of different paths leave the union of
  both, against ADR 0021:67. `CommitReplacesWhatItSaw` is what holds.
* `kafkacatalog/consumer.go:170`: after a rebalance the cache goes back to older values until it has
  caught up. If retention deletes a path's later messages meanwhile, it keeps the older value until
  the next one: the two provisos, `Settled` and `Outrun`, of `SettledCacheIsLatest`. Line 287: of two
  paths that declare one prefix a lookup answers either, by map order; in the file catalogue the first
  declared wins.
* `laborperformance/breaker.go:137`: paths without a task type or without data count as failures, and
  open the breaker of a healthy dependency, the premise of `Recovers`.
* `usecases/propose_path_plan.go:87`: mean seconds per task are used as units per hour.
  `domain/shiftplan/shift_plan.go:65`: a negative charge gives negative heads; the MCP tool refuses it,
  the HTTP handler does not.
* `usecases/get_staffing_gap.go:117`: a list can count an associate twice or not at all;
  `ListsBlurByMoves` says by how much. A read raises its event again every time, and a retried read too.
* `cmd/workforce-projector/main.go:143`, `cmd/workforce-reports/main.go:94`: a listener that fails is
  logged, and the process waits for a signal; the other two binaries exit.
* `cmd/workforce/main.go:520`: consumers are stopped before the listener, against ADR 0022:232.
  `bootretry/bootretry.go:63`: the waits add up to 15 seconds, not the 31 of line 33;
  `SurvivesTheReset` holds all the same.

## 5. Proofs

Seven modules named `...Proofs` extend the modules they are about; `SumLemmas` has what several of them
cite. Each proves its inductive invariants, `Invariance: Spec => []IInv` (`CatalogueInvariance` and
`ProposalInvariance` where one module has two), for every value of the constants, and from them:

| Module | Theorem | Statement |
|---|---|---|
| `LaborRosterProofs` | `TypeCorrect` | `Spec => []TypeOK` |
| | `VersionsNameValues` | `Spec => []VersionNamesTheValue` |
| | `ShiftsAreAtomic` | `Spec => ShiftIsAtomic`: `LaborRoster` implements `AtomicShift` |
| | `HistoryOnlyGrows` | `Spec => HistoryGrowsByClosing` |
| | `HoursAndHistoryAgree` | `Spec => HoursFollowHistory` |
| | `NoDoubleBooking` | `Spec => []IntervalsInOrder` |
| | `OutboxTellsTheShift` | `Spec => []OutboxReplaysToShift` |
| `OutboxRelayProofs` | `TypeCorrect` | `Spec => []TypeOK` |
| | `OutboxIsFaithful` | `Spec => []NothingLostNothingInvented` |
| | `ClaimsExclude` | `Spec => []ClaimsAreExclusive` |
| | `KeysAreOrdered` | `Spec => []FirstDeliveriesInOrder` |
| | `LastMessageIsLatest` | `Spec => []SettledOnTheLatest` |
| `AnalyticsProjectorProofs` | `EventsCountOnce` | `Spec => []ReportsCountOnce` |
| | `OnePodIsMemoryStore` | `Spec => ActsAsMemoryStore`: one pod's projection implements `MemoryStore` |
| | `DurationsNeedBreaks` | `Spec => []DurationsAreOfBreaks` |
| `ShiftPlanningProofs` | `PlansAreWellFormed` | `Spec => []PlanIsWellFormed` |
| | `EventsAreCommitted` | `Spec => []EventsCarryCommittedLines` |
| | `CommitsReplace` | `Spec => CommitReplacesWhatItSaw` |
| `StaffingGapProofs` | `GapsAreNotMadeUp` | `Spec => []GapsWereTrue` |
| | `ListsAreNearlyTrue` | `Spec => []ListsBlurByMoves` |
| | `EventsFollowAnswers` | `Spec => []EventsMatchTheAnswer` |
| `ReplayedCachesProofs` | `ReadinessIsEarned` | `CatalogueSpec => []ReadyMeansReplayed` |
| | `CacheIsLatest` | `CatalogueSpec => []SettledCacheIsLatest` |
| | `LookupsAnswerTheLatest` | `CatalogueSpec => []LookupsSeeTheLatest` |
| | `RatesAreReplayed` | `Spec => []ReadyMeansReplayed`, `Spec` being that of `PlanProposal` |
| | `TasksCountOnce` | `Spec => []EachTaskCountsOnce` |
| | `ProposalsAreMeasured` | `Spec => []ProposalsRestOnTasks` |
| | `ChargeIsCovered` | `Spec => []HeadsCoverTheCharge` |
| | `TrimsAreBounded` | `Spec => []TrimIsBounded` |
| `ProcessProofs` | `ProbesAreSingle` | `Spec => []OneProbeAtATime` |
| | `TripsAreFresh` | `Spec => TripsOnFreshEvidence` |
| | `BootSurvivesTheReset` | `LifecycleSpec => []SurvivesTheReset` |
| | `RelayOutlivesThem` | `LifecycleSpec => []RelayOutlivesRequests` |

Every inductive invariant was first checked by TLC on the instance of its run. The proofs rest on the named
assumptions of the modules, which TLC evaluates in every run that extends them. Most only say that a
bound is a number and that a value standing for "none" is not one of the values. The others say what
the constants are instances of:

* `RelayAssumption`: whatever publishes has a key to publish under, and a batch holds at least one row.
* `EventAssumption` (`LaborReport`): a CloudEvents id names one event, which is what `NewId` of the
  publisher mints it for; there are finitely many events; and those of breaks all go to the building-wide
  row, as both stores put them.
* `CatalogueAssumption`: a path's messages are all in one partition, since the producer keys by path; ids
  and prefixes are what `strings.Split` makes of a string, sequences of segments.
* `CacheAssumption`: times of a task are integers, of any sign; a partition holds events; an id is that of
  one occurrence, which is what the code's own `seen` set relies on.
* `PlanningAssumption`: the catalogue is one the loader accepts. `StaffingAssumption`: a committed plan has
  lines, of declared paths, and there are finitely many associates to assign.
* `ResetAssumption`: the waits between a boot's attempts add up to the reset's length at least. With
  the constants of `bootretry`, 1 + 2 + 4 + 8 seconds, it is TLC that evaluates it; the theorem is then that
  no boot gives up before its waits have all been made.

### The arguments

**Roster.** A handler decides on rows it read outside the transaction, so type correctness says
nothing about what a commit does. `IInv` adds:

* `VersionNamesTheValue`: a read whose version is still the row's *is* the row, and its history the
  row's history. A torn read of row and history is behind the row.
* `LocksInv`: a row lock belongs to an open transaction whose version check still holds, so between
  the upsert and the commit nobody else changes the row.
* `HandlerInv`, `SavesInv`: at each step a handler's memory satisfies the conditions it checked, and
  it holds the locks of exactly the saves it has made.
* `RowsStartEmpty`: a row of version 1 has no history. It is what makes the one hole harmless to the
  history: a fresh assignment has version 1, so its upsert passes the check against a row somebody
  else has just inserted, with a history that is empty as well. (It is not harmless to the
  assignment: `assignment_atomic`.)

Together they give that every commit is computed from the current value. The file has one lemma per
step of a handler, each with one step per conjunct that the action can disturb; then lemmas about
what a commit writes (shift, history, hours); then the theorems. The order of intervals needs
`OrderInv`: no time read is ahead of the clock, and a decision to assign has a time not before any end
its handler has read. An end has no such time, since its clock is read first, and needs none: what it
closes began after the history.

The outbox replays to the row because of where its id is drawn. A row of a shift's event is inserted after
the shift's upsert, so under the lock of the shift's row, and the lock is kept to the commit. `ReplaysInv`
says what follows: the id of a handler about to commit is after those of all the shift's rows, although ids of
other associates and of rolled-back transactions lie between. So a commit makes `Replay` one event longer
(`OneRowMore`, an induction over ids), and the event does to a consumer's view what the domain method did to
the row (`CommitReplays`).

**Relay.** Claims exclude each other because a batch is of unlocked rows and every row of a batch stays
locked to the end of the pass. Order needs more than the order of ids, which are drawn before rows become
visible. `Before` says which rows are ordered: `new` comes after `old` if its transaction saw `old`, or if
one lock orders the key. `SeesInv`: what a transaction sees is committed or its own, and its rows become
visible together. `LockInv`: of two rows of an aggregate the older was committed when the newer was inserted.
So no row of an open transaction is before a committed one (`BeforeFacts`), and no older row can still
appear; `OrderInv` then says that a batch leaves none out, and that the messages of what is published or
counts as sent (`Sent`) follow those of the rows before it. A pass that is rolled back sends old rows again,
but sends the newer ones again too before it publishes them.

**Projector.** `PodsInv` and `AloneInv`: a pod alone still has, in its second statement, the start that is
pending. `NewestInv`: the events applied have a newest one, so that the freshness of the database is
`MemoryStore`'s running maximum. Then each transaction is one `Apply` (`TransactionIsApply`), and every
other step is a stutter. For durations, `BreaksInv` says that a start which is pending, or was read by any pod
of any crew, is of a break the report counts; breaks are never taken back. That reports count once is an
induction over the cells: a transaction adds to one cell of a kind's column, or none (`TotalAfterAdd`), the
cut of two windows leaves every hour in one of them (`CutsDivideTheHours`), and the claim inside the
transaction makes it the first for its id, whichever pod makes it (`ProjectCountsOnce`).

**Plans.** Two transactions may see the same rows and both delete "all" of them. `TransactionInv` has what one
knows: rows it saw are of ended requests, those it deleted it holds the locks of, and what it inserted are the
first lines of its body. `ApartInv` keeps two of them apart: no common deleted row, no common key. A commit
then finds every row it saw either deleted by itself or gone.

**Staffing gaps.** `ReadInv`: during a read, what is true now is among what has been true since its request,
and its lines are the plan's unless another plan was committed. `CommitsInv`: a request number stands
in one commit at most, and in none while its read goes on. `ListsInv` goes with the sum of the heads counted:
a count adds to it exactly the heads of a path not yet on the list, and a move changes the number really there
by at most one, which is what it adds to `moves`.

**Catalogue.** `ReaderInv`: what the reader has passed is handled or deleted, so a target that is reached is
replayed. `Shows` is the key to the cache: it shows some message of the path, and only messages that the
reader has still to read again, or that retention has taken, are newer. A settled reader has none of
the first kind. For lookups, `FirstInAnOrder` builds an iteration order of the map for each candidate, and
`LookupsOfAllOrders` says that the longest match is what every order ends on, among equals any of them.

**Performance cache.** `SeenInv` has the dedupe set say exactly which tasks were handled; then a message that
is handled again is one whose id was seen, and the first handling adds one term to each sum (`OneTaskMore`,
`ReadTaskInv`), over any topic, rewinds and restarts included.

**Breaker.** `CountsInv`: calls of the current generation have their place among its requests, so the limit on
requests limits the calls in flight; failures are the evidence collected in the window.

**Lifecycle.** `BootInv`: the delay is that of the attempts made, and all delays before it have been waited for,
so a boot that refuses after its last attempt has waited for the whole budget. `ShutdownInv`: once readiness is
withdrawn a process is in the stages of the workforce's shutdown, where listener, requests and relay stop in
this order; it must know the place of every stage in each configuration, and that a listener which fails
leaves readiness alone.

**Sums and replays.** `SumFunctionOnSet` is a fold over a set. `SumLemmas` proves what a sum becomes when an
element is added, taken away or changed, from the well-foundedness of the numbers: `SubsetInduction` and
`CountingUp` are stated for a set `D` of the cases that hold, not for a predicate, since the library's
induction theorems take an operator that the provers cannot instantiate.

**Proposals.** The invariant carries heads, rate and reason from step to step while the cache moves: `RateInv`
keeps the set of tasks that the rate came from, and a later share is of a superset. The rest of the
content is in the lemmas on rounding: `CeilIsLeast`, `CeilOfWhole`, `HeadsOfARate`, `TrimmedHeads`.

### Only model-checked

* All liveness (`EveryRequestIsAnswered`, `EveryRowIsPublished`, `DrainedUnlessStopped`,
  `EveryCommitIsAnswered`, `BecomesReady`, `Recovers`, `BootEnds`, `SignalEndsTheProcess`): fairness and
  `ENABLED` are outside the prover.
* The properties of the three *violation* runs, which do not hold.
* That the modules are of the code: the proofs are about the models, whose definitions `PROJECT.json` maps to
  lines.

Every other property of a passing run is the statement of a theorem above.

## 6. Plan

Built, in this order: `RosterDomain`, `LaborRoster` with the two atomic specifications and the
proofs, `OutboxRelay`, `AnalyticsProjector`, `PathCatalogue` and `ShiftPlanning`, `ReplayReader` with
the two caches, `CircuitBreaker`, `PlanProposal`, `ServiceLifecycle`; then `LaborReport` and
`MemoryStore` with the projector's transactions split, `StaffingGap`, `McpAssignment`, `PlanProposal` over
the cache, lookups in the catalogue cache, and the lifecycle of all binaries; then the proofs about
the outbox, the projector, plans, staffing gaps, the catalogue cache, the breaker and proposals, and about
sums, replays, lookups and the lifecycle. No module declares a RECURSIVE operator, and every bound is a
constant with an assumption.

What writing the invariants changed in the models: `SettledCacheIsLatest` got the proviso `Outrun`, since
a reader that is sent back may find the newer message of a path deleted; `CommitReplacesWhatItSaw` is about
the step that commits, not about any step after which a transaction's lines are there; the claim of the
relay is a set of sequences, and the instance of the catalogue run lets retention delete two messages. The
replay of the outbox became a recursive function of the ids, so that it can be proved about where the outbox
is; and `ServiceLifecycle` states the delays of a boot as a function of the attempts.

To prove, should a question call for it: what still holds of the roster beside the MCP server (section 4:
versions, intervals, history, atomic shifts) is only checked, since `McpAssignment` needs an invariant of
its own for handlers that save without a transaction.

To model, if a question calls for it: an end-to-end composition of roster, outbox and projector over one
associate. Its parts meet only through the outbox table and the topic, whose contents the modules
already take in every order the other side can produce.

## 7. Not modelled, and why

* HTTP routing, decoding and error mapping, the parsing of a report's timestamps, the MCP tool that
  forwards to the reports service: stateless translations; the conditions that decide a request are in
  the use case's model.
* CloudEvents encoding: a message is its type, key, id and what a consumer reads of it.
* In-memory repositories: a map under a mutex, for tests and for an MCP server without a database, whose
  state nobody else sees. `MultiPublisher`: wired by no binary that has a pool.
* Telemetry, pools and migrations: observation and set-up; the dials they make are boot stages.
* The observed idle share of a staffing gap: it is shown and decides nothing.
* A live ceiling may drop between its fetch and the commit of a plan, and lines that share a
  capability are each checked against the whole of it: the code promises no more, so nothing is
  stated about it.
