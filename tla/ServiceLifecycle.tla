--------------------------- MODULE ServiceLifecycle ---------------------------
(***************************************************************************)
(* The life of a process: the four binaries (cmd/workforce, cmd/mcp,       *)
(* cmd/workforce-projector, cmd/workforce-reports) in each configuration   *)
(* they can be started in.  A binary is the sequence of the stages of its  *)
(* run(): boot stages under bootretry and replay gates, serving with a     *)
(* background worker, and the shutdown on a signal.                        *)
(*                                                                         *)
(* A request of the workforce service is a mutation: it takes a            *)
(* connection, commits, with one outbox row where there is an outbox, and  *)
(* answers.  The worker is the outbox relay, whose pass claims the visible *)
(* rows, sends each of them and commits, or the projector's consumer,      *)
(* whose pass is one message; cancelling its context ends the pass.        *)
(***************************************************************************)
EXTENDS Integers, Sequences, FiniteSets

CONSTANTS
    Requests,      \* requests that may come
    Retries,       \* bootretry.Retries: 5
    Delay,         \* bootretry.Delay: 1 second
    ResetPeriod    \* seconds during which a new pod's dials are reset: about 10

ASSUME LifecycleAssumption ==
    /\ Retries \in Nat \ {0}
    /\ Delay \in Nat \ {0}
    /\ ResetPeriod \in Nat

\* bootretry: the wait after the attempts made so far doubles with each of them.
DelayAfter[n \in 0 .. Retries] == IF n = 0 THEN Delay ELSE 2 * DelayAfter[n - 1]

\* (bootretry.Retries, "comfortably past the ~10s first-dial reset") The waits between
\* all attempts, 1 + 2 + 4 + 8 seconds, add up to more than the reset lasts.
ASSUME ResetAssumption == DelayAfter[Retries - 1] - Delay >= ResetPeriod

VARIABLES
    config,     \* the binary and its configuration: [binary, outbox, steps]
    stage,      \* where run() is
    attempts,   \* bootretry: attempts made in this stage
    delay,      \* bootretry: the next wait
    waited,     \* bootretry: seconds waited in this stage
    replayed,   \* the caches that are ready
    running,    \* the Run goroutines of the caches that still read
    ready,      \* what /readyz says
    listening,  \* the listener accepts connections
    deadline,   \* shutdownCtx has expired
    req,        \* req[r]: "none", "begun", "open", "committed", "answered", "failed"
    early,      \* requests answered before the signal
    worker,     \* the relay or the consumer: "off", "idle", "pass" or "stopped"
    cancelled,  \* its context is cancelled
    batch,      \* the rows of the relay's pass
    sent,       \* those of them it has sent
    delivered,  \* the rows that Kafka has
    published   \* the rows marked published

boot == <<attempts, delay, waited, replayed>>
pass == <<batch, sent, delivered, published>>
lifecycleVars ==
    <<config, stage, attempts, delay, waited, replayed, running, ready, listening, deadline,
      req, early, worker, cancelled, batch, sent, delivered, published>>

Caches == {"catalogue", "rate"}

-----------------------------------------------------------------------------
(* The binaries: what run() goes through, in order *)

\* wireCatalogue, openPostgresPool, newMeasuredRateClients; then serveWorkforce.
Workforce(source, rates, publisher) ==
    [binary |-> "workforce",
     outbox |-> publisher = "kafka",
     steps |-> (IF source = "kafka" THEN <<"dialCatalogue", "replayCatalogue">> ELSE <<"loadFile">>)
               \o <<"migrate", "openPool">>
               \o (IF rates = "kafka-cache" THEN <<"dialRate", "replayRate">> ELSE << >>)
               \o <<"serve", "notReady", "stopCatalogue", "stopRate", "shutdown", "stopRelay",
                    "awaitRelay", "close", "exited">>]

\* newRepos: without DATABASE_URL there is nothing to dial.
Mcp(database) ==
    [binary |-> "mcp", outbox |-> FALSE,
     steps |-> (IF database THEN <<"migrate", "openPool">> ELSE << >>)
               \o <<"serve", "signalled", "shutdown", "close", "exited">>]

Projector ==
    [binary |-> "projector", outbox |-> FALSE,
     steps |-> <<"migrate", "openPool", "serve", "signalled", "consumerCancelled", "shutdown",
                 "close", "exited">>]

\* The reader's pool is opened, nothing is migrated.
Reports ==
    [binary |-> "reports", outbox |-> FALSE,
     steps |-> <<"openPool", "serve", "signalled", "shutdown", "close", "exited">>]

Configurations ==
    {Workforce(s, r, p) : s \in {"file", "kafka"}, r \in {"kafka-cache", "other"}, p \in {"kafka", "log"}}
        \cup {Mcp(d) : d \in BOOLEAN} \cup {Projector, Reports}

Steps == {config.steps[i] : i \in 1 .. Len(config.steps)}
PlaceOf(s) == CHOOSE i \in 1 .. Len(config.steps) : config.steps[i] = s
After(s) == config.steps[PlaceOf(s) + 1]

Retried == {"dialCatalogue", "migrate", "openPool", "dialRate"}
Replaying == {"replayCatalogue", "replayRate"}
CacheOf(s) == IF s \in {"dialCatalogue", "replayCatalogue", "stopCatalogue"} THEN "catalogue"
              ELSE "rate"

HasWorker == config.outbox \/ config.binary = "projector"

\* Entering "serve" starts the listener and the worker, if there is one.
Enter(s) ==
    /\ stage' = s
    /\ listening' = (s = "serve")
    /\ worker' = IF s = "serve" /\ HasWorker THEN "idle" ELSE worker

LifecycleInit ==
    /\ config \in Configurations
    /\ stage = Head(config.steps)
    /\ attempts = 0 /\ delay = Delay /\ waited = 0
    /\ replayed = {}
    /\ running = {}
    /\ ready = TRUE
    /\ listening = (stage = "serve")
    /\ deadline = FALSE
    /\ req = [r \in Requests |-> "none"]
    /\ early = {}
    /\ worker = "off"
    /\ cancelled = FALSE
    /\ batch = {} /\ sent = {} /\ delivered = {} /\ published = {}

-----------------------------------------------------------------------------
(* Boot *)

\* RetryWithDelay: op succeeds; a consumer that was dialled starts its Run.
BootStep ==
    /\ stage \in Retried
    /\ Enter(After(stage))
    /\ attempts' = 0 /\ delay' = Delay /\ waited' = 0
    /\ running' = IF stage \in {"dialCatalogue", "dialRate"}
                  THEN running \cup {CacheOf(stage)} ELSE running
    /\ UNCHANGED <<config, replayed, ready, deadline, req, early, cancelled, pass>>

\* Mutant: the wait between two attempts does not grow.
BootWaitConstant ==
    /\ stage \in Retried
    /\ attempts + 1 < Retries
    /\ attempts' = attempts + 1
    /\ waited' = waited + delay
    /\ UNCHANGED <<config, stage, delay, replayed, running, ready, listening, deadline, req,
                   early, worker, cancelled, pass>>

\* RetryWithDelay: op fails, another attempt follows after the delay.
BootWait ==
    /\ stage \in Retried
    /\ attempts + 1 < Retries
    /\ attempts' = attempts + 1
    /\ waited' = waited + delay
    /\ delay' = 2 * delay
    /\ UNCHANGED <<config, stage, replayed, running, ready, listening, deadline, req, early,
                   worker, cancelled, pass>>

\* run returns an error before it serves.
Refuse ==
    /\ stage' = "refused"
    /\ running' = {}
    /\ UNCHANGED <<config, boot, ready, listening, deadline, req, early, worker, cancelled, pass>>

\* RetryWithDelay: the last attempt fails.
BootGivesUp == stage \in Retried /\ attempts + 1 = Retries /\ Refuse

\* filecatalog.Load reads and accepts the file, or the process does not start.
LoadFile ==
    /\ stage = "loadFile"
    /\ \/ /\ Enter(After(stage))
          /\ UNCHANGED <<config, boot, running, ready, deadline, req, early, cancelled, pass>>
       \/ Refuse

\* Run reads the last message of the replay: markReady.
ReplayEnds(c) ==
    /\ c \in running \ replayed
    /\ replayed' = replayed \cup {c}
    /\ UNCHANGED <<config, stage, attempts, delay, waited, running, ready, listening, deadline,
                   req, early, worker, cancelled, pass>>

\* WaitReady returns.
Gate ==
    /\ stage \in Replaying
    /\ CacheOf(stage) \in replayed
    /\ Enter(After(stage))
    /\ UNCHANGED <<config, boot, running, ready, deadline, req, early, cancelled, pass>>

\* Mutant: the wait has no timeout.
GateNeverTimesOut == FALSE /\ Refuse

\* WaitReadyTimeout.
GateTimesOut == stage \in Replaying /\ CacheOf(stage) \notin replayed /\ Refuse

\* A Run goroutine ends with an error, which is only logged.
ReaderFails(c) ==
    /\ c \in running
    /\ running' = running \ {c}
    /\ UNCHANGED <<config, stage, boot, ready, listening, deadline, req, early, worker,
                   cancelled, pass>>

-----------------------------------------------------------------------------
(* Requests; those of the projector's admin server touch nothing *)

Alive == stage \notin {"exited", "refused"}

Becomes(r, s) == req' = [req EXCEPT ![r] = s]
RequestFrame == UNCHANGED <<config, stage, boot, running, ready, listening, deadline, worker,
                            cancelled, pass>>

Accept(r) ==
    /\ req[r] = "none"
    /\ listening
    /\ config.binary # "projector"
    /\ Becomes(r, "begun")
    /\ RequestFrame
    /\ UNCHANGED early

\* A connection, or a transaction on one: a closed pool gives none.
BeginTx(r) ==
    /\ req[r] = "begun"
    /\ Alive
    /\ Becomes(r, IF stage = "close" THEN "failed" ELSE "open")
    /\ RequestFrame
    /\ UNCHANGED early

CommitTx(r) ==
    /\ req[r] = "open"
    /\ Alive
    /\ Becomes(r, "committed")
    /\ RequestFrame
    /\ UNCHANGED early

\* A rejected or failed request rolls its transaction back.
RollBack(r) ==
    /\ req[r] = "open"
    /\ Alive
    /\ Becomes(r, "failed")
    /\ RequestFrame
    /\ UNCHANGED early

AnswerRequest(r) ==
    /\ req[r] = "committed"
    /\ Alive
    /\ Becomes(r, "answered")
    /\ early' = IF stage = "serve" THEN early \cup {r} ELSE early
    /\ RequestFrame

RequestsInFlight == {r \in Requests : req[r] \in {"begun", "open", "committed"}}
Rows == IF config.outbox THEN {r \in Requests : req[r] \in {"committed", "answered"}} ELSE {}

-----------------------------------------------------------------------------
(* The worker *)

WorkerFrame == UNCHANGED <<config, stage, boot, running, ready, listening, deadline, req, early,
                           cancelled>>
Working == worker = "pass" /\ ~cancelled /\ Alive

\* A pass of the relay begins.
Claim ==
    /\ worker = "idle"
    /\ ~cancelled
    /\ Alive
    /\ Rows \ published # {}
    /\ worker' = "pass"
    /\ batch' = Rows \ published
    /\ sent' = {}
    /\ UNCHANGED <<delivered, published>>
    /\ WorkerFrame

\* The projector's consumer has fetched a message.
Fetch ==
    /\ config.binary = "projector"
    /\ worker = "idle"
    /\ ~cancelled
    /\ Alive
    /\ worker' = "pass"
    /\ UNCHANGED pass
    /\ WorkerFrame

Send ==
    /\ Working
    /\ \E id \in batch \ sent : sent' = sent \cup {id} /\ delivered' = delivered \cup {id}
    /\ UNCHANGED <<worker, batch, published>>
    /\ WorkerFrame

CommitPass ==
    /\ Working
    /\ sent = batch
    /\ worker' = "idle"
    /\ published' = published \cup batch
    /\ batch' = {} /\ sent' = {}
    /\ UNCHANGED delivered
    /\ WorkerFrame

\* A failed statement, a failed send, or the cancelled context: the pass is rolled back.
AbortPass ==
    /\ worker = "pass"
    /\ Alive
    /\ worker' = "idle"
    /\ batch' = {} /\ sent' = {}
    /\ UNCHANGED <<delivered, published>>
    /\ WorkerFrame

\* The consumer's Run ends with an error, which is only logged: /healthz stays well.
ConsumerFails ==
    /\ config.binary = "projector"
    /\ worker = "pass"
    /\ Alive
    /\ worker' = "stopped"
    /\ UNCHANGED pass
    /\ WorkerFrame

\* Run returns; the relay's closes relayDone.
WorkerStops ==
    /\ worker = "idle"
    /\ cancelled
    /\ Alive
    /\ worker' = "stopped"
    /\ UNCHANGED pass
    /\ WorkerFrame

-----------------------------------------------------------------------------
(* Shutdown *)

\* SIGTERM: in the workforce service readiness.SetNotReady comes first.
Signal ==
    /\ stage = "serve"
    /\ stage' = After("serve")
    /\ ready' = (config.binary # "workforce")
    /\ UNCHANGED <<config, boot, running, listening, deadline, req, early, worker, cancelled, pass>>

\* cancelCatalogueConsumer and Close, then cancelRateConsumer and Close.
StopReader ==
    /\ stage \in {"notReady", "stopCatalogue"}
    /\ stage' = After(stage)
    /\ running' = running \ {CacheOf(stage')}
    /\ UNCHANGED <<config, boot, ready, listening, deadline, req, early, worker, cancelled, pass>>

\* The projector's cancelConsumer.
CancelConsumer ==
    /\ stage = "signalled"
    /\ config.binary = "projector"
    /\ stage' = "consumerCancelled"
    /\ cancelled' = TRUE
    /\ UNCHANGED <<config, boot, running, ready, listening, deadline, req, early, worker, pass>>

\* server.Shutdown closes the listener ...
CloseListener ==
    /\ stage \in {"stopRate", "signalled", "consumerCancelled"}
    /\ After(stage) = "shutdown"
    /\ stage' = "shutdown"
    /\ listening' = FALSE
    /\ UNCHANGED <<config, boot, running, ready, deadline, req, early, worker, cancelled, pass>>

\* shutdownCtx expires, at any time after.
Expire ==
    /\ stage \in {"shutdown", "stopRelay", "awaitRelay", "close"}
    /\ ~deadline
    /\ deadline' = TRUE
    /\ UNCHANGED <<config, stage, boot, running, ready, listening, req, early, worker, cancelled, pass>>

Leave(s) ==
    /\ stage = s
    /\ stage' = After(s)
    /\ UNCHANGED <<config, boot, running, ready, listening, deadline, req, early, worker, pass>>

\* Mutant: the requests in flight are not waited for.
NotDrained == Leave("shutdown") /\ UNCHANGED cancelled

\* ... and waits for the requests in flight, or the deadline.
Drain == (RequestsInFlight = {} \/ deadline) /\ Leave("shutdown") /\ UNCHANGED cancelled

\* Mutant: the relay's context is not cancelled.
StopRelayUncancelled == Leave("stopRelay") /\ UNCHANGED cancelled

StopRelay == Leave("stopRelay") /\ cancelled' = TRUE

\* relayDone is closed from the start where there is no relay.
AwaitRelay ==
    /\ worker \in {"off", "stopped"} \/ deadline
    /\ Leave("awaitRelay")
    /\ UNCHANGED cancelled

\* The deferred pool.Close waits for the connections that are out; then run returns.
Exit ==
    /\ "openPool" \in Steps => worker # "pass" /\ \A r \in Requests : req[r] # "open"
    /\ Leave("close")
    /\ UNCHANGED cancelled

\* ListenAndServe fails: run returns at once, through its deferred calls ...
ListenerFails ==
    /\ stage = "serve" /\ listening
    /\ config.binary \in {"workforce", "mcp"}
    /\ stage' = "close"
    /\ listening' = FALSE
    /\ running' = {}
    /\ cancelled' = TRUE
    /\ UNCHANGED <<config, boot, ready, deadline, req, early, worker, pass>>

\* ... but the projector and the reports service only log it, and wait for a signal.
ListenerFailsUnnoticed ==
    /\ stage = "serve" /\ listening
    /\ config.binary \in {"projector", "reports"}
    /\ listening' = FALSE
    /\ UNCHANGED <<config, stage, boot, running, ready, deadline, req, early, worker, cancelled, pass>>

-----------------------------------------------------------------------------
Boot == BootStep \/ BootWait \/ BootGivesUp \/ LoadFile
Wait == Gate \/ GateTimesOut
Advance ==
    StopReader \/ CancelConsumer \/ CloseListener \/ Drain \/ StopRelay \/ AwaitRelay \/ Exit
Work == Claim \/ Fetch \/ Send \/ CommitPass \/ AbortPass \/ ConsumerFails \/ WorkerStops
Serve(r) == BeginTx(r) \/ CommitTx(r) \/ RollBack(r) \/ AnswerRequest(r)

LifecycleNext ==
    \/ Boot \/ Wait \/ Advance
    \/ Signal \/ Expire \/ ListenerFails \/ ListenerFailsUnnoticed
    \/ \E c \in Caches : ReplayEnds(c) \/ ReaderFails(c)
    \/ \E r \in Requests : Accept(r) \/ Serve(r)
    \/ Work

LifecycleSpec == LifecycleInit /\ [][LifecycleNext]_lifecycleVars

\* run() goes on, the timers of bootretry, of WaitReady and of shutdownCtx fire, and
\* neither a statement nor a send takes for ever: both have timeouts.
FairLifecycleSpec ==
    /\ LifecycleSpec
    /\ WF_lifecycleVars(Boot) /\ WF_lifecycleVars(Wait)
    /\ WF_lifecycleVars(Advance) /\ WF_lifecycleVars(Expire)
    /\ \A r \in Requests : WF_lifecycleVars(Serve(r))
    /\ WF_lifecycleVars(AbortPass \/ CommitPass \/ WorkerStops)

-----------------------------------------------------------------------------
(* Properties *)

\* (bootretry, "comfortably past the ~10s first-dial reset") A pod refuses to boot for a
\* failing dial only after it has retried for longer than the reset lasts.
SurvivesTheReset == (stage = "refused" /\ attempts > 0) => waited >= ResetPeriod

\* (bootretry, "a genuinely unreachable dependency still fails the pod rather than
\* hanging it"; WaitReadyTimeout) Every binary, in every configuration, comes to serve
\* or exits: no dial and no replay keeps it booting for ever.
BootEnds == <>(stage \in {"serve", "refused"})

\* (serveWorkforce) In a shutdown the relay outlives the requests, up to the deadline:
\* none of them is in flight once stopRelay is called, or the process has ended.
RelayOutlivesRequests ==
    (~ready /\ (cancelled \/ stage = "exited")) => deadline \/ RequestsInFlight = {}

\* (serveWorkforce, serveMCP, "under the ADR-0022 graceful shutdown sequence") A signal
\* ends the process, whatever its requests, its relay or its consumer are doing.
SignalEndsTheProcess == stage \in {"notReady", "signalled"} ~> stage = "exited"

\* (serveWorkforce, "so an event committed by a request that completed just before
\* shutdown is not stranded until the next pod boots") A process that was shut down
\* within its deadline leaves no event of a request answered before the signal
\* undelivered.  This does not hold: stopRelay cancels the pass in flight.
NothingStranded ==
    (config.outbox /\ stage = "exited" /\ ~ready /\ ~deadline) => early \subseteq delivered

-----------------------------------------------------------------------------
(* The inductive invariants of its proofs *)

\* bootretry has waited for the delays so far, and gives up after the last attempt only.
BootInv ==
    /\ attempts \in 0 .. Retries - 1
    /\ delay \in Nat
    /\ delay = DelayAfter[attempts]
    /\ waited = delay - Delay
    /\ stage \notin Retried \cup {"refused"} => attempts = 0
    /\ stage = "refused" => attempts \in {0, Retries - 1}

\* Only the workforce service withdraws its readiness; from then on it goes through the
\* stages of its shutdown, closes its listener before it waits for the requests in
\* flight, and cancels the relay afterwards.
ShutdownInv ==
    /\ config \in Configurations
    /\ req \in [Requests -> {"none", "begun", "open", "committed", "answered", "failed"}]
    /\ ~ready => /\ config.binary = "workforce"
                 /\ stage \in {"notReady", "stopCatalogue", "stopRate", "shutdown", "stopRelay",
                               "awaitRelay", "close", "exited"}
                 /\ listening => stage \in {"notReady", "stopCatalogue", "stopRate"}
                 /\ stage \in {"stopRelay", "awaitRelay", "close", "exited"}
                       => deadline \/ RequestsInFlight = {}
    /\ config.binary = "workforce" /\ cancelled => stage \in {"awaitRelay", "close", "exited"}

=============================================================================
