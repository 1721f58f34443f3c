----------------------------- MODULE ReplayReader -----------------------------
(***************************************************************************)
(* The replay consumer both Kafka-fed caches are built on (kafkacatalog    *)
(* and laborperformancecache, the same code twice): a process captures the *)
(* last offset of every partition, reads the topic from its first offset   *)
(* under a consumer group of its own, and is ready once it has passed what *)
(* it captured.  Meanwhile the producer writes, retention deletes, a       *)
(* rebalance sends the reader back to its last asynchronous commit, and    *)
(* the process is restarted.                                               *)
(*                                                                         *)
(* A message of a partition is named by its offset + 1, so a last offset   *)
(* is the length of the log.  The caches add the effect of a message.      *)
(***************************************************************************)
EXTENDS Integers, Sequences

CONSTANTS
    Partitions,   \* partitions of the topic
    MaxLog,       \* bound: messages of a partition
    MaxExpired,   \* bound: messages deleted by retention, per partition
    MaxUpsets     \* bound: failed dials, rebalances and restarts in a behaviour

ASSUME ReaderAssumption ==
    /\ MaxLog \in Nat
    /\ MaxExpired \in Nat
    /\ MaxUpsets \in Nat

VARIABLES
    log,        \* log[t]: every message ever written to partition t
    expired,    \* expired[t]: how many of them are deleted
    phase,      \* "capture", "run" or "stopped"
    captured,   \* partitions whose offsets newTargetOffsets has read
    goal,       \* goal[t]: the last offset it has read
    target,     \* partitions in Consumer.target: not caught up yet
    pos,        \* pos[t]: the message read last
    offset,     \* offset[t]: the group's committed offset
    handled,    \* handled[t]: the messages this process has handled
    ready,      \* Consumer.ready
    upsets      \* failed dials, rebalances and restarts so far

broker == <<log, expired>>
memory == <<captured, goal, target, pos, offset, handled, ready>>
reader == <<log, expired, phase, captured, goal, target, pos, offset, handled, ready, upsets>>

Nothing == [t \in Partitions |-> 0]

\* The topic as it is when the first process boots is one of `topics'.
ReaderInit(topics) ==
    /\ log \in topics
    /\ expired = Nothing
    /\ phase = "capture"
    /\ captured = {}
    /\ goal = Nothing
    /\ target = {}
    /\ pos = Nothing
    /\ offset = Nothing
    /\ handled = [t \in Partitions |-> {}]
    /\ ready = FALSE
    /\ upsets = 0

-----------------------------------------------------------------------------
(* The broker *)

Produce(t, m) ==
    /\ Len(log[t]) < MaxLog
    /\ log' = [log EXCEPT ![t] = Append(@, m)]
    /\ UNCHANGED <<expired, phase, memory, upsets>>

Expire(t) ==
    /\ expired[t] < MaxExpired
    /\ expired[t] < Len(log[t])
    /\ expired' = [expired EXCEPT ![t] = @ + 1]
    /\ UNCHANGED <<log, phase, memory, upsets>>

-----------------------------------------------------------------------------
(* The process *)

\* newTargetOffsets, one partition: an empty one is not waited for.
Capture(t) ==
    /\ phase = "capture"
    /\ t \notin captured
    /\ captured' = captured \cup {t}
    /\ goal' = [goal EXCEPT ![t] = Len(log[t])]
    /\ target' = IF Len(log[t]) > expired[t] THEN target \cup {t} ELSE target
    /\ UNCHANGED <<broker, phase, pos, offset, handled, ready, upsets>>

Upset == upsets < MaxUpsets /\ upsets' = upsets + 1

\* A failed dial: bootretry runs NewConsumer again.
CaptureFails ==
    /\ phase = "capture"
    /\ captured # {}
    /\ Upset
    /\ captured' = {}
    /\ goal' = Nothing
    /\ target' = {}
    /\ UNCHANGED <<broker, phase, pos, offset, handled, ready>>

\* Mutant: readiness is decided by messages only, never at the start.
StartAndWait ==
    /\ phase = "capture"
    /\ captured = Partitions
    /\ phase' = "run"
    /\ UNCHANGED <<broker, memory, upsets>>

\* The end of NewConsumerForTopic and the start of Run: with nothing to catch up to
\* the consumer is ready at once.
Start ==
    /\ phase = "capture"
    /\ captured = Partitions
    /\ phase' = "run"
    /\ ready' = (target = {})
    /\ UNCHANGED <<broker, captured, goal, target, pos, offset, handled, upsets>>

\* ReadMessage: the next message that still exists.
NextOf(t) == (IF pos[t] < expired[t] THEN expired[t] ELSE pos[t]) + 1

\* checkReady's condition on the message just handled.
CaughtUp(t, n) == t \in target /\ n >= goal[t]

AllCaughtUp(stillBehind) == ready \/ stillBehind = {}

\* One round of Run: handle (the caches say what), then checkReady.
Read(t) ==
    /\ phase = "run"
    /\ NextOf(t) <= Len(log[t])
    /\ pos' = [pos EXCEPT ![t] = NextOf(t)]
    /\ handled' = [handled EXCEPT ![t] = @ \cup {NextOf(t)}]
    /\ IF ready THEN UNCHANGED <<target, ready>>
       ELSE /\ target' = IF CaughtUp(t, NextOf(t)) THEN target \ {t} ELSE target
            /\ ready' = AllCaughtUp(target')
    /\ UNCHANGED <<broker, phase, captured, goal, offset, upsets>>

\* The asynchronous commit of replayCommitInterval.
CommitOffset(t) ==
    /\ phase = "run"
    /\ offset[t] # pos[t]
    /\ offset' = [offset EXCEPT ![t] = pos[t]]
    /\ UNCHANGED <<broker, phase, captured, goal, target, pos, handled, ready, upsets>>

\* A rebalance of the process's own group: reading resumes at the committed offset.
Rejoin(t) ==
    /\ phase = "run"
    /\ Upset
    /\ pos' = [pos EXCEPT ![t] = offset[t]]
    /\ UNCHANGED <<broker, phase, captured, goal, target, offset, handled, ready>>

\* A fatal error of the reader ends Run; the caller logs it and serves on.
ReaderFails ==
    /\ phase = "run"
    /\ Upset
    /\ phase' = "stopped"
    /\ UNCHANGED <<broker, memory>>

\* Mutant: every process uses the same group name.
RestartInSharedGroup ==
    /\ Upset
    /\ phase' = "capture"
    /\ captured' = {}
    /\ goal' = Nothing
    /\ target' = {}
    /\ pos' = offset
    /\ handled' = [t \in Partitions |-> {}]
    /\ ready' = FALSE
    /\ UNCHANGED <<broker, offset>>

\* The process is killed, or gives up after WaitReadyTimeout: the next one starts
\* from nothing, under a group nobody has used.
Restart ==
    /\ Upset
    /\ phase' = "capture"
    /\ captured' = {}
    /\ goal' = Nothing
    /\ target' = {}
    /\ pos' = Nothing
    /\ offset' = Nothing
    /\ handled' = [t \in Partitions |-> {}]
    /\ ready' = FALSE
    /\ UNCHANGED broker

-----------------------------------------------------------------------------
(* What both caches promise *)

\* (Ready, "has processed every message that existed in Topic at the moment it
\* started") A ready process has itself handled every message that was there when it
\* captured the offsets and has not been deleted, in every partition, although
\* rebalances move its reader and earlier processes have read the topic before.
ReadyMeansReplayed ==
    ready => \A t \in Partitions : expired[t] + 1 .. goal[t] \subseteq handled[t]

-----------------------------------------------------------------------------
(* The invariant of the reader, on which those of the caches build *)

\* The partitions hold messages.
LogsOf(messages) == log \in [Partitions -> Seq(messages)]

\* Positions are in the log, and what the reader has passed is handled or deleted.
PositionInv(t) ==
    /\ expired[t] \in 0 .. Len(log[t])
    /\ goal[t] \in 0 .. Len(log[t])
    /\ pos[t] \in 0 .. Len(log[t])
    /\ offset[t] \in 0 .. pos[t]
    /\ handled[t] \subseteq 1 .. Len(log[t])
    /\ expired[t] + 1 .. pos[t] \subseteq handled[t]
    /\ upsets = 0 => handled[t] \subseteq 1 .. pos[t]

ReaderInv ==
    /\ expired \in [Partitions -> Nat] /\ goal \in [Partitions -> Nat]
    /\ pos \in [Partitions -> Nat] /\ offset \in [Partitions -> Nat]
    /\ handled \in [Partitions -> SUBSET Nat]
    /\ captured \subseteq Partitions
    /\ upsets \in Nat
    /\ ready \in BOOLEAN
    /\ \A t \in Partitions : PositionInv(t)
    /\ phase # "capture" => captured = Partitions
    /\ ready => target = {} /\ phase # "capture"
    /\ \A t \in captured \ target : expired[t] + 1 .. goal[t] \subseteq handled[t]

=============================================================================
