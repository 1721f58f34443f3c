---------------------------- MODULE PlanProposal ----------------------------
(***************************************************************************)
(* ProposePathPlan (internal/application/usecases) over the clients it is  *)
(* composed with: heads for a charge, at the caller's rate or at the       *)
(* measured one, trimmed by the observed idle share.                       *)
(*                                                                         *)
(* With LABOR_PERFORMANCE_MODE=kafka-cache both numbers come from the      *)
(* cache of PerformanceCache, in two calls between which it moves on, and  *)
(* requests are served once it has replayed.  The http client answers a    *)
(* mean or nothing, the permissive one nothing, and neither offers a       *)
(* share; the MCP server has no client at all and only logs the event.     *)
(* Rates and shares are fractions [n, d], the threshold is in percent.     *)
(***************************************************************************)
EXTENDS PerformanceCache

CONSTANTS
    Requests,      \* the requests considered: [charge, rate, type], the units of work, the
                   \* planned rate (<= 0: not supplied) and the path's task type ("": none)
    Measured,      \* mean seconds labor-performance may answer over HTTP
    Threshold,     \* IDLE_SHARE_TRIM_THRESHOLD
    MaxRequests,   \* bound: proposals asked for
    Unavailable    \* ErrIdleShareUnavailable

ASSUME ProposalAssumption ==
    /\ \A q \in Requests : q.charge \in Int /\ q.rate \in Int
    /\ Measured \subseteq Nat \ {0}
    /\ Threshold \in Int
    /\ MaxRequests \in Nat
    /\ Unavailable \notin [n : Int, d : Int]

VARIABLES
    mode,      \* how the process is composed
    pc,        \* the next step of the handler
    req,       \* the request: [charge, rate, type]
    rate,      \* resolvedRate
    source,    \* rateSource
    untrimmed, \* the heads before the trim
    heads,     \* the heads proposed
    share,     \* the share of the trimReason, Unavailable when there is none
    outbox,    \* committed ShiftPlanProposed events: [heads, rate]
    reply,     \* "none", "ok", "rejected" or "failed"
    asked      \* requests so far

answer == <<rate, source, untrimmed, heads, share>>
handler == <<mode, pc, req, rate, source, untrimmed, heads, share, outbox, reply, asked>>
vars == <<log, expired, phase, captured, goal, target, pos, offset, handled, ready, upsets,
          totals, idle, seen, mode, pc, req, rate, source, untrimmed, heads, share, outbox,
          reply, asked>>

Caller(r) == [n |-> r, d |-> 1]

Init ==
    /\ CacheInit
    /\ mode \in {"kafka-cache", "http", "permissive", "mcp"}
    /\ pc = "idle"
    /\ req = [charge |-> 0, rate |-> 0, type |-> ""]
    /\ rate = Caller(0) /\ source = "caller"
    /\ untrimmed = 0 /\ heads = 0 /\ share = Unavailable
    /\ outbox = << >>
    /\ reply = "none"
    /\ asked = 0

\* math.Ceil(n / d) for d > 0.
Ceil(n, d) == -((-n) \div d)

\* A mean over a number of tasks that is no power of two may not be a float64.
Exact(r) == r.n % r.d = 0 \/ \E k \in 0 .. r.d : r.d = 2^k

\* Mutant: integer division.
ProposedHeadsRoundedDown(charge, r) == {IF r.n <= 0 THEN 0 ELSE (charge * r.d) \div r.n}

\* The heads that charge / r, rounded up, may give: where the quotient is a whole number
\* and the rate was rounded, its floating-point value may be a little above it.
ProposedHeads(charge, r) ==
    IF r.n <= 0 THEN {0}
    ELSE {Ceil(charge * r.d, r.n)} \cup
            (IF charge * r.d % r.n = 0 /\ ~ Exact(r) THEN {Ceil(charge * r.d, r.n) + 1} ELSE {})

\* Threshold <= 0 is the default of 30 percent.
TrimThreshold == IF Threshold <= 0 THEN 30 ELSE Threshold

Exceeds(s) == 100 * s.n > TrimThreshold * s.d

\* float64(heads) * (1 - share), rounded up: where the product is a whole number its
\* floating-point value may be a little above it.
RoundedUp(h, s) ==
    {Ceil(h * (s.d - s.n), s.d)} \cup
        (IF h * (s.d - s.n) % s.d = 0 THEN {Ceil(h * (s.d - s.n), s.d) + 1} ELSE {})

\* Mutant: no floor at one head.
TrimmedToNothing(h, s) == RoundedUp(h, s)

\* The heads a trim by share s may leave.
Trimmed(h, s) == {IF t < 1 THEN 1 ELSE IF t >= h THEN h ELSE t : t \in RoundedUp(h, s)}

-----------------------------------------------------------------------------
(* A request *)

\* The server listens once the cache, where there is one, is ready.
Serving == mode = "kafka-cache" => ready

Ask(q) ==
    /\ pc = "idle"
    /\ asked < MaxRequests
    /\ Serving
    /\ asked' = asked + 1
    /\ req' = q
    /\ rate' = Caller(q.rate) /\ source' = "caller"
    /\ untrimmed' = 0 /\ heads' = 0 /\ share' = Unavailable
    /\ UNCHANGED <<reader, cache, mode, outbox>>

\* POST /paths/{pathId}/plan/propose: any charge, also a negative one.
Propose(q) ==
    /\ mode # "mcp"
    /\ Ask(q)
    /\ pc' = "rate" /\ reply' = "none"

\* The MCP tool propose_path_heads wants a charge and a rate.
proposePathHeads(q) ==
    /\ mode = "mcp"
    /\ Ask(q)
    /\ IF q.charge < 0 \/ q.rate <= 0 THEN pc' = "idle" /\ reply' = "rejected"
       ELSE pc' = "rate" /\ reply' = "none"

\* The means the client may answer, none when it has no rate.
MeanSeconds(k) ==
    CASE mode = "kafka-cache" -> IF RateAvailable(k) THEN {MeanActualSeconds(k)} ELSE {}
      [] mode = "http" -> IF k \in TaskTypes THEN {Caller(s) : s \in Measured} ELSE {}
      [] OTHER -> {}

Resolved(r, from) ==
    /\ pc = "rate"
    /\ rate' = r
    /\ source' = from
    /\ untrimmed' \in ProposedHeads(req.charge, r)
    /\ heads' = untrimmed'
    /\ pc' = "trim"
    /\ UNCHANGED <<reader, cache, mode, req, share, outbox, reply, asked>>

\* The measured rate replaces a missing one.
UseMeasured ==
    /\ rate.n <= 0
    /\ \E r \in MeanSeconds(req.type) : Resolved(r, "measured")

\* The caller's rate, also when it is missing and the client has none; a call over HTTP
\* may always fail.
UseCaller ==
    /\ rate.n > 0 \/ mode = "http" \/ MeanSeconds(req.type) = {}
    /\ Resolved(rate, "caller")

\* There are heads to trim, and the client has a share that exceeds the threshold.
TooIdle ==
    /\ heads > 0
    /\ mode = "kafka-cache"
    /\ ShareAvailable(req.type)
    /\ Exceeds(IdleSharePct(req.type))

\* applyIdleShareTrim: nothing to trim, no share, or one within the threshold.
KeepHeads ==
    /\ pc = "trim"
    /\ ~ TooIdle
    /\ pc' = "publish"
    /\ UNCHANGED <<reader, cache, mode, req, answer, outbox, reply, asked>>

\* applyIdleShareTrim: the trim; one that leaves all heads gives no reason.
TrimHeads ==
    /\ pc = "trim"
    /\ TooIdle
    /\ LET s == IdleSharePct(req.type)
       IN  /\ heads' \in Trimmed(heads, s)
           /\ share' = IF heads' < heads THEN s ELSE Unavailable
    /\ pc' = "publish"
    /\ UNCHANGED <<reader, cache, mode, req, rate, source, untrimmed, outbox, reply, asked>>

\* The event commits on its own, and the answer to COMMIT may be lost; the MCP server
\* logs it.
Publish ==
    /\ pc = "publish"
    /\ IF mode = "mcp" THEN reply' = "ok" /\ UNCHANGED outbox
       ELSE /\ outbox' = Append(outbox, [heads |-> heads, rate |-> rate])
            /\ reply' \in {"ok", "failed"}
    /\ pc' = "idle"
    /\ UNCHANGED <<reader, cache, mode, req, answer, asked>>

Abandon ==
    /\ pc' = "idle"
    /\ reply' = IF pc = "idle" THEN reply ELSE "failed"
    /\ UNCHANGED <<mode, req, answer, outbox, asked>>

\* The clock or the database fails: no event, an error.
Fail == pc # "idle" /\ Abandon /\ UNCHANGED <<reader, cache>>

-----------------------------------------------------------------------------
Next ==
    \/ \E q \in Requests : Propose(q) \/ proposePathHeads(q)
    \/ UseMeasured \/ UseCaller \/ KeepHeads \/ TrimHeads \/ Publish \/ Fail
    \/ mode = "kafka-cache" /\ CacheNext /\ UNCHANGED handler
    \/ mode = "kafka-cache" /\ NewProcess /\ Abandon

Spec == Init /\ [][Next]_vars

-----------------------------------------------------------------------------
(* Properties *)

Answered == pc = "idle" /\ reply = "ok"

\* (ProposedHeads, "heads needed to cover a path's charge at the given planned rate,
\* rounded up") Without a trim, the heads of an answer cover the charge at the rate the
\* answer names, and one head fewer would not, or just would where the rate itself was
\* rounded; without a rate there are none.
HeadsCoverTheCharge ==
    (Answered /\ share = Unavailable) =>
        IF rate.n <= 0 THEN heads = 0
        ELSE /\ heads * rate.n >= req.charge * rate.d
             /\ \/ (heads - 1) * rate.n < req.charge * rate.d
                \/ (heads - 1) * rate.n = req.charge * rate.d /\ ~ Exact(rate)

\* (applyIdleShareTrim, "floored at 1 head minimum so a trim never proposes zero heads
\* for real work") Whatever the cache learns meanwhile and however the product is
\* rounded, a trim leaves at least one head, at least the share of the heads that is
\* not idle, and fewer than there were; it is given a reason exactly when it happened.
TrimIsBounded ==
    Answered =>
        /\ share = Unavailable <=> heads = untrimmed
        /\ share # Unavailable =>
            /\ 1 <= heads /\ heads < untrimmed
            /\ heads * share.d >= untrimmed * (share.d - share.n)
            /\ Exceeds(share)

\* The tasks a ready process must have counted: those it found at its start.
Found(k) ==
    {m \in UNION {{log[t][n] : n \in expired[t] + 1 .. goal[t]} : t \in Partitions} :
        m.kind = "task" /\ m.type = k}

MeanOf(r, S) == S # {} /\ r.n * Cardinality(S) = r.d * ActualSeconds(S)

ShareOf(s, S) ==
    Observed(S) # {} /\ s.n * (IdleSeconds(S) + ActualSeconds(S)) = s.d * IdleSeconds(S)

\* (MeanActualSeconds, IdleSharePct: "not observed must never be coerced into zero
\* idle") What a proposal from the cache rests on are recorded tasks, each counted
\* once: its rate is the mean of some of them, among these all that the process found
\* when it started, and its share is that of these and perhaps more, one of them with
\* an observed gap.  No redelivery and no restart between the two calls shows.
ProposalsRestOnTasks ==
    (pc = "publish" /\ mode = "kafka-cache") =>
        \E S \in SUBSET Tasks(req.type) : \E T \in SUBSET S :
            /\ Found(req.type) \subseteq T
            /\ source = "measured" => MeanOf(rate, T)
            /\ share # Unavailable => ShareOf(share, S)

-----------------------------------------------------------------------------
(* The inductive invariant of ReplayedCachesProofs *)

Fraction == [n : Int, d : Nat \ {0}]

HandlerTypes ==
    /\ pc \in {"idle", "rate", "trim", "publish"}
    /\ req.charge \in Int
    /\ rate \in Fraction
    /\ untrimmed \in Int

\* From "trim" on, and in an answer, the heads before the trim are those of the rate.
HeadsInv ==
    pc \in {"trim", "publish"} \/ Answered => untrimmed \in ProposedHeads(req.charge, rate)

\* Until the trim there is no reason for one; after it there is one exactly for a trim.
TrimInv ==
    /\ pc = "rate" => share = Unavailable
    /\ pc = "trim" => share = Unavailable /\ heads = untrimmed
    /\ pc = "publish" \/ Answered =>
        \/ share = Unavailable /\ heads = untrimmed
        \/ /\ share \in Fraction /\ Exceeds(share)
           /\ heads \in Trimmed(untrimmed, share)
           /\ 0 < untrimmed /\ heads < untrimmed

\* A request is only under way while the cache is ready: with the process it is gone.
ServedInv == mode = "kafka-cache" /\ pc # "idle" => ready

\* What the rate rests on when the share is asked for.
RateInv ==
    (pc = "trim" /\ mode = "kafka-cache") =>
        \E T \in SUBSET Tasks(req.type) :
            Found(req.type) \subseteq T /\ (source = "measured" => MeanOf(rate, T))

IInv ==
    /\ TasksInv
    /\ HandlerTypes
    /\ HeadsInv
    /\ TrimInv
    /\ ServedInv
    /\ RateInv
    /\ ProposalsRestOnTasks

=============================================================================
