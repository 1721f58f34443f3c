---------------------------- MODULE McpAssignment ----------------------------
(***************************************************************************)
(* The roster with the second deployable beside the HTTP service: the MCP  *)
(* server (cmd/mcp), whose assign_labor tool runs the same AssignLabor on  *)
(* the same tables, but is composed without a UnitOfWork and with a        *)
(* LogPublisher.  Its Saves commit one by one, each still guarded by its   *)
(* version, and its event reaches the log of the process, not the outbox.  *)
(***************************************************************************)
EXTENDS LaborRoster

CONSTANT McpHandlers  \* the handlers that are tool calls of the MCP server

\* assign_labor: the tool checks that both ids are there and calls the use case.
assignLabor(p) == \E a \in Associates, path \in Paths : AssignLabor(p, a, path)

\* One Save outside a unit of work: the row is committed as soon as it is written.  Of
\* the two of a re-assignment the first stays when the second does not happen.
SaveAlone(p) ==
    LET a == call[p].who
        t == Head(todo[p])
    IN  /\ pc[p] = "save"
        /\ lock[<<t, a>>] = NoOne
        /\ VersionMatches(p, t)
        /\ shift' = IF t = "shift"
                    THEN [shift EXCEPT ![a] = [agg |-> NewShift(p), version |-> NextVersion(@)]]
                    ELSE shift
        /\ IF t = "la"
           THEN /\ la' = [la EXCEPT ![a] = [active |-> NewActive(p), version |-> NextVersion(@)]]
                /\ hist' = [hist EXCEPT ![a] = NewHist(p)]
           ELSE UNCHANGED <<la, hist>>
        /\ todo' = [todo EXCEPT ![p] = Tail(@)]
        /\ pc' = [pc EXCEPT ![p] = IF Tail(todo[p]) = << >> THEN "publish" ELSE "save"]
        /\ UNCHANGED <<outbox, lastId, lock, now, call, mem, reply, started>>

\* LogPublisher.Publish, and the answer of the tool.
LogEvent(p) ==
    /\ pc[p] = "publish"
    /\ Finish(p, "ok")
    /\ UNCHANGED <<db, lastId, lock, now, started>>

McpWork(p) ==
    \/ assignLabor(p) \/ FindAssignment(p) \/ FindHistory(p) \/ DecideAssign(p)
    \/ SaveAlone(p) \/ Conflict(p) \/ LogEvent(p) \/ Fail(p)

McpNext ==
    \/ Tick
    \/ \E p \in Handlers \ McpHandlers : Arrive(p) \/ Work(p) \/ Fail(p)
    \/ \E p \in McpHandlers : McpWork(p)

McpSpec == Init /\ [][McpNext]_vars

-----------------------------------------------------------------------------
(* Properties *)

\* (ADR 0016, "No code path persists a workforce change without also persisting its
\* events") A change of a shift or of an assignment commits with an outbox row of the
\* associate.  An assignment made through the MCP server does not.
ChangesCarryTheirEvents ==
    [][\A a \in Associates :
        (ShiftObject'[a] # ShiftObject[a] \/ AssignmentObject'[a] # AssignmentObject[a]) =>
            /\ Len(outbox') = Len(outbox) + 1
            /\ outbox'[Len(outbox')].key = a]_vars

=============================================================================
