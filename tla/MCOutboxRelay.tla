---------------------------- MODULE MCOutboxRelay ----------------------------
(***************************************************************************)
(* OutboxRelay for TLC.  A source is a pair of a key and a name.           *)
(***************************************************************************)
EXTENDS OutboxRelay

FirstOf(g) == {g[1]}

\* An associate who is never assigned: one row's lock orders all events of the key.
ShiftRows == {<<"a1", "shift">>}

\* The integration rows of one plan: any number per commit, commits that may overlap.
\* Two aggregates under one key are two such transactions of one row each.
PlanCommits == {<<"b1/s1", "plan">>}

=============================================================================
