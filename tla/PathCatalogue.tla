---------------------------- MODULE PathCatalogue ----------------------------
(***************************************************************************)
(* Catalogue.Lookup (internal/domain/pathcatalog) on a sequence of         *)
(* definitions [id, prefix, caps].  A path id and a match                  *)
(* prefix are the sequences of their lower-cased segments between dashes,  *)
(* so that "id equals the prefix or starts with prefix-" is the prefix     *)
(* relation of sequences, and the longer of two matching prefixes is the   *)
(* one with more segments.                                                 *)
(***************************************************************************)
EXTENDS Integers, Sequences

MatchesPrefix(id, prefix) ==
    Len(prefix) <= Len(id) /\ SubSeq(id, 1, Len(prefix)) = prefix

\* The declared definitions that recognize id; an empty prefix never does.
Matching(defs, id) ==
    {i \in 1 .. Len(defs) : defs[i].prefix # << >> /\ MatchesPrefix(id, defs[i].prefix)}

Known(defs, id) == Matching(defs, id) # {}

\* Mutant: the loop's length comparison dropped, so the last declared match wins.
LookupLast(defs, id) ==
    LET M == Matching(defs, id)
    IN  defs[CHOOSE i \in M : \A j \in M : j <= i]

\* The longest prefix wins, the first declared of equally long ones.
Lookup(defs, id) ==
    LET M == Matching(defs, id)
    IN  defs[CHOOSE i \in M : \A j \in M :
                \/ Len(defs[j].prefix) < Len(defs[i].prefix)
                \/ Len(defs[j].prefix) = Len(defs[i].prefix) /\ i <= j]

\* What filecatalog.Load accepts; the boot fails on anything else.
Loads(defs) ==
    /\ defs # << >>
    /\ \A i \in 1 .. Len(defs) :
        defs[i].id # "" /\ defs[i].prefix # << >> /\ defs[i].caps # {}

=============================================================================
