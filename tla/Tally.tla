------------------------------- MODULE Tally --------------------------------
(***************************************************************************)
(* Sums of sizes.  The size of an entry is the number of its cells, so a   *)
(* sum is the number of cells of all entries: a form that can be reasoned  *)
(* about without induction over the entries.                               *)
(***************************************************************************)
EXTENDS Integers, FiniteSets

Column(b, k) == {k} \X (1 .. b[k])
Columns(b, S) == UNION {Column(b, k) : k \in S}

\* The sum of b[k] over the members k of S.
Tally(b, S) == Cardinality(Columns(b, S))
=============================================================================
