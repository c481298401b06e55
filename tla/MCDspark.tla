------------------------------ MODULE MCDspark ------------------------------
(***************************************************************************)
(* Small instances of Dspark.  The target's choice depends on every row    *)
(* before it, so that a wrong or missing row shows.                        *)
(***************************************************************************)
EXTENDS Dspark

Vocabulary == {0, 1, 2}
EosIds == {2}
SmallPrompts == {<< 0 >>, << 0, 1 >>, << 1, 1 >>}
FullBlocks == {2}
SmallCaps == {0, 1, 2, 9}

Successor(t) == (t + 1) % 3

Mixed(rows) == (FoldSeq(LAMBDA t, n : 2 * n + t, Len(rows), rows)) % 3
=============================================================================
