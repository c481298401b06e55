------------------------------ MODULE MCAccel -------------------------------
(***************************************************************************)
(* Two experts that fit into the pool together; actions that refer to one  *)
(* of them, to both, and to one of them twice.                             *)
(***************************************************************************)
EXTENDS Accel

CONSTANTS k1, k2, w1, p1

MCKey == {k1, k2}
MCPool == {p1}
MCPoolOf == [k \in MCKey |-> p1]
MCBudget == [p \in MCPool |-> 2]
MCWaiter == {w1}
MCReferences == {<< k1 >>, << k1, k2 >>, << k2, k2 >>}
=============================================================================
