---------------------------- MODULE MCResidency -----------------------------
(***************************************************************************)
(* Three experts compete for one small pool.                               *)
(***************************************************************************)
EXTENDS ResidencyManager

CONSTANTS k1, k2, k3, w1, w2, p1

MCKey == {k1, k2, k3}
MCPool == {p1}
MCPoolOf == [k \in MCKey |-> p1]
MCBudget == [p \in MCPool |-> 3]
MCWaiter == {w1, w2}
MCSize == {1, 2}
=============================================================================
