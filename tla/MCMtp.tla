------------------------------- MODULE MCMtp --------------------------------
(***************************************************************************)
(* Small instances of MtpDecode.  The target is a fixed function of        *)
(* everything it can see, chosen so that any wrong or stale token flips    *)
(* its answer in some state; the drafter's guesses are arbitrary.          *)
(***************************************************************************)
EXTENDS MtpDecode, FiniteSetsExt

Bits == {0, 1}
SmallPrompts == {<< 0 >>, << 1 >>, << 0, 1 >>, << 1, 1 >>}

\* A row that was never written reads as garbage.
Bit(x) == IF x = 1 THEN 1 ELSE 0
Weight(s) == SumSet({2 * i * Bit(s[i]) : i \in DOMAIN s})
ParityTarget(recur, visible) ==
  ((Weight(recur) + 2 * Weight(visible) + Len(visible)) \div 2) % 2
=============================================================================
