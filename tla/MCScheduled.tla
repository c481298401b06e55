---------------------------- MODULE MCScheduled -----------------------------
(***************************************************************************)
(* Small instance of ScheduledQwen.  The model's answer is a fixed         *)
(* function of what each layer has applied, so that a token applied twice, *)
(* or not at all, by any layer changes some answer.                        *)
(***************************************************************************)
EXTENDS ScheduledQwen, FiniteSetsExt

Bits == {0, 1}
SmallCalls ==
  {<< << >>, 1 >>, << << 1 >>, 0 >>, << << 1 >>, 2 >>, << << 0, 1 >>, 1 >>,
   << << 1, 1 >>, 1 >>}

Weight(s) == SumSet({10 * i + 2 * i * s[i] : i \in DOMAIN s})
ParityTarget(a) ==
  ((SumSet({100 * l + Len(a[l]) : l \in DOMAIN a})
    + SumSet({1000 * l + Weight(a[l]) : l \in DOMAIN a}) \div 2)) % 2
=============================================================================
