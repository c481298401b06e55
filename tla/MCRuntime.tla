------------------------------ MODULE MCRuntime -----------------------------
(***************************************************************************)
(* SchedulerRuntime with one lane, which may close.                        *)
(***************************************************************************)
EXTENDS SchedulerRuntime

CONSTANT Cpu

OneLane == << Cpu >>
CpuOnly == {Cpu}
=============================================================================
