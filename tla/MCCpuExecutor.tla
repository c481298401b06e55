--------------------------- MODULE MCCpuExecutor ----------------------------
(***************************************************************************)
(* Two workers, three jobs: a runtime job, one that also retains leases,   *)
(* and one without a sink.                                                 *)
(***************************************************************************)
EXTENDS CpuExecutor

CONSTANTS w1, w2, t1, t2, t3

MCWorker == {w1, w2}
MCTicket == {t1, t2, t3}
MCSink == {t1, t2}
MCRetained == {t2}
=============================================================================
