------------------------------ MODULE MCDaemon ------------------------------
(***************************************************************************)
(* Small instances of Daemon.                                              *)
(***************************************************************************)
EXTENDS Daemon

OneClient == {"c1"}
TwoPackages == {"qwen", "llama"}
=============================================================================
