----------------------------- MODULE GreedyCall -----------------------------
(***************************************************************************)
(* A call that decodes greedily: its arguments, which run_greedy_mtp and   *)
(* run_greedy_scheduled share.                                             *)
(***************************************************************************)
CONSTANT Token

VARIABLES
  prompt,
  maxNew          \* max_new of the request
=============================================================================
