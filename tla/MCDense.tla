------------------------------- MODULE MCDense ------------------------------
(***************************************************************************)
(* Small instances of DenseEngine: prompts that extend one another and one *)
(* that shares no prefix with them, and budgets for none, one or two of    *)
(* them.                                                                   *)
(***************************************************************************)
EXTENDS DenseEngine

Words == {"a", "b", "c", "d", "x", "w"}
OneWord == {"w"}
SmallPrompts == {<< "a", "b" >>, << "a", "b", "c", "d" >>, << "x", "b" >>}
Budgets == {0, 3, 7}
EntryBytes(key) == 1 + Len(key)
=============================================================================
