------------------------------- MODULE MCChat -------------------------------
(***************************************************************************)
(* Small instances of ChatWorker.  A protocol prompt may be the very       *)
(* prompt of the conversation, so that the two share cache entries, or one *)
(* of its own.                                                             *)
(***************************************************************************)
EXTENDS ChatWorker

OneUser == {"u"}
System == << "s" >>
FirstText(u) == << u >>
LaterText(u) == << "n", u >>

Shared == << "s", "u" >>
Own == << "a" >>
Long == [i \in 1 .. ContextLimit |-> "a"]
AllPrompts == {Shared, Own, Long}
OneWord == {"w"}
Vocabulary == {"s", "u", "n", "a", "w", ImEnd, Eos}
Peers == {<< "s" >>}

SnapshotBytes == [n \in 0 .. ContextLimit |-> 2 + n]
=============================================================================
