------------------------------- MODULE Queues -------------------------------
(***************************************************************************)
(* Queues of distinct elements, as the scheduler's ready queue and the     *)
(* residency manager's recency order are.                                  *)
(***************************************************************************)
EXTENDS Integers, Sequences, FiniteSets

NoDuplicates(q) == \A i, j \in 1 .. Len(q) : q[i] = q[j] => i = j
Queued(q, x) == \E i \in 1 .. Len(q) : q[i] = x

\* Mutant: swap_remove_back, which fills the gap with the last entry.
Retain_MSwapRemove(q, x) ==
  LET at == {i \in 1 .. Len(q) : q[i] = x}
      pos == CHOOSE i \in at : TRUE
  IN  IF at = {} THEN q
      ELSE [k \in 1 .. (Len(q) - 1) |-> IF k = pos THEN q[Len(q)] ELSE q[k]]

\* VecDeque::retain(|queued| queued != x) on a queue that holds x at most
\* once: the queue closed up over the position of x.
Retain(q, x) ==
  LET at == {i \in 1 .. Len(q) : q[i] = x}
      pos == CHOOSE i \in at : TRUE
  IN  IF at = {} THEN q
      ELSE [k \in 1 .. (Len(q) - 1) |-> IF k < pos THEN q[k] ELSE q[k + 1]]

\* VecDeque::retain(|queued| !S.contains(queued)): the elements that are kept,
\* each at the place it has among them.
Without(q, S) ==
  LET kept == {i \in 1 .. Len(q) : q[i] \notin S}
      place(i) == Cardinality({j \in kept : j <= i})
  IN  [n \in 1 .. Cardinality(kept) |-> q[CHOOSE i \in kept : place(i) = n]]
=============================================================================
