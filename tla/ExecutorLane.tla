---------------------------- MODULE ExecutorLane ----------------------------
(***************************************************************************)
(* What the runtime relies on from an executor lane (the BoundedExecutor   *)
(* contract of logan-core/src/sched/runtime.rs): a bounded queue that      *)
(* takes each ticket once, removes a ticket on request only while it is    *)
(* queued, and reports a ticket it has started at most once.               *)
(***************************************************************************)
EXTENDS Integers, Sequences, Queues

CONSTANTS Ticket, Capacity

VARIABLES
  queue,     \* accepted tickets that no worker has claimed
  started,   \* claimed tickets whose completion has not been sent
  sent,      \* tickets whose completion was sent to the scheduler
  dropped    \* tickets cancelled while queued, and completions given up
             \* because the scheduler is gone

vars == << queue, started, sent, dropped >>

Fresh(t) == ~ Queued(queue, t) /\ t \notin started \cup sent \cup dropped

Init == queue = << >> /\ started = {} /\ sent = {} /\ dropped = {}

Accept(t) ==
  /\ Fresh(t)
  /\ Len(queue) < Capacity
  /\ queue' = Append(queue, t)
  /\ UNCHANGED << started, sent, dropped >>

Revoke(t) ==
  /\ Queued(queue, t)
  /\ queue' = Retain(queue, t)
  /\ dropped' = dropped \cup {t}
  /\ UNCHANGED << started, sent >>

Start ==
  /\ queue # << >>
  /\ queue' = Tail(queue)
  /\ started' = started \cup {Head(queue)}
  /\ UNCHANGED << sent, dropped >>

Send(t) ==
  /\ t \in started
  /\ started' = started \ {t}
  /\ \/ sent' = sent \cup {t} /\ UNCHANGED dropped
     \/ dropped' = dropped \cup {t} /\ UNCHANGED sent
  /\ UNCHANGED queue

Next == Start \/ \E t \in Ticket : Accept(t) \/ Revoke(t) \/ Send(t)

Spec == Init /\ [][Next]_vars
=============================================================================
