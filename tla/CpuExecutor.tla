---------------------------- MODULE CpuExecutor -----------------------------
(***************************************************************************)
(* CpuExecutor (logan-core/src/sched/executor.rs): worker threads around a *)
(* mutex-protected queue and a condition variable, the scheduler thread    *)
(* that submits, cancels and shuts down, and the scheduler's bounded       *)
(* command channel into which the workers report without ever blocking.    *)
(*                                                                         *)
(* A step is what one thread does under one acquisition of a lock, or one  *)
(* atomic access: a worker that finds the queue empty keeps the lock from  *)
(* its test of shutting_down until Condvar::wait releases it, so that is   *)
(* two steps (Take, then Wait) and LockFree tells whether another thread   *)
(* may enter.  The few attempts of report_to_sink at a full channel are    *)
(* one: what counts is what the last of them found.  An action's handler   *)
(* is outside the module: it ends, and its outcome is not looked at.       *)
(***************************************************************************)
EXTENDS Integers, Sequences, FiniteSets, Queues

CONSTANTS
  Worker,        \* worker threads, CpuConfig::workers of them
  Ticket,        \* jobs, each submitted at most once
  QueueCapacity, \* CpuConfig::queue_capacity
  Sink,          \* jobs with a CompletionSink (the runtime path)
  Retained,      \* jobs that retain residency leases
  ChanCapacity,  \* RuntimeConfig::command_capacity
  Other          \* any other command in the scheduler's channel

ASSUME ExecutorConstants ==
  /\ Worker # {}
  /\ QueueCapacity \in Nat \ {0}
  /\ ChanCapacity \in Nat \ {0}
  /\ Sink \subseteq Ticket
  /\ Retained \subseteq Ticket
  /\ Other \notin Ticket

NoJob == Other

VARIABLES
  queue,         \* Mutex<VecDeque<Job>>
  pc,            \* where each worker is in worker_loop
  job,           \* the job each worker has in hand
  retried,       \* parked reports a worker took out to send again
  parked,        \* pending_sink
  shuttingDown,  \* AtomicBool
  owner,         \* what the scheduler thread is doing to the executor
  chan,          \* the scheduler's command channel
  closed,        \* the receiver of that channel is gone
  delivered,     \* how often the scheduler received each ticket's completion
  completed,     \* Mutex<VecDeque<Completed>>
  collected,     \* how often drain_completed returned each job
  accepted,      \* jobs that try_submit accepted
  cancelled      \* jobs removed by cancel_ticket

vars == << queue, pc, job, retried, parked, shuttingDown, owner, chan, closed,
           delivered, completed, collected, accepted, cancelled >>

Init ==
  /\ queue = << >>
  /\ pc = [w \in Worker |-> "retry"]
  /\ job = [w \in Worker |-> NoJob]
  /\ retried = [w \in Worker |-> << >>]
  /\ parked = << >>
  /\ shuttingDown = FALSE
  /\ owner = "idle"
  /\ chan = << >>
  /\ closed = FALSE
  /\ delivered = [t \in Ticket |-> 0]
  /\ completed = << >>
  /\ collected = [t \in Ticket |-> 0]
  /\ accepted = {}
  /\ cancelled = {}

\* Mutant of LockFree: the guard is dropped between the test and the wait.
LockFree_MReleasedEarly == TRUE

\* The queue mutex is held across steps only by a worker about to wait.
LockFree == \A w \in Worker : pc[w] # "willWait"

-----------------------------------------------------------------------------
(***************************************************************************)
(* The workers.                                                            *)
(***************************************************************************)

\* Mutant of RetryParked: the reports are read but stay parked.
RetryParked_MParkedKept(w) ==
  /\ pc[w] = "retry"
  /\ retried' = [retried EXCEPT ![w] = parked]
  /\ pc' = [pc EXCEPT ![w] = "resend"]
  /\ UNCHANGED << queue, job, parked, shuttingDown, owner, chan, closed,
                  delivered, completed, collected, accepted, cancelled >>

\* retry_parked takes every parked report out under its lock.
RetryParked(w) ==
  /\ pc[w] = "retry"
  /\ retried' = [retried EXCEPT ![w] = parked]
  /\ parked' = << >>
  /\ pc' = [pc EXCEPT ![w] = "resend"]
  /\ UNCHANGED << queue, job, shuttingDown, owner, chan, closed, delivered,
                  completed, collected, accepted, cancelled >>

\* report_to_sink: send, or park the report when the channel is full, or give
\* up when the scheduler is gone.
ReportToSink(t) ==
  \/ /\ ~ closed /\ Len(chan) < ChanCapacity
     /\ chan' = Append(chan, t)
     /\ UNCHANGED parked
  \/ /\ ~ closed /\ Len(chan) >= ChanCapacity
     /\ parked' = Append(parked, t)
     /\ UNCHANGED chan
  \/ /\ closed
     /\ UNCHANGED << chan, parked >>

Resend(w) ==
  /\ pc[w] = "resend"
  /\ IF retried[w] = << >>
     THEN /\ pc' = [pc EXCEPT ![w] = "take"]
          /\ UNCHANGED << retried, chan, parked >>
     ELSE /\ ReportToSink(Head(retried[w]))
          /\ retried' = [retried EXCEPT ![w] = Tail(@)]
          /\ UNCHANGED pc
  /\ UNCHANGED << queue, job, shuttingDown, owner, closed, delivered,
                  completed, collected, accepted, cancelled >>

\* Mutant of Take: pop_back instead of pop_front.
Take_MPopsBack(w) ==
  /\ pc[w] = "take"
  /\ LockFree
  /\ IF queue # << >>
     THEN /\ job' = [job EXCEPT ![w] = queue[Len(queue)]]
          /\ queue' = SubSeq(queue, 1, Len(queue) - 1)
          /\ pc' = [pc EXCEPT ![w] = "run"]
     ELSE /\ pc' = [pc EXCEPT ![w] = IF shuttingDown THEN "exited" ELSE "willWait"]
          /\ UNCHANGED << job, queue >>
  /\ UNCHANGED << retried, parked, shuttingDown, owner, chan, closed,
                  delivered, completed, collected, accepted, cancelled >>

\* With the queue locked: pop a job, or exit, or get ready to wait.
Take(w) ==
  /\ pc[w] = "take"
  /\ LockFree
  /\ IF queue # << >>
     THEN /\ job' = [job EXCEPT ![w] = Head(queue)]
          /\ queue' = Tail(queue)
          /\ pc' = [pc EXCEPT ![w] = "run"]
     ELSE /\ pc' = [pc EXCEPT ![w] = IF shuttingDown THEN "exited" ELSE "willWait"]
          /\ UNCHANGED << job, queue >>
  /\ UNCHANGED << retried, parked, shuttingDown, owner, chan, closed,
                  delivered, completed, collected, accepted, cancelled >>

\* Condvar::wait releases the lock and waits, atomically.
Wait(w) ==
  /\ pc[w] = "willWait"
  /\ pc' = [pc EXCEPT ![w] = "waiting"]
  /\ UNCHANGED << queue, job, retried, parked, shuttingDown, owner, chan,
                  closed, delivered, completed, collected, accepted,
                  cancelled >>

\* A condition variable may also wake without a notification.
SpuriousWakeup(w) ==
  /\ pc[w] = "waiting"
  /\ pc' = [pc EXCEPT ![w] = "take"]
  /\ UNCHANGED << queue, job, retried, parked, shuttingDown, owner, chan,
                  closed, delivered, completed, collected, accepted,
                  cancelled >>

\* The handler returns; a job without sink or with leases lands a record.
Run(w) ==
  LET t == job[w]
  IN  /\ pc[w] = "run"
      /\ completed' = IF t \notin Sink \/ t \in Retained
                      THEN Append(completed, t) ELSE completed
      /\ pc' = [pc EXCEPT ![w] = "report"]
      /\ UNCHANGED << queue, job, retried, parked, shuttingDown, owner, chan,
                      closed, delivered, collected, accepted, cancelled >>

Report(w) ==
  /\ pc[w] = "report"
  /\ IF job[w] \in Sink THEN ReportToSink(job[w]) ELSE UNCHANGED << chan, parked >>
  /\ job' = [job EXCEPT ![w] = NoJob]
  /\ pc' = [pc EXCEPT ![w] = "retry"]
  /\ UNCHANGED << queue, retried, shuttingDown, owner, closed, delivered,
                  completed, collected, accepted, cancelled >>
-----------------------------------------------------------------------------
(***************************************************************************)
(* The scheduler thread.  It is inside at most one call at a time: the     *)
(* methods borrow the executor.                                            *)
(***************************************************************************)

\* try_submit_job answers Accepted; Full and Closed have no effect.
TrySubmit(t) ==
  /\ owner = "idle" /\ ~ shuttingDown /\ ~ closed
  /\ LockFree
  /\ t \notin accepted
  /\ Len(queue) < QueueCapacity
  /\ queue' = Append(queue, t)
  /\ accepted' = accepted \cup {t}
  /\ owner' = "notify"
  /\ UNCHANGED << pc, job, retried, parked, shuttingDown, chan, closed,
                  delivered, completed, collected, cancelled >>

\* notify_one, after the lock was released.
NotifyOne ==
  /\ owner = "notify"
  /\ owner' = "idle"
  /\ IF \E w \in Worker : pc[w] = "waiting"
     THEN \E w \in Worker : pc[w] = "waiting" /\ pc' = [pc EXCEPT ![w] = "take"]
     ELSE UNCHANGED pc
  /\ UNCHANGED << queue, job, retried, parked, shuttingDown, chan, closed,
                  delivered, completed, collected, accepted, cancelled >>

\* Mutant of CancelTicket: the leases of the removed job are dropped.
CancelTicket_MNoRecord(t) ==
  /\ owner = "idle" /\ ~ closed
  /\ LockFree
  /\ Queued(queue, t)
  /\ queue' = Retain(queue, t)
  /\ cancelled' = cancelled \cup {t}
  /\ UNCHANGED << pc, job, retried, parked, shuttingDown, owner, chan, closed,
                  delivered, completed, collected, accepted >>

\* cancel_ticket finds the job still queued; otherwise it has no effect.
CancelTicket(t) ==
  /\ owner = "idle" /\ ~ closed
  /\ LockFree
  /\ Queued(queue, t)
  /\ queue' = Retain(queue, t)
  /\ completed' = IF t \in Retained THEN Append(completed, t) ELSE completed
  /\ cancelled' = cancelled \cup {t}
  /\ UNCHANGED << pc, job, retried, parked, shuttingDown, owner, chan, closed,
                  delivered, collected, accepted >>

\* How often a Completed record of t was queued, the collected ones included.
Landed(t) == collected[t] + Cardinality({i \in DOMAIN completed : completed[i] = t})

\* drain_completed: the owner takes every record; it may after shutdown, too.
DrainCompleted ==
  /\ owner \in {"idle", "down"}
  /\ completed # << >>
  /\ collected' = [t \in Ticket |-> Landed(t)]
  /\ completed' = << >>
  /\ UNCHANGED << queue, pc, job, retried, parked, shuttingDown, owner, chan,
                  closed, delivered, accepted, cancelled >>

\* shutdown: store the flag, notify every waiting worker, join them all.
Shutdown ==
  /\ owner = "idle"
  /\ shuttingDown' = TRUE
  /\ owner' = "notifyAll"
  /\ UNCHANGED << queue, pc, job, retried, parked, chan, closed, delivered,
                  completed, collected, accepted, cancelled >>

NotifyAll ==
  /\ owner = "notifyAll"
  /\ owner' = "joining"
  /\ pc' = [w \in Worker |-> IF pc[w] = "waiting" THEN "take" ELSE pc[w]]
  /\ UNCHANGED << queue, job, retried, parked, shuttingDown, chan, closed,
                  delivered, completed, collected, accepted, cancelled >>

Joined ==
  /\ owner = "joining"
  /\ \A w \in Worker : pc[w] = "exited"
  /\ owner' = "down"
  /\ UNCHANGED << queue, pc, job, retried, parked, shuttingDown, chan, closed,
                  delivered, completed, collected, accepted, cancelled >>

\* Between calls the scheduler thread takes commands from its channel.
Receive ==
  /\ owner = "idle" /\ ~ closed
  /\ chan # << >>
  /\ chan' = Tail(chan)
  /\ delivered' = IF Head(chan) \in Ticket
                  THEN [delivered EXCEPT ![Head(chan)] = @ + 1] ELSE delivered
  /\ UNCHANGED << queue, pc, job, retried, parked, shuttingDown, owner,
                  closed, completed, collected, accepted, cancelled >>

\* The scheduler thread ends: RuntimeLoop drops its receiver first, and the
\* executors after it (Drop calls shutdown, again or, when the thread unwinds
\* from a panic, for the first time).
DropReceiver ==
  /\ owner \in {"idle", "down"} /\ ~ closed
  /\ closed' = TRUE
  /\ UNCHANGED << queue, pc, job, retried, parked, shuttingDown, owner, chan,
                  delivered, completed, collected, accepted, cancelled >>

\* A frontend or another executor puts a command into the channel.
OtherCommand ==
  /\ ~ closed
  /\ Len(chan) < ChanCapacity
  /\ chan' = Append(chan, Other)
  /\ UNCHANGED << queue, pc, job, retried, parked, shuttingDown, owner,
                  closed, delivered, completed, collected, accepted,
                  cancelled >>

WorkerStep(w) ==
  RetryParked(w) \/ Resend(w) \/ Take(w) \/ Wait(w) \/ Run(w) \/ Report(w)

Next ==
  \/ \E w \in Worker : WorkerStep(w) \/ SpuriousWakeup(w)
  \/ \E t \in Ticket : TrySubmit(t) \/ CancelTicket(t)
  \/ NotifyOne \/ Shutdown \/ NotifyAll \/ Joined
  \/ DrainCompleted \/ Receive \/ DropReceiver \/ OtherCommand

Spec == Init /\ [][Next]_vars

\* Threads that can run do run, and the scheduler keeps taking commands.
\* Nothing makes a frontend send, a condition variable wake by itself, or the
\* owner submit, cancel or shut down.
FairSpec ==
  /\ Spec
  /\ \A w \in Worker : WF_vars(WorkerStep(w))
  /\ WF_vars(NotifyOne) /\ WF_vars(NotifyAll) /\ WF_vars(Joined)
  /\ WF_vars(Receive)
-----------------------------------------------------------------------------
\* Every variable holds a value of its type.
TypeOK ==
  /\ queue \in Seq(Ticket) /\ Len(queue) <= QueueCapacity
  /\ pc \in [Worker -> {"retry", "resend", "take", "willWait", "waiting",
                        "run", "report", "exited"}]
  /\ job \in [Worker -> Ticket \cup {NoJob}]
  /\ retried \in [Worker -> Seq(Ticket)]
  /\ parked \in Seq(Ticket)
  /\ shuttingDown \in BOOLEAN
  /\ owner \in {"idle", "notify", "notifyAll", "joining", "down"}
  /\ chan \in Seq(Ticket \cup {Other}) /\ Len(chan) <= ChanCapacity
  /\ closed \in BOOLEAN
  /\ delivered \in [Ticket -> Nat]
  /\ completed \in Seq(Ticket)
  /\ collected \in [Ticket -> Nat]
  /\ accepted \in SUBSET Ticket
  /\ cancelled \in SUBSET accepted

\* Tickets a worker has claimed and not finished with.
InHand == {t \in Ticket : \E w \in Worker : job[w] = t}
BeingResent == {t \in Ticket : \E w \in Worker : Queued(retried[w], t)}
Parked == {t \in Ticket : Queued(parked, t)}
InChannel == {t \in Ticket : Queued(chan, t)}

\* "report exactly once through the sink": a job is in one place at a time and
\* its completion reaches the scheduler at most once, whatever the channel's
\* occupancy when the report is sent, parked and sent again.  One cancelled
\* while queued is nowhere: it never runs and is never reported.  And once all
\* workers have exited nothing accepted is left queued or half done.
ReportedOnce ==
  /\ \A t \in Ticket :
       Cardinality({p \in {"queue", "hand", "resent", "parked", "channel", "got"} :
         \/ p = "queue" /\ Queued(queue, t)
         \/ p = "hand" /\ t \in InHand
         \/ p = "resent" /\ t \in BeingResent
         \/ p = "parked" /\ t \in Parked
         \/ p = "channel" /\ t \in InChannel
         \/ p = "got" /\ delivered[t] > 0}) <= (IF t \in cancelled THEN 0 ELSE 1)
  /\ \A t \in Ticket : delivered[t] <= 1
  /\ (\A w \in Worker : pc[w] = "exited") =>
       queue = << >> /\ InHand = {} /\ BeingResent = {}

\* "handed back exactly once, even when the job was cancelled before
\* dispatch": a job with leases that is neither queued nor in a worker's hands
\* has landed exactly one Completed record.
LeasesHandedBackOnce ==
  \A t \in Retained :
    /\ Landed(t) <= 1
    /\ t \in accepted /\ ~ Queued(queue, t) /\ t \notin InHand => Landed(t) = 1

\* No submission is missed: an accepted job is claimed or cancelled in the
\* end, although notify_one may wake a worker that finds the queue empty.
QueuedEventuallyTaken ==
  \A t \in Ticket : Queued(queue, t) ~> ~ Queued(queue, t)

\* The comment of shutdown: "Stop accepting work and join all workers. Idle
\* workers wake and exit; a running job finishes before its worker exits."
ShutdownCompletes == owner = "notifyAll" ~> owner = "down"

\* The executor is an ExecutorLane: claimed covers everything between the
\* claim by a worker and the sending of the completion, parking included.
LaneStarted == InHand \cup BeingResent \cup Parked
LaneSent == InChannel \cup {t \in Ticket : delivered[t] > 0}
LaneDropped ==
  {t \in accepted : ~ Queued(queue, t) /\ t \notin LaneStarted \cup LaneSent}

Lane == INSTANCE ExecutorLane
          WITH Capacity <- QueueCapacity, started <- LaneStarted,
               sent <- LaneSent, dropped <- LaneDropped

\* Every step of the threads is a step of the abstract lane or none.
ImplementsLane == Lane!Spec
=============================================================================
