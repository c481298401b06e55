---------------------------- MODULE SchedulerCore ---------------------------
(***************************************************************************)
(* SchedulerCore driven through its public methods, in any order a driver  *)
(* may choose.  The driver's own bookkeeping is part of the specification, *)
(* because the header of core.rs is a contract with it: it learns of work  *)
(* only through effects, and of the session it must run only through       *)
(* step.                                                                   *)
(***************************************************************************)
EXTENDS SchedCoreOps

VARIABLES
  dispatched,  \* tickets the driver was told to dispatch and neither was told
               \* to cancel nor reported complete
  held,        \* sessions step handed to the driver, not yet given back
  reported     \* the terminal effect the driver received for each session

vars == << core, dispatched, held, reported >>

Init ==
  /\ core = NewCore
  /\ dispatched = {}
  /\ held = {}
  /\ reported = [s \in SessionId |-> {}]

\* The driver takes in what a method returned.
Observe(r, s) ==
  /\ core' = r.core
  /\ dispatched' = dispatched \ r.cancel
  /\ reported' = [reported EXCEPT ![s] = @ \cup ({r.event} \cap Terminal)]

\* Public calls name a session create_session returned; an unknown id is an
\* error without effect.
Known(s) == core.state[s] # "Absent"

DoCreate ==
  /\ core.nextSession < MaxSessions
  /\ core' = CreateSession(core)
  /\ UNCHANGED << dispatched, held, reported >>

DoSubmit(s) ==
  /\ core.nextTicket < MaxTickets
  /\ SubmitAllowed(core, s)
  /\ core' = Submit(core, s)
  /\ dispatched' = dispatched \cup {core.nextTicket}
  /\ UNCHANGED << held, reported >>

DoBlock(s) ==
  /\ Known(s)
  /\ Observe(Block(core, s), s)
  /\ held' = held \ {s}

DoWake(s) ==
  /\ Known(s)
  /\ Observe(Wake(core, s), s)
  /\ UNCHANGED held

\* A backend reports a ticket, possibly again, late, or after cancellation.
DoComplete(t, ok) ==
  LET r == Complete(core, t, ok)
      s == IF core.inflight[t] = NoOwner THEN 0 ELSE core.inflight[t]
  IN  /\ t < core.nextTicket
      /\ core' = r.core
      /\ dispatched' = (dispatched \ {t}) \ r.cancel
      /\ reported' = [reported EXCEPT ![s] = @ \cup ({r.event} \cap Terminal)]
      /\ UNCHANGED held

DoCancel(s) ==
  /\ Known(s)
  /\ Observe(Cancel(core, s), s)
  /\ UNCHANGED held

DoFinish(s) ==
  /\ Known(s)
  /\ Observe(Finish(core, s), s)
  /\ held' = held \ {s}

DoFail(s) ==
  /\ Known(s)
  /\ Observe(Fail(core, s), s)
  /\ held' = held \ {s}

DoStep ==
  /\ Valid(core) # {}
  /\ core' = Step(core)
  /\ held' = held \cup {StepRuns(core)}
  /\ UNCHANGED << dispatched, reported >>

DoRequeue(s) ==
  /\ Known(s)
  /\ core' = Requeue(core, s)
  /\ held' = held \ {s}
  /\ UNCHANGED << dispatched, reported >>

Next ==
  \/ DoCreate
  \/ DoStep
  \/ \E s \in SessionId :
       \/ DoSubmit(s) \/ DoBlock(s) \/ DoWake(s) \/ DoCancel(s)
       \/ DoFinish(s) \/ DoFail(s) \/ DoRequeue(s)
  \/ \E t \in Ticket, ok \in BOOLEAN : DoComplete(t, ok)

Spec == Init /\ [][Next]_vars

(***************************************************************************)
(* What the loop around the core must supply for progress: it keeps        *)
(* calling step, gives back every session step handed it, and every        *)
(* dispatched ticket is reported in the end.                               *)
(***************************************************************************)
GiveBack(s) == s \in held /\ (DoRequeue(s) \/ DoBlock(s) \/ DoFinish(s) \/ DoFail(s))
Report(t) == t \in dispatched /\ \E ok \in BOOLEAN : DoComplete(t, ok)

FairSpec ==
  /\ Spec
  /\ WF_vars(DoStep)
  /\ \A s \in SessionId : WF_vars(GiveBack(s))
  /\ \A t \in Ticket : WF_vars(Report(t))
-----------------------------------------------------------------------------
\* Every field of the core and of the driver's view holds a value of its type.
TypeOK ==
  /\ core \in CoreType
  /\ dispatched \in SUBSET Ticket
  /\ held \in SUBSET SessionId
  /\ reported \in [SessionId -> SUBSET Terminal]

\* What assert_invariants checks after every call, here in every reachable
\* state: the ready queue, the in_ready bits, the per-session ticket lists and
\* the ticket map stay consistent views of one another, whatever order the
\* lifecycle calls and the completions arrive in.
CoreConsistent == CoreInv(core)

\* A session never owns more live tickets than Budget allows.
BudgetKept == WithinBudget(core)

\* Ticket ownership is never revoked behind the driver's back: the tickets the
\* driver believes outstanding are exactly those the core would still accept,
\* so each Dispatch is answered by one completion or one Cancel effect, never
\* by both and never by neither, also when several tickets die together.
DispatchMatchesInflight ==
  dispatched = Live(core)

\* The driver has been told Finished or Failed for exactly the sessions that
\* are in that state: no terminal effect is lost, and no session is reported
\* both finished and failed when a failed completion races finish.
TerminalReported ==
  \A s \in SessionId : reported[s] = {core.state[s]} \cap Terminal

\* "step removes queue ownership; only requeue can return it": a runnable
\* session is always in the queue or in the driver's hands, so none is lost
\* when it is blocked, woken and completed in between.
NoSessionLost ==
  \A s \in SessionId :
    core.state[s] = "Runnable" => core.inReady[s] \/ s \in held

\* Terminal states are final and a session that is being cancelled can only
\* terminate: neither a wake nor a late completion resurrects it.
LifecycleForward ==
  [][\A s \in SessionId :
       /\ core.state[s] \in Terminal => core'.state[s] = core.state[s]
       /\ core.state[s] = "Cancelling" =>
            core'.state[s] \in {"Cancelling"} \cup Terminal]_vars

\* A ticket is consumed at most once: once completed or revoked it is never
\* live again, and while live it never changes owner.
TicketConsumedOnce ==
  [][\A t \in Ticket :
       /\ t < core.nextTicket /\ core.inflight[t] = NoOwner =>
            core'.inflight[t] = NoOwner
       /\ core.inflight[t] # NoOwner =>
            core'.inflight[t] \in {core.inflight[t], NoOwner}]_vars

\* The ready queue is FIFO: of two sessions that stay queued over a step the
\* earlier one stays ahead, so removing or adding a third never reorders them.
FifoOrder ==
  [][\A i, j \in 1 .. Len(core.ready) :
       i < j => \A k, l \in 1 .. Len(core'.ready) :
                  core'.ready[k] = core.ready[i] /\ core'.ready[l] = core.ready[j]
                    => k < l]_vars

\* A queued session is run, blocked or ended after finitely many calls: the
\* sessions that keep being requeued or created cannot starve it.
QueuedEventuallyRuns ==
  \A s \in SessionId : core.inReady[s] ~> ~ core.inReady[s]

\* A session that blocks on live tickets does not stay blocked: the last of
\* its completions, in whatever order they come, wakes or fails it.
BlockedEventuallyLeaves ==
  \A s \in SessionId :
    core.state[s] = "Blocked" /\ core.owned[s] # {} ~> core.state[s] # "Blocked"
=============================================================================
