---------------------------- MODULE SchedCoreOps ----------------------------
(***************************************************************************)
(* The operations of SchedulerCore (logan-core/src/sched/core.rs) as       *)
(* operators on a record that holds the fields of the Rust struct.  The    *)
(* core is a single-owner value: whoever owns it calls one method at a     *)
(* time, so a method is an operator from a core to what it returns, a      *)
(* record with the new core and the effects handed to the driver.          *)
(*                                                                         *)
(* Two abstractions.  A session's inflight Vec<Ticket> is the set of its   *)
(* tickets: only the order of the Cancel effects depends on the order, and *)
(* they commute.  The Generation stored with a ticket equals the ticket    *)
(* and is never read, so the inflight map keeps only the owner.            *)
(*                                                                         *)
(* Definitions whose name contains _M are mutants: the definition that     *)
(* follows with a plausible slip, used to see that a property notices it.  *)
(***************************************************************************)
EXTENDS Integers, Sequences, FiniteSets, Queues

CONSTANTS
  MaxSessions,   \* bound on the sessions ever created
  MaxTickets,    \* bound on the tickets ever issued
  MaxInflight    \* Budget::max_inflight_per_session

ASSUME CoreConstants ==
  /\ MaxSessions \in Nat
  /\ MaxTickets \in Nat
  /\ MaxInflight \in Nat

\* The core, held by the one component that extends this module.
VARIABLE core

\* Typed identifiers are monotonic counters that start at 0.
SessionId == 0 .. (MaxSessions - 1)
Ticket == 0 .. (MaxTickets - 1)

\* No session owns the ticket: it is absent from the core's inflight map.
NoOwner == -1

\* "Absent" stands for a session id that no create_session call returned yet.
SessionState ==
  {"Absent", "Runnable", "Blocked", "Cancelling", "Finished", "Failed"}

Terminal == {"Finished", "Failed"}

CoreType ==
  [state       : [SessionId -> SessionState],
   inReady     : [SessionId -> BOOLEAN],
   owned       : [SessionId -> SUBSET Ticket],
   ready       : Seq(SessionId),
   inflight    : [Ticket -> SessionId \cup {NoOwner}],
   nextSession : 0 .. MaxSessions,
   nextTicket  : 0 .. MaxTickets]

NewCore ==
  [state       |-> [s \in SessionId |-> "Absent"],
   inReady     |-> [s \in SessionId |-> FALSE],
   owned       |-> [s \in SessionId |-> {}],
   ready       |-> << >>,
   inflight    |-> [t \in Ticket |-> NoOwner],
   nextSession |-> 0,
   nextTicket  |-> 0]

\* The tickets the core would still accept a completion of.
Live(c) == {t \in Ticket : c.inflight[t] # NoOwner}

\* What a method returns: the new core, the tickets it emits Effect::Cancel
\* for, and the session effect it emits, of which there is at most one.
Ret(c, cancel, event) == [core |-> c, cancel |-> cancel, event |-> event]
NoEffects(c) == Ret(c, {}, "None")
-----------------------------------------------------------------------------
RemoveFromReady(c, s) ==
  [c EXCEPT !.ready = Retain(@, s), !.inReady[s] = FALSE]

\* The session enters the back of the queue and its membership bit is set.
PushBack(c, s) == [c EXCEPT !.inReady[s] = TRUE, !.ready = Append(@, s)]

\* Mutants: the membership bit is not consulted; the session jumps the queue.
EnqueueIfRunnable_MNoDedupe(c, s) ==
  IF c.state[s] = "Runnable" /\ Len(c.ready) <= MaxSessions
  THEN PushBack(c, s) ELSE c

EnqueueIfRunnable_MPushFront(c, s) ==
  IF c.state[s] = "Runnable" /\ ~ c.inReady[s]
  THEN [c EXCEPT !.inReady[s] = TRUE, !.ready = << s >> \o @]
  ELSE c

EnqueueIfRunnable(c, s) ==
  IF c.state[s] = "Runnable" /\ ~ c.inReady[s]
  THEN PushBack(c, s) ELSE c

CreateSession(c) ==
  LET s == c.nextSession
  IN  PushBack([c EXCEPT !.nextSession = @ + 1, !.state[s] = "Runnable"], s)

Block(c, s) ==
  IF c.state[s] = "Runnable"
  THEN NoEffects([RemoveFromReady(c, s) EXCEPT !.state[s] = "Blocked"])
  ELSE NoEffects(c)

\* Mutant: wake resurrects a session that is being cancelled.
Wake_MResurrects(c, s) ==
  IF c.state[s] \in {"Blocked", "Cancelling"}
  THEN Ret(EnqueueIfRunnable([c EXCEPT !.state[s] = "Runnable"], s), {}, "Wake")
  ELSE NoEffects(c)

Wake(c, s) ==
  IF c.state[s] = "Blocked"
  THEN Ret(EnqueueIfRunnable([c EXCEPT !.state[s] = "Runnable"], s), {}, "Wake")
  ELSE NoEffects(c)

\* Mutant: > instead of >= in the budget test.
SubmitAllowed_MOffByOne(c, s) ==
  /\ c.state[s] = "Runnable"
  /\ Cardinality(c.owned[s]) <= MaxInflight

\* submit succeeds: the session is runnable and below its inflight budget.
SubmitAllowed(c, s) ==
  /\ c.state[s] = "Runnable"
  /\ Cardinality(c.owned[s]) < MaxInflight

\* Mutant: alloc_ticket without its increment.
Submit_MSameTicket(c, s) ==
  LET t == c.nextTicket
  IN  [c EXCEPT !.owned[s] = @ \cup {t}, !.inflight[t] = s]

\* The accepted case of submit; the driver is told to dispatch c.nextTicket.
Submit(c, s) ==
  LET t == c.nextTicket
  IN  [c EXCEPT !.nextTicket = @ + 1,
                !.owned[s] = @ \cup {t},
                !.inflight[t] = s]

\* The ticket leaves both the core's map and its session's list.
Consume(c, t) ==
  [c EXCEPT !.inflight[t] = NoOwner,
            !.owned[c.inflight[t]] = @ \ {t}]

\* Mutant: the session's list is emptied but the core's map keeps its tickets.
Revoke_MMapKept(c, s) == [RemoveFromReady(c, s) EXCEPT !.owned[s] = {}]

\* Revoke every ticket of s: what cancel and terminalize share.
Revoke(c, s) ==
  [RemoveFromReady(c, s) EXCEPT
     !.owned[s] = {},
     !.inflight = [t \in Ticket |-> IF t \in c.owned[s] THEN NoOwner ELSE @[t]]]

RevokeTo(c, s, final) == [Revoke(c, s) EXCEPT !.state[s] = final]

Terminalize(c, s, final) == Ret(RevokeTo(c, s, final), c.owned[s], final)

\* Mutants: the woken session is not queued; the last dependency is looked for
\* before the ticket is removed from the session's list.
Complete_MNoEnqueue(c, t, ok) ==
  LET s == c.inflight[t]
      d == Consume(c, t)
  IN  IF s = NoOwner THEN NoEffects(c)
      ELSE IF ~ ok THEN Terminalize(d, s, "Failed")
      ELSE IF d.state[s] = "Blocked" /\ d.owned[s] = {}
           THEN Ret([d EXCEPT !.state[s] = "Runnable"], {}, "Wake")
           ELSE NoEffects(d)

Complete_MTestBeforeRemove(c, t, ok) ==
  LET s == c.inflight[t]
      d == Consume(c, t)
  IN  IF s = NoOwner THEN NoEffects(c)
      ELSE IF ~ ok THEN Terminalize(d, s, "Failed")
      ELSE IF c.state[s] = "Blocked" /\ c.owned[s] = {}
           THEN Ret(PushBack([d EXCEPT !.state[s] = "Runnable"], s), {}, "Wake")
           ELSE NoEffects(d)

\* A ticket that is not live was completed, cancelled or never issued: no-op.
Complete(c, t, ok) ==
  LET s == c.inflight[t]
      d == Consume(c, t)
  IN  IF s = NoOwner THEN NoEffects(c)
      ELSE IF ~ ok THEN Terminalize(d, s, "Failed")
      ELSE IF d.state[s] = "Blocked" /\ d.owned[s] = {}
           THEN Ret(PushBack([d EXCEPT !.state[s] = "Runnable"], s), {}, "Wake")
           ELSE NoEffects(d)

Cancel(c, s) ==
  IF c.state[s] \in {"Runnable", "Blocked"}
  THEN Ret(RevokeTo(c, s, "Cancelling"), c.owned[s], "None")
  ELSE NoEffects(c)

Finish(c, s) ==
  IF c.state[s] \in {"Runnable", "Blocked", "Cancelling"}
  THEN Terminalize(c, s, "Finished") ELSE NoEffects(c)

\* Mutant: a finished session can still be failed.
Fail_MAfterFinish(c, s) ==
  IF c.state[s] # "Failed" THEN Terminalize(c, s, "Failed") ELSE NoEffects(c)

Fail(c, s) ==
  IF c.state[s] \in {"Runnable", "Blocked", "Cancelling"}
  THEN Terminalize(c, s, "Failed") ELSE NoEffects(c)

\* Positions of the ready queue that step would run rather than skip.
Valid(c) ==
  {i \in 1 .. Len(c.ready) :
     c.state[c.ready[i]] = "Runnable" /\ c.inReady[c.ready[i]]}
FirstValid(c) == CHOOSE i \in Valid(c) : \A j \in Valid(c) : i <= j

\* Step::Run: the queue loses everything up to the session that runs.
StepRuns(c) == c.ready[FirstValid(c)]
Step(c) ==
  [c EXCEPT !.ready = SubSeq(@, FirstValid(c) + 1, Len(@)),
            !.inReady[StepRuns(c)] = FALSE]

Requeue(c, s) == EnqueueIfRunnable(c, s)
-----------------------------------------------------------------------------
(***************************************************************************)
(* The invariants the header of core.rs promises and assert_invariants     *)
(* tests.                                                                  *)
(***************************************************************************)
\* "A session is present in the ready queue at most once"; queue membership
\* and the in_ready bit agree; only runnable sessions are queued.
QueueConsistent(c) ==
  /\ NoDuplicates(c.ready)
  /\ \A s \in SessionId : c.inReady[s] <=> Queued(c.ready, s)
  /\ \A s \in SessionId : c.inReady[s] => c.state[s] = "Runnable"

\* The per-session lists and the core's map are two views of one relation,
\* and only runnable and blocked sessions own tickets.
TicketsConsistent(c) ==
  /\ \A s \in SessionId, t \in Ticket : t \in c.owned[s] <=> c.inflight[t] = s
  /\ \A s \in SessionId :
       c.owned[s] # {} => c.state[s] \in {"Runnable", "Blocked"}

\* Ids are handed out once: nothing is known of an id not allocated yet.
IdsFresh(c) ==
  /\ \A s \in SessionId : c.state[s] = "Absent" <=> s >= c.nextSession
  /\ \A t \in Ticket : t >= c.nextTicket => c.inflight[t] = NoOwner

WithinBudget(c) ==
  \A s \in SessionId : Cardinality(c.owned[s]) <= MaxInflight

CoreInv(c) ==
  QueueConsistent(c) /\ TicketsConsistent(c) /\ IdsFresh(c)
=============================================================================
