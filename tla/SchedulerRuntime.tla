-------------------------- MODULE SchedulerRuntime --------------------------
(***************************************************************************)
(* RuntimeLoop (logan-core/src/sched/runtime.rs): the scheduler thread     *)
(* that owns the SchedulerCore, takes commands from one bounded channel,   *)
(* places dispatched work on executor lanes and keeps what a full lane     *)
(* hands back until capacity returns.                                      *)
(*                                                                         *)
(* The lanes run concurrently with the thread.  A step of the thread is    *)
(* the handling of one command up to its retry of pending work, one        *)
(* iteration of retry_pending, the check made when the channel has run     *)
(* empty, or the shutdown of one session.  A frontend's command appears    *)
(* when it is handled; completions are outstanding (reports) from the      *)
(* moment a handler returned, and arrive in any order.  An executor that   *)
(* finds the command channel full parks its report (parked), and offers it *)
(* again only when one of its workers has finished another job.  Lanes     *)
(* otherwise follow the contract of module ExecutorLane.  Replies change   *)
(* nothing and are left out.                                               *)
(***************************************************************************)
EXTENDS SchedCoreOps

CONSTANTS
  LaneOrder,     \* the ActionKinds in the order Complete retries their lanes
  NoKind,        \* the kind of a ticket that was not issued
  LaneCapacity,  \* queue capacity of each lane
  LaneWorkers,   \* jobs a lane runs at a time
  MayClose       \* lanes whose executor may stop accepting on its own

Kind == {LaneOrder[i] : i \in 1 .. Len(LaneOrder)}

ASSUME RuntimeConstants ==
  /\ LaneOrder \in Seq(Kind) /\ NoDuplicates(LaneOrder)
  /\ NoKind \notin Kind
  /\ LaneCapacity \in Nat \ {0}
  /\ LaneWorkers \in Nat \ {0}
  /\ MayClose \subseteq Kind

VARIABLES
  kind,       \* the action kind of each issued ticket
  pending,    \* VecDeque<DispatchRequest>: the backpressured tickets
  lane,       \* the bounded queue of each executor
  running,    \* tickets a worker has claimed
  reports,    \* tickets whose completion has not reached the scheduler
  parked,     \* those of them that wait in an executor's pending_sink
  closed,     \* lanes that answer Closed
  draining,   \* as in RuntimeLoop
  phase,      \* what the thread is doing
  offers,     \* lanes that retry_pending has still to go through
  cursor,     \* its index into pending; the next session of shutdown
  stopMode,   \* the ShutdownMode that ends the thread
  hole        \* lanes that lost a queued job to try_cancel since pending
              \* work was last offered to them (not in the code)

runtimeVars == << core, kind, pending, lane, running, reports, parked, closed,
                  draining, phase, offers, cursor, stopMode, hole >>

\* The variables a command does not touch unless it says so.
control == << draining, offers, cursor, stopMode >>
lanes == << running, reports, parked, closed >>

RuntimeInit ==
  /\ core = NewCore
  /\ kind = [t \in Ticket |-> NoKind]
  /\ pending = << >>
  /\ lane = [k \in Kind |-> << >>]
  /\ running = {} /\ reports = {} /\ parked = {} /\ closed = {}
  /\ draining = FALSE
  /\ phase = "recv"
  /\ offers = << >> /\ cursor = 0
  /\ stopMode = "none"
  /\ hole = {}
-----------------------------------------------------------------------------
(***************************************************************************)
(* The private methods of RuntimeLoop, on a record of the fields they      *)
(* change.                                                                 *)
(***************************************************************************)
Here == [core |-> core, pending |-> pending, lane |-> lane, hole |-> hole]

Becomes(r) ==
  core' = r.core /\ pending' = r.pending /\ lane' = r.lane /\ hole' = r.hole

\* Mutant: remove_cancelled is forgotten, pending keeps the revoked requests.
ApplyEffects_MPendingKept(r, S) ==
  [r EXCEPT !.lane = [k \in Kind |-> Without(@[k], S)]]

\* remove_cancelled and apply_effects: the tickets of the Cancel effects leave
\* pending and, if still queued, their lane.
ApplyEffects(r, S) ==
  [r EXCEPT !.pending = Without(@, S),
            !.lane = [k \in Kind |-> Without(@[k], S)],
            !.hole = @ \cup {k \in Kind : \E t \in S : Queued(r.lane[k], t)}]

\* What a core method returned is taken over and its effects are applied.
Apply(r, ret) == ApplyEffects([r EXCEPT !.core = ret.core], ret.cancel)

IsFull(k) == k \notin closed /\ Len(lane[k]) >= LaneCapacity

\* try_submit of a lane that is not full: it accepts the request, or answers
\* Closed, which fails the ticket's session.
TrySubmit(r, t, k) ==
  IF k \in closed
  THEN Apply(r, Complete(r.core, t, FALSE))
  ELSE [r EXCEPT !.lane[k] = Append(@, t)]

\* Mutant: only the backpressure queue is looked at.
IsQuiescent_MPendingOnly == pending = << >>

IsQuiescent == pending = << >> /\ Live(core) = {}
-----------------------------------------------------------------------------
(***************************************************************************)
(* RuntimeLoop::handle, one action for each command.                       *)
(***************************************************************************)
Receiving == phase \in {"recv", "burst"}

HandleCreate ==
  /\ Receiving /\ ~ draining
  /\ core.nextSession < MaxSessions
  /\ core' = CreateSession(core)
  /\ phase' = "burst"
  /\ UNCHANGED << kind, pending, lane, hole, control, lanes >>

\* submit: the core issues the ticket and its lane takes, bounces or kills it.
HandleSubmit(s, k) ==
  LET t == core.nextTicket
      r == [Here EXCEPT !.core = Submit(core, s)]
  IN  /\ Receiving /\ ~ draining
      /\ t < MaxTickets
      /\ SubmitAllowed(core, s)
      /\ kind' = [kind EXCEPT ![t] = k]
      /\ Becomes(IF IsFull(k) THEN [r EXCEPT !.pending = Append(@, t)]
                 ELSE TrySubmit(r, t, k))
      /\ phase' = "burst"
      /\ UNCHANGED << control, lanes >>

\* Block, Wake, Cancel, Finish and Fail: the core's method, then its effects.
HandleLifecycle(s) ==
  /\ Receiving /\ core.state[s] # "Absent"
  /\ \E ret \in {Block(core, s), Wake(core, s), Cancel(core, s),
                 Finish(core, s), Fail(core, s)} : Becomes(Apply(Here, ret))
  /\ phase' = "burst"
  /\ UNCHANGED << kind, control, lanes >>

\* Mutant: pending work is not offered to the lanes.
HandleComplete_MNoRetry(t, ok) ==
  /\ Receiving
  /\ t < core.nextTicket
  /\ ~ Queued(pending, t) /\ ~ Queued(lane[kind[t]], t)
  /\ phase' = "burst"
  /\ reports' = reports \ {t} /\ parked' = parked \ {t}
  /\ Becomes(Apply(Here, Complete(core, t, ok)))
  /\ UNCHANGED << kind, control, running, closed >>

\* A completion of work that was started: the executor's own report, a copy of
\* it, or a frontend's word ahead of the executor's, whose report is then
\* stale wherever it is.
HandleComplete(t, ok) ==
  /\ Receiving
  /\ t < core.nextTicket
  /\ ~ Queued(pending, t) /\ ~ Queued(lane[kind[t]], t)
  /\ phase' = "retry" /\ offers' = LaneOrder /\ cursor' = 1
  /\ reports' = reports \ {t} /\ parked' = parked \ {t}
  /\ Becomes(Apply(Here, Complete(core, t, ok)))
  /\ UNCHANGED << kind, draining, stopMode, running, closed >>

ExecutorReady(k) ==
  /\ Receiving
  /\ phase' = "retry" /\ offers' = << k >> /\ cursor' = 1
  /\ UNCHANGED << core, kind, pending, lane, hole, draining, stopMode, lanes >>

\* Pending requests of the lane being retried, from the cursor on.
Candidates == {i \in cursor .. Len(pending) : kind[pending[i]] = Head(offers)}
FirstCandidate == CHOOSE i \in Candidates : \A j \in Candidates : i <= j

\* One iteration of retry_pending that gives a request to its lane.  A Closed
\* answer may remove requests in front of the cursor, which stays.
RetryOne ==
  LET i == FirstCandidate
      rest == SubSeq(pending, 1, i - 1) \o SubSeq(pending, i + 1, Len(pending))
  IN  /\ phase = "retry" /\ offers # << >>
      /\ Candidates # {} /\ ~ IsFull(Head(offers))
      /\ Becomes(TrySubmit([Here EXCEPT !.pending = rest], pending[i], Head(offers)))
      /\ cursor' = i
      /\ UNCHANGED << kind, phase, offers, draining, stopMode, lanes >>

\* retry_pending returns: the lane is full or has no more pending work.
RetryEnds ==
  /\ phase = "retry" /\ offers # << >>
  /\ Candidates = {} \/ IsFull(Head(offers))
  /\ hole' = hole \ {Head(offers)}
  /\ offers' = Tail(offers) /\ cursor' = 1
  /\ phase' = IF Len(offers) = 1 THEN "burst" ELSE "retry"
  /\ UNCHANGED << core, kind, pending, lane, draining, stopMode, lanes >>

BeginStop(mode) == phase' = "stopping" /\ stopMode' = mode /\ cursor' = 0

HandleShutdown(mode) ==
  /\ Receiving
  /\ IF mode = "Drain" /\ ~ IsQuiescent
     THEN draining' = TRUE /\ phase' = "burst" /\ UNCHANGED << cursor, stopMode >>
     ELSE BeginStop(mode) /\ UNCHANGED draining
  /\ UNCHANGED << core, kind, pending, lane, hole, offers, lanes >>

\* The channel has run empty: finish the drain, or block in recv again.
EndBurst ==
  /\ phase = "burst"
  /\ IF draining /\ IsQuiescent
     THEN BeginStop("Drain")
     ELSE phase' = "recv" /\ UNCHANGED << cursor, stopMode >>
  /\ UNCHANGED << core, kind, pending, lane, hole, draining, offers, lanes >>

\* shutdown goes through the sessions in id order; what Finish revokes stays in
\* pending ...
StopSession ==
  LET Revoked == IF stopMode = "Cancel" THEN Apply(Here, Cancel(core, cursor)) ELSE Here
      Ended(r) == Apply(r, Finish(r.core, cursor))
  IN  /\ phase = "stopping" /\ cursor < core.nextSession
      /\ \E r \in {Revoked} : \E n \in {Ended(r)} :
           Becomes([n EXCEPT !.pending = r.pending])
      /\ cursor' = cursor + 1
      /\ UNCHANGED << kind, phase, offers, draining, stopMode, lanes >>

\* ... clears pending ...
ClearPending ==
  /\ phase = "stopping" /\ cursor >= core.nextSession
  /\ pending' = << >>
  /\ phase' = "joining"
  /\ UNCHANGED << core, kind, lane, hole, control, lanes >>

\* ... and joins the executors, which finish what they have, before the reply.
Joined ==
  /\ phase = "joining"
  /\ running = {} /\ \A k \in Kind : lane[k] = << >>
  /\ phase' = "stopped"
  /\ UNCHANGED << core, kind, pending, lane, hole, control, lanes >>
-----------------------------------------------------------------------------
(***************************************************************************)
(* The lanes.                                                              *)
(***************************************************************************)
LaneStart(k) ==
  /\ lane[k] # << >>
  /\ Cardinality({t \in running : kind[t] = k}) < LaneWorkers
  /\ lane' = [lane EXCEPT ![k] = Tail(@)]
  /\ running' = running \cup {Head(lane[k])}
  /\ UNCHANGED << core, kind, pending, hole, phase, control, reports, parked,
                  closed >>

\* Whether a worker of lane k has something to do or to finish.
Busy(k) == lane[k] # << >> \/ \E t \in running : kind[t] = k

\* The handler returns.  The worker reports, and its next iteration reports
\* again what the lane has parked; each report finds room in the channel, or
\* the frontends' commands fill it and the report is parked.
LaneFinish(t) ==
  /\ t \in running
  /\ running' = running \ {t}
  /\ reports' = reports \cup {t}
  /\ \E full \in SUBSET ({p \in parked : kind[p] = kind[t]} \cup {t}) :
       parked' = {p \in parked : kind[p] # kind[t]} \cup full
  /\ UNCHANGED << core, kind, pending, lane, hole, phase, control, closed >>

LaneCloses(k) ==
  /\ k \in MayClose \ closed
  /\ closed' = closed \cup {k}
  /\ UNCHANGED << core, kind, pending, lane, hole, phase, control, running,
                  reports, parked >>

RuntimeNext ==
  \/ EndBurst \/ RetryOne \/ RetryEnds \/ StopSession \/ ClearPending \/ Joined
  \/ HandleCreate
  \/ \E s \in SessionId : HandleLifecycle(s) \/ \E k \in Kind : HandleSubmit(s, k)
  \/ \E t \in Ticket : LaneFinish(t) \/ \E ok \in BOOLEAN : HandleComplete(t, ok)
  \/ \E k \in Kind : ExecutorReady(k) \/ LaneStart(k) \/ LaneCloses(k)
  \/ \E mode \in {"Cancel", "Drain"} : HandleShutdown(mode)

RuntimeSpec == RuntimeInit /\ [][RuntimeNext]_runtimeVars

\* A worker of lane k takes a job or is done with one.
LaneStep(k) == LaneStart(k) \/ \E t \in running : kind[t] = k /\ LaneFinish(t)

\* The thread takes a report from the channel, a HandleComplete step.
Arrives == Receiving /\ \E t \in reports \ parked : reports' = reports \ {t}

\* The thread keeps going, each lane runs what it has, and what is in the
\* channel is taken from it in the end, since the channel is a FIFO queue; that
\* condition is strong because nothing is received during a retry.  Nothing is
\* asked for a parked report.  The frontends' commands do not keep the channel
\* from ever running empty, and no frontend has to send anything.
FairRuntimeSpec ==
  /\ RuntimeSpec
  /\ WF_runtimeVars(RetryOne \/ RetryEnds \/ StopSession \/ ClearPending \/ Joined)
  /\ SF_runtimeVars(EndBurst)
  /\ \A k \in Kind : WF_runtimeVars(LaneStep(k))
  /\ SF_reports(Arrives)
-----------------------------------------------------------------------------
\* Every variable holds a value of its type, and no lane exceeds its capacity.
RuntimeTypeOK ==
  /\ core \in CoreType
  /\ kind \in [Ticket -> Kind \cup {NoKind}]
  /\ pending \in Seq(Ticket)
  /\ lane \in [Kind -> Seq(Ticket)]
  /\ \A k \in Kind : Len(lane[k]) <= LaneCapacity
  /\ running \in SUBSET Ticket /\ reports \in SUBSET Ticket
  /\ parked \subseteq reports
  /\ closed \in SUBSET MayClose /\ hole \in SUBSET Kind
  /\ draining \in BOOLEAN
  /\ phase \in {"recv", "burst", "retry", "stopping", "joining", "stopped"}
  /\ offers \in Seq(Kind) /\ cursor \in Nat
  /\ stopMode \in {"none", "Cancel", "Drain"}

InLane(t) == \E k \in Kind : Queued(lane[k], t)

\* No ticket is orphaned, doubled or dispatched dead: a live ticket is in
\* exactly one of the backpressure queue, a lane's queue, a worker's hands and
\* the completions on their way, so no session waits for work that nobody
\* holds; and what waits for dispatch is live, however many tickets of its
\* session died at once ("otherwise a cancelled ticket can later be dispatched
\* when capacity returns").
LiveTicketsHeld ==
  \A t \in Ticket :
    /\ t \in Live(core) =>
         Cardinality({p \in {"pending", "lane", "running", "reports"} :
           \/ p = "pending" /\ Queued(pending, t)
           \/ p = "lane" /\ InLane(t)
           \/ p = "running" /\ t \in running
           \/ p = "reports" /\ t \in reports}) = 1
    /\ Queued(pending, t) \/ InLane(t) => t \in Live(core)

\* Lanes with a parked report and no worker that would send it again: all are
\* waiting for a job.
Stranded == {k \in Kind : ~ Busy(k) /\ \E t \in parked : kind[t] = k}

\* Backpressured work always has someone whose report will make the runtime
\* offer it to its lane again.  The exceptions are the lanes try_cancel took a
\* queued job from, those that closed, and those whose report is stranded.
BackpressureWatched ==
  \A k \in Kind \ (hole \cup closed \cup Stranded) :
    (\E i \in 1 .. Len(pending) : kind[pending[i]] = k) =>
      \/ Busy(k)
      \/ \E t \in reports \ parked : kind[t] = k
      \/ phase = "retry" /\ Queued(offers, k)

\* "Stop accepting new work and consume completions until no live ticket
\* remains": a shutdown in Drain mode never revokes a live ticket.  And when
\* ShutdownComplete is sent, in either mode, every session is terminal, no
\* ticket is live, nothing waits for dispatch and no executor runs anything.
ShutdownClean ==
  /\ stopMode = "Drain" => Live(core) = {} /\ pending = << >>
  /\ phase = "stopped" =>
       /\ Live(core) = {} /\ pending = << >> /\ running = {}
       /\ \A s \in SessionId : core.state[s] \in Terminal \cup {"Absent"}
       /\ \A k \in Kind : lane[k] = << >>

\* A drain ends: once started, the runtime stops.  Two things can keep it from
\* doing so, and nothing else: pending work lost the queued job it was waiting
\* behind, or all lanes have run dry with a report parked.
DrainCompletes ==
  draining ~> \/ phase = "stopped"
              \/ hole # {}
              \/ Stranded # {} /\ \A k \in Kind : ~ Busy(k)
=============================================================================
