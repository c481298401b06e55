---------------------------- MODULE ScheduledQwen ---------------------------
(***************************************************************************)
(* run_greedy_scheduled (logan-qwen4/src/scheduled.rs): one request        *)
(* decoded through the scheduler runtime.  Three threads: the caller       *)
(* (driver), the scheduler thread, and the worker that owns the model and  *)
(* runs both the forward steps and the expert loads.                       *)
(*                                                                         *)
(* A forward step walks the layers.  Each layer first applies the token to *)
(* its persistent state (KV, GDN) and then needs the routed experts; when  *)
(* one is not in the expert store the step pauses and names the missing    *)
(* ones.  The driver loads them one by one, each through a ticket of its   *)
(* own, and submits the same step again, which resumes at the pause.       *)
(*                                                                         *)
(* The driver is the only frontend, so of the scheduler only what one      *)
(* session with one ticket at a time can meet is kept (SchedulerRuntime    *)
(* has the rest).  Routing is a choice made when a layer is first reached. *)
(* What the model answers is a parameter: Model(s), for s the tokens each  *)
(* layer has applied.                                                      *)
(***************************************************************************)
EXTENDS Integers, Sequences, GreedyCall

CONSTANTS
  Calls,            \* the arguments <<prompt, max_new>> of a call
  Layers,           \* number of layers
  Expert,           \* experts of a layer
  TopK,             \* experts a layer routes to
  StoreCap,         \* capacity of a store that is not divided by layer
  CommandCapacity,  \* RuntimeConfig::command_capacity, 64 in the code
  Model(_)

Layer == 1 .. Layers
Route == {r \in [1 .. TopK -> Expert] : \A i, j \in 1 .. TopK : r[i] = r[j] => i = j}

ASSUME ScheduledAssumption ==
  /\ Calls \subseteq Seq(Token) \X Nat
  /\ Layers \in Nat \ {0} /\ TopK \in Nat \ {0}
  /\ Route # {}
  /\ StoreCap >= TopK
  /\ CommandCapacity \in Nat \ {0}

VARIABLES
  layered,          \* new_layered or new, as make_expert_store chooses
  dpc,              \* where the driver is
  output,           \* the generated tokens
  step,             \* forward steps completed
  cold,             \* missing experts <<layer, expert>> still to be loaded
  started,          \* request_load returned a load id for Head(cold)
  view,             \* the residency bridge's state of each expert
  ok,               \* no call of the driver has failed
  cmds,             \* the runtime's bounded command channel
  reply,            \* the answer to the driver's request
  sess, live,       \* state of the session, its live tickets
  tickets,          \* tickets issued
  spc,              \* "run", "joining", "stopped": the scheduler thread
  jobs,             \* the worker's channel, of capacity 1
  loaded,           \* load_coli has succeeded
  wpc,              \* where the worker is
  job,              \* the request it executes
  at,               \* the layer it is in, and the route if already known
  outcome,          \* what it reports
  log,              \* CompletionLog: ticket and outcome
  applied,          \* tokens the PLE ring (0) and each layer have applied
  pause,            \* sched_pause: the place of the blocked step
  store,            \* ExpertStore: keys, least recently used first
  faulted           \* the worker has reported an error (not in the code)

driver == << prompt, maxNew, layered, output, step, cold, started, view, ok >>
scheduler == << sess, live, tickets, spc >>
worker == << loaded, wpc, job, at, outcome, applied, pause, store, faulted >>
scheduledVars == << driver, dpc, cmds, reply, scheduler, jobs, worker, log >>

None == << >>
Key == Layer \X Expert

ScheduledInit ==
  /\ \E call \in Calls : prompt = call[1] /\ maxNew = call[2]
  /\ layered \in BOOLEAN
  /\ dpc = "create" /\ output = << >> /\ step = 0
  /\ cold = << >> /\ started = FALSE
  /\ view = [k \in Key |-> "Absent"] /\ ok = TRUE
  /\ cmds = << >> /\ reply = None
  /\ sess = "Absent" /\ live = {} /\ tickets = 0 /\ spc = "run"
  /\ jobs = << >>
  /\ loaded \in BOOLEAN /\ wpc = "recv"
  /\ job = None /\ at = None /\ outcome = None /\ log = {}
  /\ applied = [l \in 0 .. Layers |-> << >>]
  /\ pause = None /\ store = << >> /\ faulted = FALSE
-----------------------------------------------------------------------------
(***************************************************************************)
(* The driver.                                                             *)
(***************************************************************************)
\* request: try_send to the runtime, then wait for its reply; a full channel
\* rejects the request.
Room == Len(cmds) < CommandCapacity
Request(c, next, rejected) ==
  /\ cmds' = IF Room THEN Append(cmds, c) ELSE cmds
  /\ dpc' = IF Room THEN next ELSE rejected

Replied == reply # None

CreateSession ==
  /\ dpc = "create"
  /\ Request([kind |-> "Create"], "created", "shutdown")
  /\ ok' = Room
  /\ UNCHANGED << prompt, maxNew, layered, output, step, cold, started, view,
                  reply, scheduler, jobs, worker, log >>

\* run_session_inner has something to do.
Created ==
  /\ dpc = "created" /\ Replied
  /\ reply' = None
  /\ dpc' = IF prompt = << >> \/ maxNew = 0 THEN "finish" ELSE "submit"
  /\ UNCHANGED << driver, cmds, scheduler, jobs, worker, log >>

\* The forward step that is due: the prompt up to its last token is prefilled,
\* the last one is the first decode step.
Feed ==
  [kind |-> "Forward", token |-> (prompt \o output)[step + 1], pos |-> step,
   decode |-> step >= Len(prompt) - 1]

\* step_op: the due load, or the step.
Due == IF cold = << >> THEN Feed ELSE [kind |-> "Load", key |-> Head(cold)]

\* For a load the bridge reserves memory; the pool holds every planned expert,
\* so the reservation succeeds.
SubmitOp ==
  LET fresh == cold # << >> /\ view[Head(cold)] = "Absent"
  IN  /\ dpc = "submit"
      /\ Request([kind |-> "Submit", op |-> Due], "submitted", "finish")
      /\ started' = fresh
      /\ view' = IF fresh THEN [view EXCEPT ![Head(cold)] = "Loading"] ELSE view
      /\ ok' = Room
      /\ UNCHANGED << prompt, maxNew, layered, output, step, cold, reply,
                      scheduler, jobs, worker, log >>

Submitted ==
  /\ dpc = "submitted" /\ Replied
  /\ reply' = None
  /\ dpc' = IF reply.ok THEN "wait" ELSE "finish"
  /\ ok' = reply.ok
  /\ UNCHANGED << prompt, maxNew, layered, output, step, cold, started, view,
                  cmds, scheduler, jobs, worker, log >>

\* CompletionLog::wait for the ticket last issued; after a success the driver
\* completes the ticket itself, racing the worker's own completion.
Await ==
  \E e \in log :
    /\ dpc = "wait" /\ e.ticket = tickets
    /\ IF e.outcome.kind = "Err"
       THEN dpc' = "finish" /\ ok' = FALSE /\ UNCHANGED << cmds, log >>
       ELSE /\ Request([kind |-> "Complete", ticket |-> tickets, ok |-> TRUE,
                        asked |-> TRUE], "acked", "finish")
            /\ log' = IF Room THEN log ELSE log \ {e}
            /\ ok' = Room
    /\ UNCHANGED << prompt, maxNew, layered, output, step, cold, started, view,
                    reply, scheduler, jobs, worker >>

\* The outcome is used once the completion is acknowledged.
Acked ==
  \E e \in log :
    /\ dpc = "acked" /\ Replied /\ e.ticket = tickets
    /\ reply' = None
    /\ log' = log \ {e}
    /\ \/ /\ e.outcome.kind = "Need"
          /\ cold' = e.outcome.cold
          /\ dpc' = "submit"
          /\ UNCHANGED << output, step, view >>
       \/ /\ e.outcome.kind = "Loaded"
          /\ cold' = Tail(cold)
          /\ view' = IF started THEN [view EXCEPT ![Head(cold)] = "Resident"]
                     ELSE view
          /\ dpc' = "submit"
          /\ UNCHANGED << output, step >>
       \/ /\ e.outcome.kind = "Token"
          /\ step' = step + 1
          /\ output' = IF Feed.decode THEN Append(output, e.outcome.token)
                       ELSE output
          /\ dpc' = IF Len(output') = maxNew THEN "finish" ELSE "submit"
          /\ UNCHANGED << cold, view >>
    /\ UNCHANGED << prompt, maxNew, layered, started, ok, cmds, scheduler, jobs,
                    worker >>

FinishSession ==
  /\ dpc = "finish"
  /\ Request([kind |-> "Finish"], "finished", "shutdown")
  /\ ok' = (ok /\ Room)
  /\ UNCHANGED << prompt, maxNew, layered, output, step, cold, started, view,
                  reply, scheduler, jobs, worker, log >>

Finished ==
  /\ dpc = "finished" /\ Replied
  /\ reply' = None /\ dpc' = "shutdown"
  /\ UNCHANGED << driver, cmds, scheduler, jobs, worker, log >>

Shutdown ==
  /\ dpc = "shutdown"
  /\ Request([kind |-> "Shutdown"], "join", "join")
  /\ ok' = (ok /\ Room)
  /\ UNCHANGED << prompt, maxNew, layered, output, step, cold, started, view,
                  reply, scheduler, jobs, worker, log >>

\* The reply to Shutdown, then runtime.join().
Return ==
  /\ dpc = "join" /\ Replied /\ spc = "stopped"
  /\ dpc' = "returned" /\ reply' = None
  /\ UNCHANGED << driver, cmds, scheduler, jobs, worker, log >>
-----------------------------------------------------------------------------
(***************************************************************************)
(* The scheduler thread, one action for each command.                      *)
(***************************************************************************)
Handles(k) == spc = "run" /\ cmds # << >> /\ Head(cmds).kind = k
Answer(r) ==
  /\ reply' = r /\ cmds' = Tail(cmds)
  /\ UNCHANGED << driver, dpc, worker, log >>

HandleCreate ==
  /\ Handles("Create")
  /\ sess' = "Runnable"
  /\ Answer([ok |-> TRUE])
  /\ UNCHANGED << live, tickets, spc, jobs >>

\* The worker's channel has room: the previous ticket is done.  (If it were
\* not, the request would wait in `pending'; here the thread would stop.)
HandleSubmit ==
  LET runs == sess = "Runnable"
  IN  /\ Handles("Submit")
      /\ jobs = << >>
      /\ tickets' = IF runs THEN tickets + 1 ELSE tickets
      /\ live' = IF runs THEN live \cup {tickets + 1} ELSE live
      /\ jobs' = IF runs THEN << [ticket |-> tickets + 1, op |-> Head(cmds).op] >>
                 ELSE jobs
      /\ Answer([ok |-> runs])
      /\ UNCHANGED << sess, spc >>

\* The first completion of a live ticket counts, an error fails the session;
\* only the driver's own request is answered.
HandleComplete ==
  LET c == Head(cmds)
      fails == c.ticket \in live /\ ~ c.ok
  IN  /\ Handles("Complete")
      /\ live' = IF fails THEN {} ELSE live \ {c.ticket}
      /\ sess' = IF fails THEN "Failed" ELSE sess
      /\ Answer(IF c.asked THEN [ok |-> TRUE] ELSE reply)
      /\ UNCHANGED << tickets, spc, jobs >>

\* Finish revokes what is live; of a failed session it reports an error, which
\* the driver ignores.
HandleFinish ==
  /\ Handles("Finish")
  /\ sess' = IF sess = "Failed" THEN sess ELSE "Finished"
  /\ live' = {}
  /\ Answer([ok |-> sess # "Failed"])
  /\ UNCHANGED << tickets, spc, jobs >>

\* Drain with nothing live: the executors are shut down at once.  (With a live
\* ticket the thread would go on; Finish has revoked them all.)
HandleShutdown ==
  /\ Handles("Shutdown") /\ live = {}
  /\ spc' = "joining"
  /\ Answer(None)
  /\ UNCHANGED << sess, live, tickets, jobs >>

\* QwenExecutor::shutdown joins the worker, then ShutdownComplete is sent.
Joined ==
  /\ spc = "joining" /\ wpc = "exited"
  /\ spc' = "stopped" /\ reply' = [ok |-> TRUE]
  /\ UNCHANGED << driver, dpc, cmds, sess, live, tickets, jobs, worker, log >>
-----------------------------------------------------------------------------
(***************************************************************************)
(* The expert store.                                                       *)
(***************************************************************************)
Holds(k) == \E i \in DOMAIN store : store[i] = k

\* get: each expert of the route is promoted in turn.
Promoted(l, r) ==
  SelectSeq(store, LAMBDA k : \A i \in 1 .. TopK : k # << l, r[i] >>)
    \o [i \in 1 .. TopK |-> << l, r[i] >>]

\* insert evicts the least recently used expert, of the layer or of all.
Victims(l) ==
  LET same == SelectSeq(store, LAMBDA k : layered => k[1] = l)
  IN  IF Len(same) >= (IF layered THEN TopK ELSE StoreCap)
      THEN {same[1]} ELSE {}

Inserted(k) == Append(SelectSeq(store, LAMBDA x : x \notin Victims(k[1])), k)
-----------------------------------------------------------------------------
(***************************************************************************)
(* The worker.                                                             *)
(***************************************************************************)
elsewhere == << loaded, driver, dpc, cmds, reply, scheduler >>

Report(o) ==
  /\ outcome' = o /\ wpc' = "log"
  /\ faulted' = (faulted \/ o.kind = "Err")

\* A bug: the step starts over whether or not it was paused.
Start_MAlwaysFresh(op) ==
  /\ at' = [layer |-> 1, route |-> None]
  /\ applied' = [applied EXCEPT ![0] = Append(@, op.token)]

\* forward_scheduled: resume the paused layer with the route it had, or begin
\* a new step by pushing the token onto the PLE ring.
Start(op) ==
  IF pause # None /\ pause.token = op.token /\ pause.pos = op.pos
  THEN /\ at' = [layer |-> pause.layer, route |-> pause.route]
       /\ UNCHANGED applied
  ELSE /\ at' = [layer |-> 1, route |-> None]
       /\ applied' = [applied EXCEPT ![0] = Append(@, op.token)]

Take ==
  /\ loaded /\ wpc = "recv" /\ jobs # << >>
  /\ job' = Head(jobs) /\ jobs' = Tail(jobs)
  /\ IF Head(jobs).op.kind = "Load"
     THEN wpc' = "load" /\ UNCHANGED << at, applied, pause >>
     ELSE wpc' = "layer" /\ Start(Head(jobs).op) /\ pause' = None
  /\ UNCHANGED << elsewhere, outcome, store, faulted, log >>

\* Without a model every request fails.
TakeUnloaded ==
  /\ ~ loaded /\ wpc = "recv" /\ jobs # << >>
  /\ job' = Head(jobs) /\ jobs' = Tail(jobs)
  /\ Report([kind |-> "Err"])
  /\ UNCHANGED << elsewhere, at, applied, pause, store, log >>

\* One layer: the pre-MoE phases once, then the MoE phase, which pauses before
\* it computes anything if an expert of the route is missing.
ForwardLayer ==
  LET l == at.layer
      fresh == at.route = None
  IN  /\ wpc = "layer" /\ l <= Layers
      /\ applied' = IF fresh THEN [applied EXCEPT ![l] = Append(@, job.op.token)]
                    ELSE applied
      /\ \E r \in IF fresh THEN Route ELSE {at.route} :
           LET missing == SelectSeq([i \in 1 .. TopK |-> << l, r[i] >>],
                                    LAMBDA k : ~ Holds(k))
           IN  IF missing # << >>
               THEN /\ pause' = [layer |-> l, route |-> r, token |-> job.op.token,
                                 pos |-> job.op.pos]
                    /\ Report([kind |-> "Need", cold |-> missing])
                    /\ UNCHANGED << at, store >>
               ELSE /\ store' = Promoted(l, r)
                    /\ at' = [layer |-> l + 1, route |-> None]
                    /\ UNCHANGED << pause, wpc, outcome, faulted >>
      /\ UNCHANGED << elsewhere, jobs, job, log >>

\* forward_tail and greedy_next, which refuses logits that are not finite.
ForwardTail ==
  /\ wpc = "layer" /\ at.layer > Layers
  /\ \/ Report([kind |-> "Token", token |-> Model(applied)])
     \/ job.op.decode /\ Report([kind |-> "Err"])
  /\ UNCHANGED << elsewhere, jobs, job, at, applied, pause, store, log >>

\* load_expert_planned: nothing if present; else the load is issued into the
\* store and waited for.  Issue and wait may fail.
LoadExpert ==
  LET k == job.op.key
  IN  /\ wpc = "load"
      /\ \/ /\ Holds(k)
            /\ Report([kind |-> "Loaded"]) /\ UNCHANGED store
         \/ /\ ~ Holds(k)
            /\ Report([kind |-> "Err"]) /\ UNCHANGED store
         \/ /\ ~ Holds(k)
            /\ store' = Inserted(k)
            /\ \E kind \in {"Loaded", "Err"} : Report([kind |-> kind])
      /\ UNCHANGED << elsewhere, jobs, job, at, applied, pause, log >>

\* A bug: the outcome is reported to the runtime only.
LogOutcome_MErrUnlogged ==
  /\ wpc = "log"
  /\ log' = IF outcome.kind = "Err" THEN log
            ELSE log \cup {[ticket |-> job.ticket, outcome |-> outcome]}
  /\ wpc' = "send"
  /\ UNCHANGED << elsewhere, jobs, job, at, outcome, applied, pause, store, faulted >>

LogOutcome ==
  /\ wpc = "log"
  /\ log' = log \cup {[ticket |-> job.ticket, outcome |-> outcome]}
  /\ wpc' = "send"
  /\ UNCHANGED << elsewhere, jobs, job, at, outcome, applied, pause, store, faulted >>

\* send_completion tries again for as long as the command channel is full.
SendCompletion ==
  /\ wpc = "send" /\ Room
  /\ cmds' = Append(cmds, [kind |-> "Complete", ticket |-> job.ticket,
                           ok |-> outcome.kind # "Err", asked |-> FALSE])
  /\ wpc' = "recv"
  /\ job' = None /\ outcome' = None /\ at' = None
  /\ UNCHANGED << loaded, driver, dpc, reply, scheduler, jobs, applied, pause,
                  store, faulted, log >>

\* The worker's channel is closed and empty.
WorkerExits ==
  /\ spc = "joining" /\ wpc = "recv" /\ jobs = << >>
  /\ wpc' = "exited"
  /\ UNCHANGED << elsewhere, jobs, job, at, outcome, applied, pause, store,
                  faulted, log >>

DriverStep ==
  \/ CreateSession \/ Created \/ SubmitOp \/ Submitted \/ Await \/ Acked
  \/ FinishSession \/ Finished \/ Shutdown \/ Return
SchedulerStep ==
  \/ HandleCreate \/ HandleSubmit \/ HandleComplete \/ HandleFinish
  \/ HandleShutdown \/ Joined
WorkerStep ==
  \/ Take \/ TakeUnloaded \/ ForwardLayer \/ ForwardTail \/ LoadExpert
  \/ LogOutcome \/ SendCompletion \/ WorkerExits

ScheduledNext == DriverStep \/ SchedulerStep \/ WorkerStep

ScheduledSpec == ScheduledInit /\ [][ScheduledNext]_scheduledVars

\* Each of the three threads keeps running.
FairScheduledSpec ==
  /\ ScheduledSpec
  /\ WF_scheduledVars(DriverStep) /\ WF_scheduledVars(SchedulerStep) /\ WF_scheduledVars(WorkerStep)
-----------------------------------------------------------------------------
\* Tokens the canonical path, which never pauses, would answer after h.
Canonical(h) == Model([l \in 0 .. Layers |-> h])

\* "resubmitting the SAME (token, pos) resumes byte-identically (persistent
\* state is mutated exactly once per token)": whatever was paused, loaded and
\* evicted on the way, the output is the canonical greedy one.
ScheduledIsGreedy ==
  \A i \in DOMAIN output :
    output[i] = Canonical(SubSeq(prompt \o output, 1, Len(prompt) + i - 1))

\* The call returns: no pause repeats for ever, no thread waits for another in
\* a circle, and the shutdown joins the worker.  It returns all the tokens
\* unless the worker reported an error.
CallReturns ==
  <>[](/\ dpc = "returned"
       /\ ~ faulted => ok /\ (Len(output) = maxNew \/ prompt = << >>))
=============================================================================
