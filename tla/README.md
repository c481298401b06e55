# TLA+ models of logan

logan runs large mixture-of-experts models on small machines. What makes that
work, and what is hard to test, is state that several parties change in an order
nobody wrote down: the scheduling layer in `logan-core/src/sched`; decoders that
guess ahead, pause in the middle of a layer or resume from a cached prefix; and
the daemon that serves requests while models are loaded and replaced. This
directory specifies those parts and model-checks them with TLC. It also proves with
TLAPS, for every value of the constants, all the safety properties that TLC checks
on small instances; liveness is model-checked only.

## 1. Inventory of the system

| part | state it keeps | operations | talks to |
|---|---|---|---|
| **Scheduler core** `sched/core.rs`, `ids.rs` | sessions (state, inflight tickets, `in_ready`), ready queue, ticket map, id counters | create_session, block, wake, submit, complete, cancel, finish, fail, step, requeue | returns effects (Dispatch, Cancel, Wake, Finished, Failed) to its driver |
| **Residency manager** `sched/residency.rs` | pool byte counters, entries (state, bytes, waiters, lease count, last touch), loads, leases, generation counters | begin_load, complete_load, cancel_waiter, acquire, release, evict | sessions and the loader call it; Accel pins through it |
| **CPU executor** `sched/executor.rs` | mutex-protected queue, condition variable, shutdown flag, parked reports, Completed records | try_submit_job, cancel_ticket, drain_completed, shutdown; worker loop | the runtime submits and cancels; workers send into the runtime's command channel |
| **Scheduler runtime** `sched/runtime.rs` | the core, backpressure queue, draining flag, executor lanes, bounded command channel | one handler per command, retry_pending, shutdown in two modes | frontends (commands), executors (try_submit/try_cancel, completions) |
| **Accelerator contract** `sched/accel.rs` | leases retained by each ticket | submit (pin, then ticket), complete (unpin, then core), cancel_ticket | core and residency manager |
| **Scheduled Qwen driver** `logan-qwen4/src/scheduled.rs` | completion log, residency bridge, one worker behind two lanes; in the model: paused step, expert store | demand-load loop: submit, NeedExperts, load, resubmit; shutdown | runtime, Qwen4 model, expert store |
| **Multi-token decoding** `logan-qwen4/src/plan/prefix_runtime.rs`, `lib.rs` | output, recurrent state, attention rows, drafter rows | prefill, draft, verify, commit a boundary | Qwen4 model |
| **Chat worker** `logan-chat/src/engine.rs`, `logan-qwen4/src/plan/prefix_cache.rs` | history, consumed count, logits, RAM snapshots, prefix files | run_turn, run_prompt, reset, clear | daemon and terminal; the file system |
| **Dense engine and prefix cache** `logan-chat/src/engine.rs`, `logan-core/src/prefix`, `logan-llama` | session with key/value rows and a device copy, RAM cache, SSD index, files | generate_stream, lookup_prefix, store_prefix, rebuild at start | daemon; the file system |
| **DSpark** `logan-llama/src/dspark` | target session, history, drafter window, anchor, checkpoints | prefill, propose, verify_block, checkpoint, restore | dense session |
| **Daemon** `logand/src/main.rs` | controls, engine handle, snapshot; per worker commands, events, cancel flag | HTTP handlers, supervisor loop, worker loop | clients, chat worker or dense engine |
| Transactions and snapshots `logan-core/src/state` | checkpoints and a generation; codecs | begin, commit, rollback | no caller of the transaction manager outside its tests |
| Device registry, simulators | a table; a seeded schedule | register, get; random driving | Accel; tests |
| The rest | backends (`logan-metal`, `logan-ane`, CUDA, math), kernels of the engines, compiler and formats, terminal UI, pool client | numeric code, file formats, I/O | |

What makes each part correct, and what is hard about it:

* **Core.** The ready queue, the `in_ready` bits, the per-session ticket lists and
  the ticket map are four views of two relations, updated by ten methods in any
  order, with completions that arrive late, twice, or after cancellation. A driver
  that believes a ticket outstanding must hear of it exactly once.
* **Residency.** A hard budget while loads are in flight; leases that pin one
  generation; loads shared by several waiters; stale and duplicate completions.
* **Executor.** A condition variable, a flag that is set without the lock, and a
  completion channel that may be full when a worker reports.
* **Runtime.** Backpressure without polling: pending work is only retried when
  something happens, so something must always be about to happen.
* **Accel.** The backend reads memory after its session is gone; only the native
  completion may unpin it.
* **Decoders.** Greedy decoding is the specification: speculation, pauses,
  demand loading and cached prefixes may change when work is done, never the
  text. State without positions (recurrent layers, the device's rows) cannot be
  repaired by overwriting, so every rejected or abandoned piece of work must be
  undone exactly.
* **Caches.** Two levels, each with its own idea of what is held; files appear,
  vanish and break under the reader; index, budget and directory are updated in
  separate steps and the process may die between them.
* **Daemon.** Status is written by controls going one way and by events coming
  back; workers are replaced while they still run; each request waits on a channel
  of its own.

## 2. Modules

| module | models | notes |
|---|---|---|
| `Queues` | `VecDeque::retain` on a queue without duplicates, of one element (`Retain`) or of a set (`Without`) | shared |
| `Tally` | sums of sizes | shared by `ResidencyOps`, `ChatWorker` and `DenseEngine`; a sum is a number of cells, so that it can be reasoned about without induction |
| `SchedCoreOps` | the methods of `SchedulerCore` as operators on a record, and the variable `core` that holds one | used by three specifications |
| `SchedulerCore` | the core with any driver | the driver's view (`dispatched`, `held`, `reported`) is part of the state, since core.rs is a contract with it |
| `ResidencyOps`, `ResidencyManager` | residency.rs, with sessions and a loader | `recency` replaces the touch clock by its order; the variable `mgr` is shared with `Accel` |
| `ExecutorLane` | the `BoundedExecutor` contract | abstract |
| `CpuExecutor` | executor.rs at the grain of lock acquisitions | refines `ExecutorLane` |
| `SchedulerRuntime` | `RuntimeLoop` with lanes that follow `ExecutorLane` | composes `SchedCoreOps`; its specification is `RuntimeSpec` |
| `Accel` | accel.rs composed with core and residency manager | composes `SchedCoreOps` and `ResidencyOps`; `AccelSpec` |
| `GreedyCall` | the arguments of a greedy call: prompt and max_new | the variables the next two share |
| `ScheduledQwen` | run_greedy_scheduled: driver, scheduler thread, model worker | bounded command channel, expert store; `ScheduledSpec` |
| `MtpDecode` | run_greedy_mtp | |
| `ChatWorker` | the Qwen4 chat worker and its prefix files | |
| `DenseSession` | a dense session and its key/value cache | operators, used by the next two |
| `DenseEngine` | the dense chat engine and the prefix cache of logan-core | crash and restart |
| `Dspark` | DsparkSession and its greedy verifier | `DsparkSpec` |
| `Daemon` | HTTP handlers, supervisor, engine workers | |
| `HelperProofs` | lemmas on queues and sums | used by the proofs below |
| `SchedulerProofs` | theorems on `SchedulerCore` and `SchedulerRuntime` | section 6 |
| `ResidencyProofs` | theorems on `ResidencyManager` and `Accel` | |
| `CpuExecutorProofs`, `ChatProofs`, `DaemonProofs` | theorems on the module of that name | |
| `MtpProofs` | theorems on `MtpDecode` and `ScheduledQwen` | |
| `DenseProofs` | theorems on `Dspark` and `DenseEngine` | |
| `MC*` | constants for TLC | |

Four proof modules treat two specifications each, because the lemmas on what the
two share (the core, the manager, a dense session, texts) serve both. Where two
specifications meet in this way the second one's `Init`, `Next` and `Spec` carry its
name (`RuntimeInit`, `AccelNext`, `DsparkSpec` and so on), and what they share is
one variable declared once: `core`, `mgr`, `prompt` and `maxNew`.

`PROJECT.json` maps each definition to the lines it stands for. Definitions with
`_M` in their name are mutants: the definition that follows with one plausible
slip (a dropped guard, an off-by-one, a forgotten update). They are not used by
any specification; replacing the definition by its mutant makes the property
named in `PROJECT.json` fail, which shows that the property depends on that code.

### Correspondence and abstractions

* **Core.** A method is one action. A session's `Vec<Ticket>` is a set: only the
  order of Cancel effects depends on its order, and they commute. The generation
  stored with a ticket equals the ticket and is never read. A call that returns an
  error changes nothing and is not an action. `DoComplete` accepts any issued
  ticket at any time, with either outcome.
* **Residency.** Keys have a pool and nothing else. Telemetry counters are left
  out. `ensure_space`'s loop of single evictions is one set (`Victims`): the
  least recently used evictable entries that make enough room, or all of them when
  that is not enough (the evictions stay although begin_load then fails). Failed,
  partial and cancelled loads have the same effect on the state. Pools are
  registered before anything else happens. `Touch`, `Acquire` and `Release` are for one
  key or lease; `Accel`'s `Acquires` and `Releases` apply them one after the other.
* **Executor.** `pc` is the worker's place in `worker_loop`. The test of
  `shutting_down` and the start of the wait are two steps with the lock held in
  between (`LockFree`); that gap is where a notification without the lock is lost.
  The eight attempts of `report_to_sink` are one step. The scheduler thread is in
  at most one call (`owner`). Its receiver may disappear (`DropReceiver`), as when
  the thread ends. Handlers return.
* **Runtime.** `phase` is what the thread is doing: blocked in `recv`, draining a
  burst, inside `retry_pending` (one step per offer, since workers take jobs
  between offers), shutting down session by session, joining, stopped. Commands of
  frontends appear when they are handled; completions are in `reports` from the
  moment an executor sends or parks them, and those in the channel arrive in any
  order. Whether a report finds room in the channel is a choice, since the channel's
  slots are shared with frontends. One that does not is also in `parked`: it is
  offered to the channel again when a worker of its lane finishes another job, and
  by nothing else (executor.rs:335-359). The Cancel
  effects of one command are applied in one step; with one job per lane queue, as
  in the runs, this loses no schedule, because a claim between two of them is the
  same as a claim before the first. `HandleComplete` is for work that was started:
  the executor's report, a copy of it, or a frontend's word ahead of it. Replies
  are left out. `hole` is a history variable: lanes from which try_cancel took a
  queued job since pending work was last offered to them.
* **Accel.** A submission that fails midway releases what it had pinned; touches
  and lease ids stay used. `Completion` keeps the early return of a failed release.
  The driver's cancel_ticket is part of `Lifecycle` and changes nothing, as in the
  code. `native` and `reads` are what the backend still does and with which
  generations.
* **ScheduledQwen.** The driver is the runtime's only frontend and has one ticket
  out at a time, so of the scheduler only that much is kept; the other modules have
  the rest. `applied` is, for the PLE ring and for each layer, the tokens it has
  applied; the model's answer is a function of all of them (`Model`), so that a
  token a single layer applies twice changes the text. Routing is chosen when a
  layer is first reached and kept across a pause. `Canonical` is the decoder without a
  scheduler; `Due` is the operation the driver submits next, a load or a feed. Load, tail and forward may fail
  where the code returns an error. `faulted` is a history variable. The worker does
  not panic (section 7).
* **MtpDecode.** The recurrent state is the sequence of tokens it has consumed, the
  attention rows are a function of positions in which rejected rows stay. The
  drafter guesses anything. The live recurrent state after verification is either
  untouched or advanced: the code has both paths.
* **ChatWorker.** The model's state is the sequence of tokens it has consumed, or
  `Torn`; logits are the tokens they follow. A sampled token is arbitrary, the
  cancel flag may be found set at each of its checks. The size of a snapshot depends
  on the length of its prefix (`Bytes`). A file whose prefix is longer than the
  context is refused (`Restorable`). The worker is one thread; what interleaves is
  the file system. A temporary file a crash leaves behind is
  dropped from the state, since no reader ever opens one.
* **DenseSession, DenseEngine, Dspark.** A row of keys and values is its token. The
  device's copy is a sequence of its own, extended by the fused path and dropped
  where the code drops it; the fused path is taken whenever the *lengths* agree, as
  in the code. Generations wrap at `Generations` (2^64 in the code; 1 for the
  engine, which never restores a checkpoint, so that they do not multiply states).
  A cache of the dense engine is its recency order (`lru`, least recent first), a
  value for each key, and the byte total it keeps. `Evictions` is the set of keys the
  loop of `insert_with_evictions` takes from the front of that order. Files are removed
  one step at a time after the index has forgotten them (`doomed`), and a restart reads
  the directory file by file, in any order (`unread`, `RebuildEntry`), so that a crash
  may fall between any two. A store creates a temporary file (`CreateTemp`, in
  `temps`) and renames it (`Write`); a crash between the two, or a failed write,
  leaves it there, and no step removes it. A start with SSD budget 0 has no store:
  it reads, writes and removes nothing, and the files of earlier runs stay. A sampled
  token is any one of `Sampled`.
* **Dspark, further.** A session begins with an empty target (`new`) or with one that
  already holds `base` rows, of which its mirrors know nothing (`from_target`).
  Callers keep every checkpoint they took and restore them in any order, so the
  stale-checkpoint branch is reached, and so is a restore that the cache should have
  refused. `left` (of a checkpoint) and `astray` (of the session) are history
  variables that tell the latter. Callers ask for `DraftCounts` drafts.
  `commit_verification` and `target_mut` are called by nobody and are not modelled:
  each changes one side of target and mirrors without the other.
* **Daemon.** Channels are sequences, the snapshot is its status, whether it shows
  "cancelling", and its model, which stands for name and path; a Ready event shows
  `loadedPath`, as in the code. A protocol request looks at the snapshot twice and
  then sends: it is admitted, rendered and queued in three steps (`Admit`, `Render`,
  `Queue`), between which the supervisor may act. A worker that is no longer
  held sends into a channel without receiver. What a request computes is `ChatWorker`'s subject; here it is a
  number of tokens. A worker panics at any point of loading or of a request.

## 3. Runs

Times are on two cores. "Live" marks liveness properties. `TypeOK` is
in the modules where the state is worth typing. It is in no run: where there are
proofs it is proved, as part of the inductive invariant (section 6).

| run | instance | checks | result |
|---|---|---|---|
| `core` | 3 sessions, 3 tickets, budget 2 | CoreConsistent, BudgetKept, DispatchMatchesInflight, TerminalReported, NoSessionLost, LifecycleForward, TicketConsumedOnce, FifoOrder; live: QueuedEventuallyRuns, BlockedEventuallyLeaves | holds, 12 635 states, 50 s |
| `residency` | 3 keys of size 1 or 2, one pool of 3, 2 waiters, 3 loads, 3 leases | AccountingExact (with the hard budget), LeasePinsGeneration, GenerationsFresh, EvictsLeastRecent; live: WaitersWoken | holds, 74 279 states, 65 s |
| `cpu_executor` | 2 workers, queue of 2, channel of 1, 3 jobs (runtime job; runtime job with leases; job without sink) | ReportedOnce, LeasesHandedBackOnce, ImplementsLane; live: QueuedEventuallyTaken | holds, 180 677 states, 40 s |
| `cpu_shutdown` | as `cpu_executor` | live: ShutdownCompletes | **violated** |
| `runtime` | one lane of capacity 1 that may close, 2 sessions, 3 tickets, budget 2 | LiveTicketsHeld, BackpressureWatched, ShutdownClean; live: DrainCompletes | holds, 309 322 states, 110 s |
| `accel` | 2 sessions, 2 tickets, 2 keys, a pool that holds both, evictions at any time, 3 loads, 4 leases | BackendReadsPinned, PinsAccounted | holds, 409 297 states, 50 s |
| `mtp` | 2 tokens, blocks of up to 4, every max_new up to 7, a context of 7 that can overflow | SpeculationIsGreedy, BoundaryExact; live: ReturnsAllTokens | holds, 12 000 states, 3 s |
| `chat` | one conversation, 3 protocol prompts (one the conversation's own, one too long), context 7, RAM for two snapshots, 4 requests, 2 faults | StateMatchesHistory, DecodesFromPrompt, CachesExact | holds, 4.5 million states, 90 s |
| `daemon` | 2 packages, 1 protocol request, bounded operator controls | SnapshotNamesEngine, SettledWhenQuiet; live: EveryRequestAnswered | holds, 188 000 states, 25 s |
| `dense` | 3 prompts, chunks of 2, RAM for one entry, SSD budgets 0, 3 and 7, 2 crashes, 2 faults | DecodeSeesPrompt, CachesWithinBudget | holds, 3.6 million states, 75 s |
| `dspark` | 3 tokens, one of them EOS, 3 prompts, an empty or a used target, blocks of up to 2 drafts, caps 0, 1, 2 and 9, 4 positions, 2 checkpoints | MirrorsFollowCache, VerifiedIsGreedy | holds, 478 000 states, 60 s |
| `scheduled` | 2 layers of 3 experts, top-2, a store of 2 (divided by layer or not), command channel of 3, 5 calls | ScheduledIsGreedy; live: CallReturns | holds, 921 000 states, 65 s |

Deadlock checking is off where the system stops for good: the executor, the runtime
and the scheduled decoder after their shutdown. Everywhere else it is on.

What the runs of the engines show, in a sentence each:

* `mtp`: every token is the one the target alone would have chosen, and committing
  the boundary of the last correct row is enough; neither a snapshot nor a replay
  is needed, and the final `truncate` never cuts anything.
* `scheduled`: a pause in the middle of a layer and any number of evictions do not
  apply a token twice. A store as large as the top-k is enough for the loop to end,
  because `insert` evicts the least recently used expert and a hit promotes; a
  smaller one would exchange the same experts for ever, which is why
  `ScheduledAssumption` demands `StoreCap >= TopK`. Three slots in the command
  channel are enough: with two the worker's completions can crowd out the driver's
  request, which is then rejected (the code has 64).
* `chat`: no failed restore, cleared directory or crash leaves state of other
  tokens behind.
* `runtime`: a drain ends unless pending work waits behind a job that was cancelled,
  or a report is parked in a lane whose workers have nothing left to do.
* `dense`: after a crash between any two steps of a store, and a restart with a
  smaller budget that is not 0, entries and index agree again. Temporary files are
  not entries: each crash and each failed write leaves at most one, for good.
* `dspark`: the mirrors stay in step whichever checkpoint is restored or refused,
  with one exception, a restore of a checkpoint of a branch that was left and that
  the cache takes for one of the present branch (section 7).
* `daemon`: status and answers survive replacement, panics and resets in any order,
  also between the checks a request makes before it is sent.

### Bounds, and why they are enough to be interesting

Counters that only grow (sessions, tickets, loads, leases) are bounded in the
guards by `MaxSessions`, `MaxTickets`, `MaxLoads` and `MaxLeases`. Three tickets
and a budget of two let one session reach its limit while another owns a ticket,
fail with a sibling ticket alive, and complete in either order. A pool of three
bytes holds either one of each size or three small experts, so loads evict, are
refused while others hold reservations, and reload evicted keys. A channel of one
slot makes reports park; a queue of two and two workers make notifications go to
the wrong worker. A lane of capacity one with one worker and three tickets has a
job running, one queued and one backpressured at once.

In the engines, prompts that extend one another and one that shares nothing make
hits of every length; budgets hold one or two entries so that each store evicts;
answers of the target are fixed functions that separate histories a wrong step
would confuse, and guesses are arbitrary. Blocks of two or four drafts allow none,
some or all to be accepted. Two crashes let a restart meet what an earlier restart
left; two faults combine a damaged file with a failed operation. `MaxRequests`,
`MaxControls`, `MaxTokens`, `MaxSaved`, `MaxCrashes` and `MaxFaults` are bounds of
the models, not of the code. One case no run reaches: prefix files of other
processes in the `chat` run are no longer than the context, since longer ones make
it too large; the proofs cover them.

## 4. Fairness

* **Core** (`FairSpec`): what its loop owes it. It keeps calling `step`, gives back
  each session `step` handed out (requeue, block, finish or fail), and every
  dispatched ticket is reported. No fairness on creation, submission or wake.
* **Residency**: the loader reports each load. Sessions owe nothing.
* **Executor**: each worker thread that can run does; a call the scheduler thread
  is in proceeds; it keeps taking commands. No fairness on spurious wakeups: the
  platform may produce none.
* **Runtime**: the thread goes on, each lane starts and finishes jobs. Strong
  fairness for "the channel has run empty", which frontends do not prevent for ever,
  and for taking the reports that are in the channel, a FIFO queue (`Arrives`); it is
  strong because nothing is received during a retry. Nothing is assumed of a parked
  report: it reaches the channel only as part of a later job's end, and may find it
  full again. No frontend has to send anything, and nothing sends `ExecutorReady`.
* **ScheduledQwen**: each of the three threads keeps running. The worker's retry on
  a full channel is the wait for `Room`.
* **MtpDecode**: the call goes on; nothing says that it does not fail.
* **Daemon**: the supervisor polls for ever, each worker's current step ends, and the
  handler of a request that was admitted goes on (`Render`, `Queue`). No
  fairness on clients, operators, panics or failures.

## 5. Refinement

`ExecutorLane` is what the runtime assumes of an executor: a bounded FIFO queue
that takes each ticket once, loses a queued ticket only to a cancellation, and
sends each started ticket's completion at most once. `CpuExecutor` implements it
under the mapping at the end of the module (`ImplementsLane`, checked by TLC and
proved for any number of workers, jobs and slots, section 6): a
ticket is *started* from the claim by a worker until its completion enters the
channel, the time it is parked or being resent included. `SchedulerRuntime`'s lanes
take the steps of `ExecutorLane`, with a bound on running jobs.

## 6. Proofs

Each theorem below is proved for every value of the constants; the run of the same
component shows it on one instance.

| module | theorem | states | inductive invariant |
|---|---|---|---|
| `SchedulerProofs` | `TypeCorrect`, `Consistent`, `DispatchAccounted`, `TerminalEffects`, `SessionsKept`, `BudgetRespected`, `Lifecycle`, `TicketsOnce`, `QueueOrder` | `TypeOK` and all of the core's safety properties | `IInv` |
| | `RuntimeTypes`, `TicketsHeld`, `Backpressure`, `ShutdownIsClean` | `RuntimeTypeOK`, `LiveTicketsHeld`, `BackpressureWatched`, `ShutdownClean` | `RuntimeInv` |
| `ResidencyProofs` | `Accounting`, `LeasePins`, `Generations`, `LeastRecentFirst` | `AccountingExact`, `LeasePinsGeneration`, `GenerationsFresh`, `EvictsLeastRecent` | `ResidencyInv`, and `Listed` for the last |
| | `ReadsPinned`, `PinsCounted` | `BackendReadsPinned`, `PinsAccounted` | `AccelInv` |
| `CpuExecutorProofs` | `Reported`, `LeasesBack`, `Implements` | `ReportedOnce`, `LeasesHandedBackOnce`, `ImplementsLane` | `ExecutorInv` |
| `MtpProofs` | `Greedy`, `Boundary` | `SpeculationIsGreedy`, `BoundaryExact` | `MtpInv` |
| | `ScheduledGreedy` | `ScheduledIsGreedy` | `ScheduledInv` |
| `ChatProofs` | `StateExact`, `Decodes`, `Caches` | `StateMatchesHistory`, `DecodesFromPrompt`, `CachesExact` | `ChatInv` |
| `DenseProofs` | `MirrorsFollow`, `BlocksAreGreedy` | `MirrorsFollowCache`, `VerifiedIsGreedy` | `DsparkInv` |
| | `RepliesSeePrompt`, `BudgetsKept` | `DecodeSeesPrompt`, `CachesWithinBudget` | `EngineInv` |
| `DaemonProofs` | `NamesEngine`, `Settles` | `SnapshotNamesEngine`, `SettledWhenQuiet` | `DaemonInv` |

### The arguments

**Helpers.** `Retain` and `Append` on a queue without duplicates are described by
membership, and everything above but `QueueOrder` speaks of membership only. A sum
(`Tally`) is the cardinality of a set of cells, one column per entry; that a sum
over a disjoint union is the sum of the sums, and that it changes by one entry's
size when one entry changes, then follows from the cardinality theorems for finite
sets. A fold would need an induction over the entries. Where an induction cannot be
avoided it is a least counterexample (`LeastNatural`); so is the proof that a function
defined by recursion on the natural numbers exists and satisfies its equation.

**Core.** One lemma per method: from a well-typed and consistent core it returns one
(`Good`), and says which fields of which session it changed. Consistency of the core
alone is inductive. `IInv` adds the driver's view: `DispatchMatchesInflight`,
`TerminalReported`, `NoSessionLost`. None of them is inductive without
`CoreConsistent`: that the revoked tickets are exactly those the driver is told to
cancel needs the lists and the map to agree, and that a woken session is queued
needs the `in_ready` bit to be right. The same case split yields `StepOK`, from which
the action properties follow. `QueueOrder` (`FifoOrder`) adds that each step does one
of four things to the ready queue (`Advances`): nothing, a `Retain`, a push of a
session that is not queued, or a cut at the front; none of them lets a session
overtake another (`AdvancesInOrder`), given that the queue has no duplicates.

**Runtime.** `RuntimeInv` starts from `Good(core)`, so that the core's method lemmas
apply. `TicketsPlaced` says where each ticket is: pending, in the queue of a lane of its
kind, running, reported, and in one of these only. It is stated for a record of the
state (`Here`) and a set of tickets in the hands of the handler, because a command
passes through states that are not reachable ones: a ticket is issued before it is
offered to a lane, and the Cancel effects of a dying session are applied one by one.
The inductive form of `BackpressureWatched` is `Watched`, in which any report of the
lane counts, a parked one included: a step may park the very report that watches
pending work. The property follows, since a lane whose only watcher is a parked report
is `Stranded`. `Watched` is inductive only with `RetryCursor`: retry_pending leaves no
request of an open lane behind its cursor, so that when the lane refuses an offer, and
the lane is therefore full, everything left pending is watched. `ShutdownPath` says how
far a shutdown has come: sessions below the cursor are terminal, and a drain has
reached quiescence before it stops anything; that the lanes are then empty follows from
`TicketsPlaced`, since what is queued is live and a terminal session owns nothing.

**Residency manager.** `ResidencyInv` is, for the manager together with what sessions
hold, `Typed`, `Accounted` for each pool, `Leased` (leases, pin counts and
generations of resident entries agree) and `Fresh` (generations already published
are below the counter). The accounting needs the leases: only an unpinned resident
entry is evicted, so eviction takes nothing off the pinned sum, and the saturating
subtractions never saturate. Which entries `recency` picks for eviction does not
matter to these three theorems. `LeastRecentFirst` is about nothing else: it needs
that the order of touches lists every resident key, and none twice (`Listed`), since
the position of a key that is not listed would be arbitrary. `Without` is therefore
written with the place of each kept position among the kept ones, which
`PlaceOf` and `PlaceUnique` show to be a bijection.

**Accel.** `AccelInv` is the manager's own invariant (`Books`) for the leases that are
out (`Outstanding`): those in tickets' records and those that loads handed to their
waiters. So each lemma on a method of the manager is used as it is. What it adds is
that a lease is in one place only (`RecordsApart`), without which giving back one
record's leases could unpin what another reads; that a record's leases are on what the
backend reads (`ReadsLeased`); and that a live ticket has a record and was issued by
the core (`TicketsOut`), so that a new ticket's record is empty. Acquisitions of one
submission follow one another, and one that fails is undone: the states in between
satisfy the same invariant with the leases pinned so far added to `Outstanding`, and
the number of those leases is the induction (`LeastNatural`).

**Executor.** A ticket is in at most one of six places: queue, a worker's hands, a
worker's list of reports to resend, the parked reports, the channel, received
(`Placed`), and in no place twice (`Unique`). `Threads` ties a worker's position to
what it holds; `Landings` counts Completed records, which are written when the
handler has returned and before the report, so the count depends on the position as
well as on the place. Each step moves at most one ticket from one place to the next;
receiving, resending and parking are the only ones that lengthen a report's way.
For the refinement each step is shown to be `Accept`, `Revoke`, `Start` or `Send` of
`ExecutorLane` under the mapping, or a stutter; `Send` needs that the ticket is not
also elsewhere, which is `Placed`. The liveness part of `ExecutorLane` is not
claimed.

**Multi-token decoding.** `MtpInv` says for each position of the loop what the rows,
the boundaries captured by `Verify` and the logits are: those of the text extended by
the guesses, row by row. The least rejected row (`LeastNatural`) separates guesses
that equal the target's choice from the first that does not; up to it the state of
the guessed text is that of the accepted text, so committing its boundary is exact.

**Scheduled decoding.** The driver has one operation out at a time. `Operation` says
where it is: with the driver, in the command channel, in the lane's queue, at the
worker, or in the completion log, and for each place what the layers have applied.
Between two operations either nothing of the due token is applied, or the step is paused
at a layer and exactly the layers up to it have applied it (`Between`, `Paused`); in the
worker's hands the position in the layers says the same (`InLayers`); a token in the log
is the canonical one after the whole history (`Fits`). `ScheduledIsGreedy` is not
inductive without the place of the operation: a second copy of a submission, or a late
log entry of an earlier ticket, would apply a token twice. `Pace` ties the step counter
to prompt and output. Once the driver has given up or is done (`Over`) nothing more is
claimed of the worker, which may still be running.

**Chat worker.** `Located` places the model in the history: outside a pending recovery
the state is that of the consumed prefix, and logits, when there are any, follow the
whole of it. `Asked` says that a prompt under evaluation always has something left to
consume or its logits at hand, which is what lets a full hit skip the evaluation.
`Chosen` keeps the candidate file a strict prefix between lookup and restore, while
the directory may change. `Cached` and `Stored` are needed for the first: a restored
state is right because entries and whole files hold the state of their key.

**DSpark.** The mirrors are functions of the target's rows, so `MirrorsFollowCache` is
nearly inductive; a restore needs `SavedHold`: each checkpoint that has not been left
goes back to a prefix of the present rows, and its mirrors are those of the rows of
that prefix that came after `base`; of one that has been left it is only claimed that
it does not go back behind `base`. No order among the checkpoints is needed: a restore
cuts the rows, and the checkpoints that went further are exactly those it marks
(`SavedCut`). The device's rows are none or the session's
(`GpuFollows`), which forward, restore and truncation keep. For `VerifiedIsGreedy` the
number of accepted drafts is the length of the longest prefix that agrees with the
target (`LeastNatural` gives the first disagreement), capped and cut at an EOS; up to it
the rows of the block are the rows of the greedy text.

**Dense engine.** `RequestHolds` says for each position of a request what the session
holds: the part of the prompt fed so far, then the prompt and what was said; a candidate
is a strict prefix of the prompt between lookup and read. It rests on `RamHolds` and
`FilesHold`: what a cache stores under a key are the rows of that key, damaged files
included, whose form shows the damage. `CacheBooks` says that the recency order lists
exactly the keys with a value and that the total is the sum of their sizes: the
evictions make room because of both. `DirectoryFollows` says how the directory and the
index differ while a store or a rebuild is under way: by the files still to be removed,
the one not yet written, and those not yet read; it claims nothing of a run with SSD
budget 0. `Leftovers` is about the temporary files alone: those that exist are at most
one for each crash and fault so far, and one for the write under way. Most steps have
no part in it (`OffDisk`).

**Daemon.** `SnapshotNamesEngine` is inductive with the types and the fact that the
supervisor's `loadedPath` is the model it shows, which a Ready event relies on.
`SettledWhenQuiet` is not: it needs what a free worker leaves behind, that its last event still in the
channel, or else the status already shown, is a final one (`WillSettle`).

### Assumptions

They are the `ASSUME`s of the modules, which TLC evaluates in each run:
`CoreConstants` (the bounds are natural numbers); `RuntimeConstants` (each lane appears
once in the order of retries, lanes have room for one job and one worker); `ResidencyConstants` (finitely many
experts and waiters, budgets are natural numbers), `SizeAssumption` and
`AccelConstants` (a submission names a sequence of experts); `ExecutorConstants` (at least one
worker, which executor.rs:126 enforces, and positive capacities); `MtpAssumption`
(prompts fit the context, the target answers with a token of the vocabulary; nothing
is assumed of the drafter); `ScheduledAssumption` (at least one layer and a route; the
store holds the top-k, which only liveness needs); `SessionAssumption`,
`DsparkAssumption` and `EngineAssumption` (prompts are non-empty texts, those of the
engine fit the context, finitely many of them; the target answers with a token; sizes
and budgets are natural numbers); `ChatAssumption` (prompts are non-empty texts over the
tokens, sizes are natural numbers); `DaemonAssumption`.

### Only model-checked

The liveness properties, `QueuedEventuallyRuns`, `BlockedEventuallyLeaves`,
`WaitersWoken`, `QueuedEventuallyTaken`, `DrainCompletes`, `ReturnsAllTokens`,
`EveryRequestAnswered` and `CallReturns`, and the violated `ShutdownCompletes`: fairness
and ENABLED are out of the prover's reach. Every invariant and every action property of
a passing run is proved.

## 7. Observations

Beside the violated run `cpu_shutdown` (`CpuExecutor::shutdown` stores the flag and
notifies without the queue lock, executor.rs:236-237; a worker that has read the
flag as false and is about to wait misses the notification, and `join` never
returns), modelling the code showed places where it differs from what is written
about it, or where a property holds only with an exception:

* **Parked reports.** A report parked because the command channel was full
  (executor.rs:335) is retried only when a worker starts another iteration. If all
  workers go idle it is not delivered although the channel has long been empty, and
  a drain waits for it (`Stranded`).
* **Pending work behind a cancelled job.** Cancel, Finish and Fail may take a queued
  job out of a lane (runtime.rs:492-519) but do not retry pending work; when nothing
  of the lane is running, backpressured work, and a drain waiting for it, is stuck.
  `BackpressureWatched` and `DrainCompletes` show that this (`hole`) and a stranded
  report are the only ways.
* **A panic of the model worker.** The driver of the scheduled decoder waits for a log
  entry that only the worker writes (scheduled.rs:130-138). If the worker panicked the
  driver would wait for ever; the model has no such step.
* **Retries.** The header of runtime.rs says that backpressured work is retried only
  after `ExecutorReady`; every completion retries it (488-490). The code is right.
* **Retained leases.** The comment on `Accel::inflight` (accel.rs:99) says that
  `cancel_ticket` removes leases; it deliberately does not (211), and
  `BackendReadsPinned` needs that.
* **MTP rejection.** The comment at prefix_runtime.rs:290-293 describes a snapshot
  and a replay after a rejection; the code commits the captured boundary instead
  (377-383), which `BoundaryExact` shows to be the same.
* **Protocol requests and the conversation.** logan-chat/README.md:83 calls protocol
  requests stateless with respect to the conversation. run_prompt replaces the
  history and the model's state (engine.rs:1869-1872) and leaves `turns` alone, so a
  later turn continues after the protocol request's text.
* **Cancellation before the start.** The worker clears the cancel flag when it takes
  a request (engine.rs:233, 272), and so does the supervisor for the next one
  (main.rs:2107): a cancel that arrives while the request is queued is lost,
  although the snapshot says "Cancelling after current token" (main.rs:2028).
* **Truncated prefix files.** A lookup treats a missing or corrupt file as a miss
  (prefix/runtime.rs:106-113), but a truncated one is `UnexpectedEof`, which fails
  the request; `ReadFails` has both.
* **Checkpoints of an abandoned branch.** kv.rs:127-129 says that generation and
  length together identify a checkpoint. restore takes the generation back (153), so
  after another commit of the same length a checkpoint of the abandoned branch is
  accepted again and restores the wrong rows. `Dspark` reaches this, and
  `MirrorsFollowCache` excepts it (`astray`). No code of the repository keeps such a
  checkpoint.
* **What no budget counts.** A temporary file left by a crash or a failed write
  (disk.rs:46-60) is skipped by the scan (89) and never removed; a start with SSD
  budget 0 has no store (prefix/runtime.rs:67) and does not look at the directory
  (193), so the entries of earlier runs stay. `CachesWithinBudget` bounds the former
  by crashes and faults and excepts the latter.
* **The anchor after prefill.** DsparkSession::prefill forwards the prompt and makes
  its last token the anchor; verify_block forwards the anchor again. The block's
  predictions then follow the prompt with its last token doubled; `VerifiedIsGreedy`
  is about the text the target's rows hold, the repeated anchor included.
* **Oversized prefix files.** That `consumed` stays within the context is needed for
  `CachesExact` and rests on one check, `validate_key_for_model`
  (prefix_cache.rs:420-431), which refuses a file of another process that is longer
  than this model's context; without it the invariant of `ChatProofs` is not
  inductive at `Restore`.

## 8. Not modelled

Numeric kernels, weight loading, backends (except the life cycle of the device's
rows), model compiler and file formats: floating-point data and sequential
conversion without shared state, which is most of the repository's lines. Terminal
user interface, HTTP encoding, metrics and logs: input and output. Stochastic
acceptance of drafts: probabilities. The device registry, the simulators and the
transaction manager: tables, test drivers, and code without callers. The pool
client: one request at a time. Known hazards without a property are listed in
`PROJECT.json` with the reason.

## 9. Plan

1. *Done*: core, residency manager, executor, runtime, Accel; the core proved.
2. *Done*: the scheduled decoder, multi-token and DSpark speculation, chat worker,
   dense engine with the prefix cache, daemon.
3. *Done*: multi-token decoding, daemon, residency manager, chat worker and
   executor proved, the executor's refinement included.
4. *Done*: runtime, Accel, scheduled decoding, DSpark and the dense engine proved: no
   safety property of a run is left to TLC alone.
5. *Done*: the parked reports of the executor in the composition with the runtime,
   the temporary files of the dense engine, checkpoints of abandoned branches.
6. Worth adding: a capacity of the command channel that frontends and executors
   share, and the replies to frontends, which would turn the choice of whether a
   report finds room into a consequence.
