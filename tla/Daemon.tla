-------------------------------- MODULE Daemon ------------------------------
(***************************************************************************)
(* The daemon logand (logand/src/main.rs): HTTP handlers that send control *)
(* messages, the supervisor thread that owns the engine and the published  *)
(* snapshot, and the engine workers it spawns (logan-chat/src/engine.rs,   *)
(* spawn).                                                                 *)
(*                                                                         *)
(* Three kinds of threads meet through channels and one shared flag: a     *)
(* handler reads the snapshot and sends a control, the supervisor turns    *)
(* controls into commands and events into the snapshot, the worker serves  *)
(* commands in order, sends events, and answers protocol requests on a     *)
(* channel of their own.  A worker may fail to load, fail a request, or    *)
(* panic.  What a request computes is ChatWorker's subject: here it        *)
(* produces a number of tokens.                                            *)
(***************************************************************************)
EXTENDS Integers, Sequences

CONSTANTS
  Clients,         \* protocol requests, each made once
  Packages,        \* models that may be loaded
  MaxControls,     \* bound on the operator's controls
  MaxTokens,       \* bound on the tokens of a request
  None

ASSUME DaemonAssumption ==
  /\ None \notin Packages
  /\ {MaxControls, MaxTokens} \subseteq Nat

VARIABLES
  controls,        \* the control channel
  sent,            \* operator controls sent so far
  phase,           \* the supervisor drains "controls", then "events"
  engines,         \* the workers spawned so far, with both channels
  handle,          \* index of the supervisor's EngineHandle, 0 for None
  loadedPath,      \* the supervisor's loaded_path
  snap,            \* DaemonSnapshot: status, whether cancelling, the path of
                   \* the model
  reply            \* how far each protocol request is, or what it received

owned == << handle, loadedPath >>
vars == << controls, sent, phase, engines, owned, snap, reply >>

Control(op, arg) == [op |-> op, arg |-> arg]
Spawned(p) ==
  [package |-> p, at |-> "spawned", commands |-> << >>, events |-> << >>,
   cancel |-> FALSE, current |-> None, left |-> 0]

Init ==
  /\ controls = << >>
  /\ sent = 0
  /\ phase = "controls"
  /\ engines = << >>
  /\ handle = 0 /\ loadedPath = None
  /\ snap = [status |-> "idle", cancelling |-> FALSE, model |-> None]
  /\ reply = [c \in Clients |-> "none"]
-----------------------------------------------------------------------------
(* HTTP handlers                                                           *)

\* send_control: the operator's requests are accepted whatever the state.
Operate(op, arg) ==
  /\ sent < MaxControls
  /\ sent' = sent + 1
  /\ controls' = Append(controls, Control(op, arg))
  /\ UNCHANGED << phase, engines, owned, snap, reply >>

\* chat_completions and responses_create look at the snapshot twice and then
\* send, and the supervisor may act in between.  First require_loaded_model
\* lets the request in, or refuses it at once.
Admit(c) ==
  /\ reply[c] = "none"
  /\ snap.model # None
  /\ snap.status \notin {"loading", "error"}
  /\ reply' = [reply EXCEPT ![c] = "admitted"]
  /\ UNCHANGED << controls, sent, phase, engines, owned, snap >>

\* render_loaded_prompt takes the model of the snapshot, if there still is one.
Render(c) ==
  /\ reply[c] = "admitted"
  /\ reply' = [reply EXCEPT ![c] = IF snap.model = None THEN "error" ELSE "rendered"]
  /\ UNCHANGED << controls, sent, phase, engines, owned, snap >>

\* queue_completion: the reply is awaited on the request's own channel.
Queue(c) ==
  /\ reply[c] = "rendered"
  /\ controls' = Append(controls, Control("complete", c))
  /\ reply' = [reply EXCEPT ![c] = "waiting"]
  /\ UNCHANGED << sent, phase, engines, owned, snap >>
-----------------------------------------------------------------------------
(* Supervisor: controls                                                    *)

\* The supervisor takes the control op from its channel.
Receive(op) ==
  /\ phase = "controls"
  /\ controls # << >>
  /\ Head(controls).op = op
  /\ controls' = Tail(controls)
  /\ UNCHANGED << sent, phase >>

Arg == Head(controls).arg

\* The worker behind the handle no longer receives commands.
Gone == engines[handle].at = "exited"

\* Sending a command to a worker that has exited has no effect.
Post(engine, op, arg) ==
  IF engine.at = "exited"
  THEN engine
  ELSE [engine EXCEPT !.commands = Append(@, Control(op, arg))]

\* The handle is dropped after Shutdown is sent: its events are lost.
Retire(engine) == [Post(engine, "shutdown", None) EXCEPT !.events = << >>]

Load ==
  LET others == IF handle = 0 THEN engines
                ELSE [engines EXCEPT ![handle] = Retire(@)]
  IN  /\ Receive("load")
      /\ engines' = Append(others, Spawned(Arg))
      /\ handle' = Len(engines) + 1 /\ loadedPath' = Arg
      /\ snap' = [status |-> "loading", cancelling |-> FALSE, model |-> Arg]
      /\ UNCHANGED reply

\* A bug: the snapshot still shows the model that is being unloaded.
Unload_MKeepModel ==
  /\ Receive("unload")
  /\ engines' = IF handle = 0 THEN engines
                ELSE [engines EXCEPT ![handle] =
                        [Retire(@) EXCEPT !.cancel = TRUE]]
  /\ handle' = 0 /\ loadedPath' = None
  /\ snap' = [snap EXCEPT !.status = "idle", !.cancelling = FALSE]
  /\ UNCHANGED reply

Unload ==
  /\ Receive("unload")
  /\ engines' = IF handle = 0 THEN engines
                ELSE [engines EXCEPT ![handle] =
                        [Retire(@) EXCEPT !.cancel = TRUE]]
  /\ handle' = 0 /\ loadedPath' = None
  /\ snap' = [status |-> "idle", cancelling |-> FALSE, model |-> None]
  /\ UNCHANGED reply

\* The flag is cleared for the request and for whatever is still running.
Forward(op, arg) ==
  engines' = [engines EXCEPT ![handle] =
                [Post(@, op, arg) EXCEPT !.cancel = FALSE]]

Generate ==
  /\ Receive("generate")
  /\ \/ /\ handle = 0
        /\ UNCHANGED engines
     \/ /\ handle # 0
        /\ Forward("send", None)
  /\ snap' = [snap EXCEPT
       !.status = IF handle = 0 \/ Gone THEN "error" ELSE "generating",
       !.cancelling = FALSE]
  /\ UNCHANGED << owned, reply >>

\* A bug: a request that finds no model is dropped without an answer.
Complete_MSilent ==
  /\ Receive("complete")
  /\ \/ /\ handle = 0
        /\ UNCHANGED << engines, snap, reply >>
     \/ /\ handle # 0
        /\ Forward("complete", Arg)
        /\ IF Gone
           THEN reply' = [reply EXCEPT ![Arg] = "error"] /\ UNCHANGED snap
           ELSE /\ snap' = [snap EXCEPT !.status = "generating",
                                        !.cancelling = FALSE]
                /\ UNCHANGED reply
  /\ UNCHANGED owned

\* A protocol request; without a worker to run it the answer is an error.
Complete ==
  /\ Receive("complete")
  /\ \/ /\ handle = 0
        /\ reply' = [reply EXCEPT ![Arg] = "error"]
        /\ UNCHANGED << engines, snap >>
     \/ /\ handle # 0
        /\ Forward("complete", Arg)
        /\ IF Gone
           THEN reply' = [reply EXCEPT ![Arg] = "error"] /\ UNCHANGED snap
           ELSE /\ snap' = [snap EXCEPT !.status = "generating",
                                        !.cancelling = FALSE]
                /\ UNCHANGED reply
  /\ UNCHANGED owned

Cancel ==
  /\ Receive("cancel")
  /\ \/ /\ handle = 0
        /\ UNCHANGED << engines, snap >>
     \/ /\ handle # 0
        /\ engines' = [engines EXCEPT ![handle].cancel = TRUE]
        /\ snap' = [snap EXCEPT !.cancelling = TRUE]
  /\ UNCHANGED << owned, reply >>

\* Reset and ClearHot: the status changes whether or not the worker is there.
ResetOrClear(op) ==
  /\ Receive(op)
  /\ \/ /\ handle = 0
        /\ snap' = IF op = "clearHot"
                   THEN [snap EXCEPT !.status = "idle", !.cancelling = FALSE]
                   ELSE snap
        /\ UNCHANGED engines
     \/ /\ handle # 0
        /\ engines' = [engines EXCEPT ![handle] =
                         [Post(@, op, None) EXCEPT !.cancel = TRUE]]
        /\ snap' = [snap EXCEPT !.status = "loading", !.cancelling = FALSE]
  /\ UNCHANGED << owned, reply >>

ControlsDrained ==
  /\ phase = "controls"
  /\ controls = << >>
  /\ phase' = "events"
  /\ UNCHANGED << controls, sent, engines, owned, snap, reply >>
-----------------------------------------------------------------------------
(* Supervisor: events                                                      *)

\* A bug: the end of a reset is not shown.
StatusAfter_MReset(event) ==
  CASE event = "loading" -> "loading"
    [] event = "progress" -> "generating"
    [] event \in {"ready", "done"} -> "ready"
    [] event = "reset" -> "loading"
    [] event = "error" -> "error"

\* apply_engine_event: the status each event stands for.
StatusAfter(event) ==
  CASE event = "loading" -> "loading"
    [] event = "progress" -> "generating"
    [] event \in {"ready", "done", "reset"} -> "ready"
    [] event = "error" -> "error"

Pending == IF handle = 0 THEN << >> ELSE engines[handle].events

ApplyEvent ==
  /\ phase = "events"
  /\ Pending # << >>
  /\ engines' = [engines EXCEPT ![handle].events = Tail(@)]
  /\ snap' = [status |-> StatusAfter(Head(Pending)), cancelling |-> FALSE,
              model |-> IF Head(Pending) = "ready"
                        THEN loadedPath ELSE snap.model]
  /\ UNCHANGED << controls, sent, phase, owned, reply >>

EventsDrained ==
  /\ phase = "events"
  /\ Pending = << >>
  /\ phase' = "controls"
  /\ UNCHANGED << controls, sent, engines, owned, snap, reply >>
-----------------------------------------------------------------------------
(* Engine workers                                                          *)

\* Worker e becomes `engine'; its events reach the supervisor only while the
\* handle exists.
Becomes(e, engine, events) ==
  /\ engines' = [engines EXCEPT ![e] =
       IF e = handle THEN [engine EXCEPT !.events = @ \o events] ELSE engine]
  /\ UNCHANGED << controls, sent, phase, owned, snap >>

Client(command) ==
  IF command # None /\ command.op = "complete" THEN {command.arg} ELSE {}

\* The update channels of the requests a worker holds.
Held(engine) ==
  Client(engine.current)
    \cup UNION {Client(engine.commands[i]) : i \in DOMAIN engine.commands}

\* The thread ends: its commands are dropped, and with them the channels.
Exit(e, events) ==
  /\ Becomes(e, [engines[e] EXCEPT !.at = "exited", !.commands = << >>,
                                   !.current = None, !.left = 0], events)
  /\ reply' = [c \in Clients |->
                 IF c \in Held(engines[e]) THEN "closed" ELSE reply[c]]

\* The request is over: its final event, and the reply of a protocol request.
Over(e, event, answer) ==
  /\ Becomes(e, [engines[e] EXCEPT !.at = "idle", !.current = None, !.left = 0],
             << event >>)
  /\ reply' = [c \in Clients |->
                 IF c \in Client(engines[e].current) THEN answer ELSE reply[c]]

StartLoading(e) ==
  /\ engines[e].at = "spawned"
  /\ Becomes(e, [engines[e] EXCEPT !.at = "loading"], << "loading" >>)
  /\ UNCHANGED reply

Loaded(e) ==
  /\ engines[e].at = "loading"
  /\ Becomes(e, [engines[e] EXCEPT !.at = "idle"], << "ready" >>)
  /\ UNCHANGED reply

\* The package cannot be loaded, or the worker panics.
Fails(e) ==
  /\ engines[e].at \notin {"idle", "exited"}
  /\ Exit(e, << "error" >>)

\* The next command of the worker.
Dequeue(e) ==
  LET command == Head(engines[e].commands)
      engine == [engines[e] EXCEPT !.commands = Tail(@)]
  IN  /\ engines[e].at = "idle"
      /\ engines[e].commands # << >>
      /\ \/ /\ command.op \in {"send", "complete"}
            /\ \E n \in 1 .. MaxTokens :
                 Becomes(e, [engine EXCEPT !.at = "check", !.cancel = FALSE,
                                           !.current = command, !.left = n],
                         << "progress" >>)
            /\ UNCHANGED reply
         \/ /\ command.op \in {"reset", "clearHot"}
            /\ \/ Becomes(e, [engine EXCEPT !.cancel = TRUE],
                          << "loading", "reset" >>)
               \/ Becomes(e, [engine EXCEPT !.cancel = TRUE],
                          << "loading", "error" >>)
            /\ UNCHANGED reply
         \/ /\ command.op = "shutdown"
            /\ Exit(e, << >>)

\* The decode loop: the flag is read, then a token sampled and sent.
Check(e) ==
  /\ engines[e].at = "check"
  /\ IF engines[e].cancel \/ engines[e].left = 0
     THEN Over(e, "done", "done")
     ELSE /\ Becomes(e, [engines[e] EXCEPT !.at = "sample"], << >>)
          /\ UNCHANGED reply

Sample(e) ==
  /\ engines[e].at = "sample"
  /\ Becomes(e, [engines[e] EXCEPT !.at = "check", !.left = @ - 1],
             << "progress" >>)
  /\ UNCHANGED reply

\* run_turn or run_prompt returns an error.
RequestFails(e) ==
  /\ engines[e].at = "check"
  /\ Over(e, "error", "error")
-----------------------------------------------------------------------------
Supervisor ==
  \/ Load \/ Unload \/ Generate \/ Complete \/ Cancel
  \/ \E op \in {"reset", "clearHot"} : ResetOrClear(op)
  \/ ControlsDrained \/ ApplyEvent \/ EventsDrained

Work(e) == StartLoading(e) \/ Loaded(e) \/ Dequeue(e) \/ Check(e) \/ Sample(e)

Next ==
  \/ \E op \in {"unload", "generate", "cancel", "reset", "clearHot"} :
       Operate(op, None)
  \/ \E p \in Packages : Operate("load", p)
  \/ \E c \in Clients : Admit(c) \/ Render(c) \/ Queue(c)
  \/ Supervisor
  \/ \E e \in DOMAIN engines : Work(e) \/ Fails(e) \/ RequestFails(e)

Spec == Init /\ [][Next]_vars

\* Each thread keeps running: the supervisor polls for ever, a worker's forward
\* passes end, and a handler that let a request in goes on with it.
FairSpec ==
  /\ Spec
  /\ WF_vars(Supervisor)
  /\ \A c \in Clients : WF_vars(Render(c) \/ Queue(c))
  /\ \A e \in 1 .. MaxControls : WF_vars(e \in DOMAIN engines /\ Work(e))
-----------------------------------------------------------------------------
\* The published snapshot shows a model exactly when the supervisor holds an
\* engine, and it is that engine's: no event of an engine that was replaced or
\* unloaded reaches it, and loaded_path, from which an engine's Ready event
\* takes the path, is that engine's.
SnapshotNamesEngine ==
  snap.model = IF handle = 0 THEN None ELSE engines[handle].package

\* The worker is idle and everything sent either way has been handled.
Quiet ==
  /\ controls = << >>
  /\ handle # 0
  /\ engines[handle].at = "idle"
  /\ engines[handle].commands = << >>
  /\ engines[handle].events = << >>

\* When nothing is under way the snapshot says so: whatever the order in which
\* controls, commands and events crossed, the status does not stay "loading" or
\* "generating" (which makes require_loaded_model refuse requests for ever)
\* while the worker is idle.
SettledWhenQuiet == Quiet => snap.status \in {"ready", "error"}

Answers == {"done", "error", "closed"}

\* Every protocol request that is let in is answered, by a result, an error or
\* a closed channel: also when the model is unloaded or replaced before the
\* request is sent or while it is queued, and when the worker panics or never
\* loads.
EveryRequestAnswered ==
  \A c \in Clients : (reply[c] = "admitted") ~> (reply[c] \in Answers)
=============================================================================
