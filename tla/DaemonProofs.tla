----------------------------- MODULE DaemonProofs ---------------------------
(***************************************************************************)
(* What logand's snapshot says of the engine: proofs about Daemon for any  *)
(* number of requests, packages and controls, and for every order in which *)
(* controls, commands and events cross.                                    *)
(***************************************************************************)
EXTENDS Daemon, TLAPS

-----------------------------------------------------------------------------
(* The inductive invariant                                                 *)

Value == Clients \cup Packages \cup {None}
Op == {"load", "unload", "generate", "complete", "cancel", "reset", "clearHot",
       "send", "shutdown"}
Command == [op : Op, arg : Value]
Event == {"loading", "progress", "ready", "done", "reset", "error"}
Engine ==
  [package : Value,
   at : {"spawned", "loading", "idle", "check", "sample", "exited"},
   commands : Seq(Command), events : Seq(Event), cancel : BOOLEAN,
   current : Command \cup {None}, left : Int]

DaemonTypeOK ==
  /\ controls \in Seq(Command)
  /\ phase \in {"controls", "events"}
  /\ engines \in Seq(Engine)
  /\ handle \in 0 .. Len(engines)
  /\ snap \in [status : {"idle", "loading", "ready", "generating", "error"},
               cancelling : BOOLEAN, model : Value]

\* The events after which nothing more is under way.
Final == {"ready", "done", "reset", "error"}

\* The worker has nothing left to do.
Free(engine) == engine.at = "idle" /\ engine.commands = << >>

\* The status a free worker leaves behind, at once or with its last event.
WillSettle(engine, status) ==
  Free(engine) =>
    IF engine.events = << >>
    THEN status \in {"ready", "error"}
    ELSE engine.events[Len(engine.events)] \in Final

DaemonInv ==
  /\ DaemonTypeOK
  /\ SnapshotNamesEngine
  /\ loadedPath = snap.model
  /\ handle # 0 => WillSettle(engines[handle], snap.status)
-----------------------------------------------------------------------------
(* Sequences                                                               *)

\* The last element after some were appended.
LEMMA LastAppended ==
  ASSUME NEW S, NEW s \in Seq(S), NEW t \in Seq(S), t # << >>
  PROVE  /\ s \o t \in Seq(S)
         /\ s \o t # << >>
         /\ (s \o t)[Len(s \o t)] = t[Len(t)]
<1>1. Len(t) \in Nat /\ Len(t) > 0 /\ Len(s) \in Nat
  OBVIOUS
<1>2. s \o t \in Seq(S) /\ Len(s \o t) = Len(s) + Len(t)
  OBVIOUS
<1>3. (s \o t)[Len(s) + Len(t)] = t[Len(t)]
  BY <1>1
<1> QED
  BY <1>1, <1>2, <1>3

\* Taking the head leaves the last element, unless it was the only one.
LEMMA LastOfTail ==
  ASSUME NEW S, NEW s \in Seq(S), s # << >>
  PROVE  /\ Head(s) \in S
         /\ Tail(s) \in Seq(S)
         /\ Tail(s) = << >> => Head(s) = s[Len(s)]
         /\ Tail(s) # << >> => Tail(s)[Len(Tail(s))] = s[Len(s)]
<1>1. Len(s) \in Nat /\ Len(s) > 0 /\ Head(s) = s[1] /\ s[1] \in S
  OBVIOUS
<1>2. /\ Tail(s) \in Seq(S) /\ Len(Tail(s)) = Len(s) - 1
      /\ \A i \in 1 .. Len(s) - 1 : Tail(s)[i] = s[i + 1]
  OBVIOUS
<1>3. CASE Tail(s) = << >>
  BY <1>1, <1>2, <1>3
<1>4. CASE Tail(s) # << >>
  <2>1. Len(s) - 1 \in 1 .. Len(s) - 1
    BY <1>1, <1>2, <1>4
  <2>2. Tail(s)[Len(s) - 1] = s[(Len(s) - 1) + 1]
    BY <2>1, <1>2
  <2> QED
    BY <1>1, <1>2, <1>4, <2>2
<1> QED
  BY <1>3, <1>4, <1>1, <1>2

\* A table of workers in which one is replaced.
LEMMA Replaced ==
  ASSUME engines \in Seq(Engine), NEW e \in DOMAIN engines, NEW w \in Engine,
         NEW t, t = [engines EXCEPT ![e] = w]
  PROVE  /\ t \in Seq(Engine)
         /\ Len(t) = Len(engines)
         /\ t[e] = w
         /\ \A f \in DOMAIN engines : f # e => t[f] = engines[f]
OBVIOUS
-----------------------------------------------------------------------------
(* Workers                                                                 *)

\* A worker that becomes free says so with its last event.
LEMMA BecomesKeeps ==
  ASSUME DaemonInv, NEW e \in DOMAIN engines,
         NEW w \in Engine, NEW new \in Seq(Event),
         Becomes(e, w, new),
         w.package = engines[e].package,
         w.events = engines[e].events,
         Free(w) => new # << >> /\ new[Len(new)] \in Final
  PROVE  DaemonInv'
<1> DEFINE v == IF e = handle THEN [w EXCEPT !.events = @ \o new] ELSE w
<1>1. /\ engines \in Seq(Engine)
      /\ handle \in 0 .. Len(engines)
  BY DEF DaemonInv, DaemonTypeOK
<1>2. /\ engines' = [engines EXCEPT ![e] = v]
      /\ controls' = controls /\ phase' = phase /\ handle' = handle
      /\ loadedPath' = loadedPath /\ snap' = snap
  BY DEF Becomes, owned
<1>3. /\ v \in Engine
      /\ v.package = w.package /\ v.at = w.at /\ v.commands = w.commands
      /\ e = handle => v.events = w.events \o new
  <2>1. w.events \in Seq(Event)
    BY DEF Engine
  <2>2. w.events \o new \in Seq(Event)
    BY <2>1
  <2>3. CASE e = handle
    <3>1. v = [w EXCEPT !.events = w.events \o new]
      BY <2>3
    <3> HIDE DEF v
    <3>2. v \in Engine
      BY <3>1, <2>2 DEF Engine
    <3> QED
      BY <3>1, <3>2 DEF Engine
  <2>4. CASE e # handle
    BY <2>4
  <2> QED
    BY <2>3, <2>4
<1> HIDE DEF v
<1>4. /\ engines' \in Seq(Engine)
      /\ Len(engines') = Len(engines)
      /\ engines'[e] = v
      /\ \A f \in DOMAIN engines : f # e => engines'[f] = engines[f]
  BY <1>1, <1>2, <1>3, Replaced
<1>5. handle # 0 => handle \in DOMAIN engines
  BY <1>1
<1>6. DaemonTypeOK'
  BY <1>2, <1>4 DEF DaemonInv, DaemonTypeOK
<1>7. handle # 0 => engines'[handle].package = engines[handle].package
  BY <1>3, <1>4, <1>5
<1>8. SnapshotNamesEngine'
  BY <1>2, <1>7 DEF DaemonInv, SnapshotNamesEngine
<1>9. ASSUME handle # 0 PROVE WillSettle(engines'[handle], snap.status)
  <2>1. CASE e = handle
    <3>1. SUFFICES ASSUME Free(v) PROVE WillSettle(v, snap.status)
      BY <2>1, <1>4 DEF WillSettle
    <3>2. new # << >> /\ new[Len(new)] \in Final
      BY <3>1, <1>3 DEF Free
    <3>3. w.events \in Seq(Event)
      BY DEF Engine
    <3>4. /\ w.events \o new # << >>
          /\ (w.events \o new)[Len(w.events \o new)] = new[Len(new)]
      BY ONLY <3>2, <3>3, new \in Seq(Event), LastAppended
    <3>5. v.events = w.events \o new
      BY <2>1, <1>3
    <3>6. v.events # << >> /\ v.events[Len(v.events)] \in Final
      BY ONLY <3>2, <3>4, <3>5
    <3> QED
      BY <3>6 DEF WillSettle
  <2>2. CASE e # handle
    BY <2>2, <1>4, <1>5, <1>9 DEF DaemonInv
  <2> QED
    BY <2>1, <2>2
<1> QED
  BY <1>2, <1>6, <1>8, <1>9 DEF DaemonInv

\* The end of a worker.
LEMMA ExitKeeps ==
  ASSUME DaemonInv, NEW e \in DOMAIN engines, NEW new \in Seq(Event),
         Exit(e, new)
  PROVE  DaemonInv'
<1> DEFINE zero == 0
           nothing == << >>
           w == [engines[e] EXCEPT !.at = "exited", !.commands = nothing,
                                   !.current = None, !.left = zero]
<1>1. engines[e] \in Engine /\ zero \in Int /\ nothing \in Seq(Command)
  BY DEF DaemonInv, DaemonTypeOK
<1>2. Becomes(e, w, new)
  BY DEF Exit
<1> HIDE DEF zero, nothing
<1>3. /\ w \in Engine /\ w.at = "exited"
      /\ w.package = engines[e].package /\ w.events = engines[e].events
  BY <1>1 DEF Engine
<1> HIDE DEF w
<1>4. ~ Free(w)
  BY <1>3 DEF Free
<1> QED
  BY <1>2, <1>3, <1>4, BecomesKeeps

\* The end of a request: its last event is final.
LEMMA OverKeeps ==
  ASSUME DaemonInv, NEW e \in DOMAIN engines, NEW event \in Final, NEW answer,
         Over(e, event, answer)
  PROVE  DaemonInv'
<1> DEFINE zero == 0
           w == [engines[e] EXCEPT !.at = "idle", !.current = None,
                                   !.left = zero]
           new == << event >>
<1>1. engines[e] \in Engine /\ zero \in Int
  BY DEF DaemonInv, DaemonTypeOK
<1>2. Becomes(e, w, new)
  BY DEF Over
<1> HIDE DEF zero
<1>3. /\ w \in Engine
      /\ w.package = engines[e].package /\ w.events = engines[e].events
  BY <1>1 DEF Engine
<1>4. new \in Seq(Event) /\ new # << >> /\ new[Len(new)] \in Final
  BY DEF Final, Event
<1> HIDE DEF w, new
<1> QED
  BY <1>2, <1>3, <1>4, BecomesKeeps

\* Every step of a worker keeps the invariant.
LEMMA WorkerStep ==
  ASSUME DaemonInv, NEW e \in DOMAIN engines,
         Work(e) \/ Fails(e) \/ RequestFails(e)
  PROVE  DaemonInv'
<1>1. engines[e] \in Engine
  BY DEF DaemonInv, DaemonTypeOK
<1>2. CASE StartLoading(e)
  <2> DEFINE w == [engines[e] EXCEPT !.at = "loading"]
  <2>1. /\ w \in Engine /\ w.at = "loading"
        /\ w.package = engines[e].package /\ w.events = engines[e].events
    BY <1>1 DEF Engine
  <2>2. Becomes(e, w, << "loading" >>)
    BY <1>2 DEF StartLoading
  <2>3. << "loading" >> \in Seq(Event)
    BY DEF Event
  <2> HIDE DEF w
  <2>4. ~ Free(w)
    BY <2>1 DEF Free
  <2> QED
    BY <2>1, <2>2, <2>3, <2>4, BecomesKeeps
<1>3. CASE Loaded(e)
  <2> DEFINE w == [engines[e] EXCEPT !.at = "idle"]
             new == << "ready" >>
  <2>1. /\ w \in Engine
        /\ w.package = engines[e].package /\ w.events = engines[e].events
    BY <1>1 DEF Engine
  <2>2. Becomes(e, w, new)
    BY <1>3 DEF Loaded
  <2>3. new \in Seq(Event) /\ new # << >> /\ new[Len(new)] \in Final
    BY DEF Event, Final
  <2> HIDE DEF w, new
  <2> QED
    BY <2>1, <2>2, <2>3, BecomesKeeps
<1>4. CASE Fails(e)
  <2>1. << "error" >> \in Seq(Event)
    BY DEF Event
  <2> QED
    BY <1>4, <2>1, ExitKeeps DEF Fails
<1>5. CASE Dequeue(e)
  <2> DEFINE command == Head(engines[e].commands)
             engine == [engines[e] EXCEPT !.commands = Tail(@)]
  <2>1. engines[e].commands \in Seq(Command) /\ engines[e].commands # << >>
    BY <1>1, <1>5 DEF Engine, Dequeue
  <2>2. command \in Command /\ Tail(engines[e].commands) \in Seq(Command)
    BY <2>1, LastOfTail
  <2>3. /\ engine \in Engine
        /\ engine.package = engines[e].package
        /\ engine.events = engines[e].events
    BY <1>1, <2>2 DEF Engine
  <2>4. \/ \E n \in 1 .. MaxTokens :
             Becomes(e, [engine EXCEPT !.at = "check", !.cancel = FALSE,
                                       !.current = command, !.left = n],
                     << "progress" >>)
        \/ Becomes(e, [engine EXCEPT !.cancel = TRUE], << "loading", "reset" >>)
        \/ Becomes(e, [engine EXCEPT !.cancel = TRUE], << "loading", "error" >>)
        \/ Exit(e, << >>)
    BY <1>5 DEF Dequeue
  <2> HIDE DEF engine, command
  <2>5. ASSUME NEW n \in 1 .. MaxTokens,
               Becomes(e, [engine EXCEPT !.at = "check", !.cancel = FALSE,
                                         !.current = command, !.left = n],
                       << "progress" >>)
        PROVE  DaemonInv'
    <3> DEFINE w == [engine EXCEPT !.at = "check", !.cancel = FALSE,
                                   !.current = command, !.left = n]
    <3>1. /\ w \in Engine /\ w.at = "check"
          /\ w.package = engine.package /\ w.events = engine.events
      <4>1. n \in Int
        BY DaemonAssumption
      <4> DEFINE v == [engine EXCEPT !.current = command, !.left = n]
      <4>2. v \in Engine /\ v.package = engine.package /\ v.events = engine.events
        BY <2>2, <2>3, <4>1 DEF Engine
      <4>3. w = [v EXCEPT !.at = "check", !.cancel = FALSE]
        BY <2>3 DEF Engine
      <4> HIDE DEF v
      <4>4. w \in Engine /\ w.at = "check"
        BY <4>2, <4>3 DEF Engine
      <4> QED
        BY <4>2, <4>3, <4>4 DEF Engine
    <3>2. << "progress" >> \in Seq(Event)
      BY DEF Event
    <3>3. Becomes(e, w, << "progress" >>)
      BY <2>5
    <3> HIDE DEF w
    <3>4. ~ Free(w)
      BY <3>1 DEF Free
    <3> QED
      BY <2>3, <3>1, <3>2, <3>3, <3>4, BecomesKeeps
  <2>6. ASSUME NEW last \in {"reset", "error"},
               Becomes(e, [engine EXCEPT !.cancel = TRUE], << "loading", last >>)
        PROVE  DaemonInv'
    <3> DEFINE w == [engine EXCEPT !.cancel = TRUE]
               new == << "loading", last >>
    <3>1. /\ w \in Engine
          /\ w.package = engine.package /\ w.events = engine.events
      BY <2>3 DEF Engine
    <3>2. new \in Seq(Event) /\ new # << >> /\ new[Len(new)] \in Final
      BY DEF Event, Final
    <3>3. Becomes(e, w, new)
      BY <2>6
    <3> HIDE DEF w, new
    <3> QED
      BY <2>3, <3>1, <3>2, <3>3, BecomesKeeps
  <2>7. CASE Exit(e, << >>)
    <3>1. << >> \in Seq(Event)
      OBVIOUS
    <3> QED
      BY <2>7, <3>1, ExitKeeps
  <2> QED
    BY <2>4, <2>5, <2>6, <2>7
<1>6. CASE Check(e)
  <2>1. CASE Over(e, "done", "done")
    BY <2>1, OverKeeps DEF Final
  <2>2. CASE Becomes(e, [engines[e] EXCEPT !.at = "sample"], << >>)
    <3> DEFINE w == [engines[e] EXCEPT !.at = "sample"]
    <3>1. /\ w \in Engine /\ w.at = "sample"
          /\ w.package = engines[e].package /\ w.events = engines[e].events
      BY <1>1 DEF Engine
    <3>2. Becomes(e, w, << >>) /\ << >> \in Seq(Event)
      BY <2>2
    <3> HIDE DEF w
    <3>3. ~ Free(w)
      BY <3>1 DEF Free
    <3> QED
      BY <3>1, <3>2, <3>3, BecomesKeeps
  <2> QED
    BY <1>6, <2>1, <2>2 DEF Check
<1>7. CASE Sample(e)
  <2> DEFINE w == [engines[e] EXCEPT !.at = "check", !.left = @ - 1]
  <2>1. /\ w \in Engine /\ w.at = "check"
        /\ w.package = engines[e].package /\ w.events = engines[e].events
    <3>1. engines[e].left - 1 \in Int
      BY <1>1 DEF Engine
    <3> QED
      BY <1>1, <3>1 DEF Engine
  <2>2. Becomes(e, w, << "progress" >>)
    BY <1>7 DEF Sample
  <2>3. << "progress" >> \in Seq(Event)
    BY DEF Event
  <2> HIDE DEF w
  <2>4. ~ Free(w)
    BY <2>1 DEF Free
  <2> QED
    BY <2>1, <2>2, <2>3, <2>4, BecomesKeeps
<1>8. CASE RequestFails(e)
  BY <1>8, OverKeeps DEF RequestFails, Final
<1> QED
  BY <1>2, <1>3, <1>4, <1>5, <1>6, <1>7, <1>8 DEF Work
-----------------------------------------------------------------------------
(* Supervisor                                                              *)

\* A posted command reaches the worker or finds it gone: it is not free after.
LEMMA Posted ==
  ASSUME NEW g \in Engine, NEW op \in Op, NEW arg \in Value
  PROVE  LET w == Post(g, op, arg)
         IN  /\ w \in Engine
             /\ w.package = g.package
             /\ ~ Free(w)
<1>1. CASE g.at = "exited"
  BY <1>1 DEF Post, Free
<1>2. CASE g.at # "exited"
  <2> DEFINE q == Append(g.commands, Control(op, arg))
  <2>1. Control(op, arg) \in Command /\ g.commands \in Seq(Command)
    BY DEF Control, Command, Engine
  <2>2. q \in Seq(Command) /\ q # << >>
    BY <2>1
  <2>3. Post(g, op, arg) = [g EXCEPT !.commands = q]
    BY <1>2 DEF Post
  <2> HIDE DEF q
  <2>4. /\ [g EXCEPT !.commands = q] \in Engine
        /\ [g EXCEPT !.commands = q].package = g.package
        /\ [g EXCEPT !.commands = q].commands = q
    BY <2>2 DEF Engine
  <2> QED
    BY <2>2, <2>3, <2>4 DEF Free
<1> QED
  BY <1>1, <1>2

\* A retired worker keeps its place in the table.
LEMMA Retired ==
  ASSUME NEW g \in Engine
  PROVE  Retire(g) \in Engine
<1>1. "shutdown" \in Op /\ None \in Value
  BY DEF Value, Op
<1>2. Post(g, "shutdown", None) \in Engine
  BY <1>1, Posted
<1> DEFINE p == Post(g, "shutdown", None)
           none == << >>
<1>3. none \in Seq(Event) /\ Retire(g) = [p EXCEPT !.events = none]
  BY DEF Retire
<1> HIDE DEF none, p
<1>4. [p EXCEPT !.events = none] \in Engine
  BY <1>2, <1>3 DEF Engine, p
<1> QED
  BY <1>3, <1>4

\* The control at the head of the channel.
LEMMA Received ==
  ASSUME DaemonTypeOK, NEW op, Receive(op)
  PROVE  /\ Arg \in Value
         /\ controls' \in Seq(Command)
         /\ phase' = phase
<1>1. controls \in Seq(Command) /\ controls # << >> /\ controls' = Tail(controls)
  BY DEF DaemonTypeOK, Receive
<1>2. Head(controls) \in Command /\ Tail(controls) \in Seq(Command)
  BY <1>1, LastOfTail
<1>3. phase' = phase
  BY DEF Receive
<1> QED
  BY <1>1, <1>2, <1>3 DEF Arg, Command

\* The supervisor changes the worker behind its handle, which is not free
\* after, and the status in the snapshot.
LEMMA ForwardKeeps ==
  ASSUME DaemonInv, handle # 0, handle' = handle, loadedPath' = loadedPath,
         NEW w \in Engine, engines' = [engines EXCEPT ![handle] = w],
         w.package = engines[handle].package, ~ Free(w),
         controls' \in Seq(Command), phase' = phase,
         snap' \in [status : {"idle", "loading", "ready", "generating", "error"},
                    cancelling : BOOLEAN, model : Value],
         snap'.model = snap.model
  PROVE  DaemonInv'
<1>1. engines \in Seq(Engine) /\ handle \in DOMAIN engines
  BY DEF DaemonInv, DaemonTypeOK
<1>2. /\ engines' \in Seq(Engine)
      /\ Len(engines') = Len(engines)
      /\ engines'[handle] = w
  BY <1>1, Replaced
<1>3. DaemonTypeOK'
  BY <1>2 DEF DaemonInv, DaemonTypeOK
<1>4. SnapshotNamesEngine'
  BY <1>2 DEF DaemonInv, SnapshotNamesEngine
<1> QED
  BY <1>2, <1>3, <1>4 DEF DaemonInv, WillSettle

\* Load: the snapshot names the new engine, which is not loaded yet.
LEMMA LoadStep == DaemonInv /\ Load => DaemonInv'
<1> SUFFICES ASSUME DaemonInv, Load PROVE DaemonInv'
  OBVIOUS
<1> DEFINE others == IF handle = 0 THEN engines
                     ELSE [engines EXCEPT ![handle] = Retire(@)]
           new == Spawned(Arg)
<1>1. DaemonTypeOK /\ engines \in Seq(Engine) /\ handle \in 0 .. Len(engines)
  BY DEF DaemonInv, DaemonTypeOK
<1>2. /\ Receive("load")
      /\ engines' = Append(others, new)
      /\ handle' = Len(engines) + 1 /\ loadedPath' = Arg
      /\ snap' = [status |-> "loading", cancelling |-> FALSE, model |-> Arg]
  BY DEF Load
<1>3. Arg \in Value /\ controls' \in Seq(Command) /\ phase' = phase
  BY <1>1, <1>2, Received
<1>4. /\ new \in Engine /\ new.package = Arg /\ new.at = "spawned"
  <2>1. << >> \in Seq(Command) /\ << >> \in Seq(Event)
    OBVIOUS
  <2>2. new = [package |-> Arg, at |-> "spawned", commands |-> << >>,
               events |-> << >>, cancel |-> FALSE, current |-> None, left |-> 0]
    BY DEF Spawned
  <2> QED
    BY <2>1, <2>2, <1>3 DEF Engine
<1>5. others \in Seq(Engine) /\ Len(others) = Len(engines)
  <2>1. CASE handle = 0
    BY <2>1, <1>1
  <2>2. CASE handle # 0
    <3>1. handle \in DOMAIN engines /\ engines[handle] \in Engine
      BY <2>2, <1>1
    <3>2. Retire(engines[handle]) \in Engine
      BY <3>1, Retired
    <3>3. others = [engines EXCEPT ![handle] = Retire(engines[handle])]
      BY <2>2
    <3> QED
      BY <1>1, <3>1, <3>2, <3>3, Replaced
  <2> QED
    BY <2>1, <2>2
<1> HIDE DEF others, new
<1>6. /\ engines' \in Seq(Engine)
      /\ Len(engines') = Len(engines) + 1
      /\ engines'[Len(engines) + 1] = new
  BY <1>2, <1>4, <1>5
<1>7. DaemonTypeOK'
  BY <1>1, <1>2, <1>3, <1>6 DEF DaemonTypeOK
<1>8. SnapshotNamesEngine'
  BY <1>1, <1>2, <1>4, <1>6 DEF SnapshotNamesEngine
<1>9. ~ Free(engines'[handle'])
  BY <1>2, <1>4, <1>6 DEF Free
<1> QED
  BY <1>2, <1>7, <1>8, <1>9 DEF DaemonInv, WillSettle

\* Unload: no handle, no model.
LEMMA UnloadStep == DaemonInv /\ Unload => DaemonInv'
<1> SUFFICES ASSUME DaemonInv, Unload PROVE DaemonInv'
  OBVIOUS
<1>1. DaemonTypeOK /\ engines \in Seq(Engine) /\ handle \in 0 .. Len(engines)
  BY DEF DaemonInv, DaemonTypeOK
<1>2. /\ Receive("unload")
      /\ handle' = 0 /\ loadedPath' = None
      /\ snap' = [status |-> "idle", cancelling |-> FALSE, model |-> None]
  BY DEF Unload
<1>3. controls' \in Seq(Command) /\ phase' = phase
  BY <1>1, <1>2, Received
<1>4. engines' \in Seq(Engine)
  <2>1. CASE handle = 0
    BY <2>1, <1>1 DEF Unload
  <2>2. CASE handle # 0
    <3> DEFINE w == [Retire(engines[handle]) EXCEPT !.cancel = TRUE]
    <3>1. handle \in DOMAIN engines /\ engines[handle] \in Engine
      BY <2>2, <1>1
    <3>2. Retire(engines[handle]) \in Engine
      BY <3>1, Retired
    <3>3. w \in Engine
      BY <3>2 DEF Engine
    <3>4. engines' = [engines EXCEPT ![handle] = w]
      BY <2>2 DEF Unload
    <3> HIDE DEF w
    <3> QED
      BY <1>1, <3>1, <3>3, <3>4, Replaced
  <2> QED
    BY <2>1, <2>2
<1>5. DaemonTypeOK'
  <2>1. Len(engines') \in Nat /\ None \in Value
    BY <1>4 DEF Value
  <2> QED
    BY <1>1, <1>2, <1>3, <1>4, <2>1 DEF DaemonTypeOK
<1> QED
  BY <1>2, <1>5 DEF DaemonInv, SnapshotNamesEngine

\* A request goes to the worker behind the handle.
LEMMA Forwarded ==
  ASSUME DaemonInv, handle # 0, handle' = handle, loadedPath' = loadedPath,
         NEW op \in Op, NEW arg \in Value, NEW flag \in BOOLEAN,
         engines' = [engines EXCEPT ![handle] =
                       [Post(@, op, arg) EXCEPT !.cancel = flag]],
         controls' \in Seq(Command), phase' = phase,
         snap' \in [status : {"idle", "loading", "ready", "generating", "error"},
                    cancelling : BOOLEAN, model : Value],
         snap'.model = snap.model
  PROVE  DaemonInv'
<1> DEFINE p == Post(engines[handle], op, arg)
           w == [p EXCEPT !.cancel = flag]
<1>1. engines \in Seq(Engine) /\ handle \in DOMAIN engines
      /\ engines[handle] \in Engine
  BY DEF DaemonInv, DaemonTypeOK
<1>2. p \in Engine /\ p.package = engines[handle].package /\ ~ Free(p)
  BY <1>1, Posted
<1>3. engines' = [engines EXCEPT ![handle] = w]
  OBVIOUS
<1> HIDE DEF p
<1>4. /\ w \in Engine /\ w.package = p.package
      /\ w.at = p.at /\ w.commands = p.commands
  BY <1>2 DEF Engine
<1> HIDE DEF w
<1>5. ~ Free(w)
  BY <1>2, <1>4 DEF Free
<1> QED
  BY <1>2, <1>3, <1>4, <1>5, ForwardKeeps

\* Without a handle only the status may change.
LEMMA NoEngine ==
  ASSUME DaemonInv, handle = 0, handle' = handle, engines' = engines,
         loadedPath' = loadedPath,
         controls' \in Seq(Command), phase' = phase,
         snap' \in [status : {"idle", "loading", "ready", "generating", "error"},
                    cancelling : BOOLEAN, model : Value],
         snap'.model = snap.model
  PROVE  DaemonInv'
BY DEF DaemonInv, DaemonTypeOK, SnapshotNamesEngine

\* The other controls.
LEMMA ControlStep ==
  ASSUME DaemonInv,
         \/ Generate \/ Complete \/ Cancel
         \/ \E op \in {"reset", "clearHot"} : ResetOrClear(op)
  PROVE  DaemonInv'
<1> DEFINE Snap == [status : {"idle", "loading", "ready", "generating", "error"},
                    cancelling : BOOLEAN, model : Value]
<1>1. /\ DaemonTypeOK /\ snap \in Snap /\ engines \in Seq(Engine)
      /\ handle \in 0 .. Len(engines)
  BY DEF DaemonInv, DaemonTypeOK
<1>2. ASSUME NEW st \in {"idle", "loading", "ready", "generating", "error"}
      PROVE  LET t == [snap EXCEPT !.status = st, !.cancelling = FALSE]
             IN  t \in Snap /\ t.model = snap.model
  BY <1>1
<1>3. None \in Value
  BY DEF Value
<1>4. CASE Generate
  <2>1. controls' \in Seq(Command) /\ phase' = phase /\ handle' = handle
        /\ loadedPath' = loadedPath
    BY <1>1, <1>4, Received DEF Generate, owned
  <2> DEFINE st == IF handle = 0 \/ Gone THEN "error" ELSE "generating"
  <2>2. snap' = [snap EXCEPT !.status = st, !.cancelling = FALSE]
    BY <1>4 DEF Generate
  <2>3. st \in {"idle", "loading", "ready", "generating", "error"}
    OBVIOUS
  <2> HIDE DEF st
  <2>4. snap' \in Snap /\ snap'.model = snap.model
    BY <2>2, <2>3, <1>2
  <2>5. CASE handle = 0
    <3>1. engines' = engines
      BY <1>4, <2>5 DEF Generate
    <3> QED
      BY <2>1, <2>4, <2>5, <3>1, NoEngine
  <2>6. CASE handle # 0
    <3>1. engines' = [engines EXCEPT ![handle] =
                        [Post(@, "send", None) EXCEPT !.cancel = FALSE]]
      BY <1>4, <2>6 DEF Generate, Forward
    <3>2. "send" \in Op /\ FALSE \in BOOLEAN
      BY DEF Op
    <3> QED
      BY <1>3, <2>1, <2>4, <2>6, <3>1, <3>2, Forwarded
  <2> QED
    BY <2>5, <2>6
<1>5. CASE Complete
  <2>1. /\ controls' \in Seq(Command) /\ phase' = phase /\ handle' = handle
        /\ Arg \in Value /\ loadedPath' = loadedPath
    BY <1>1, <1>5, Received DEF Complete, owned
  <2>2. CASE handle = 0
    <3>1. engines' = engines /\ snap' = snap
      BY <1>5, <2>2 DEF Complete
    <3> QED
      BY <1>1, <2>1, <2>2, <3>1, NoEngine
  <2>3. CASE handle # 0
    <3>1. engines' = [engines EXCEPT ![handle] =
                        [Post(@, "complete", Arg) EXCEPT !.cancel = FALSE]]
      BY <1>5, <2>3 DEF Complete, Forward
    <3>2. \/ snap' = snap
          \/ snap' = [snap EXCEPT !.status = "generating", !.cancelling = FALSE]
      BY <1>5, <2>3 DEF Complete
    <3>3. snap' \in Snap /\ snap'.model = snap.model
      BY <1>1, <1>2, <3>2
    <3>4. "complete" \in Op /\ FALSE \in BOOLEAN
      BY DEF Op
    <3> QED
      BY <2>1, <2>3, <3>1, <3>3, <3>4, Forwarded
  <2> QED
    BY <2>2, <2>3
<1>6. CASE Cancel
  <2>1. controls' \in Seq(Command) /\ phase' = phase /\ handle' = handle
        /\ loadedPath' = loadedPath
    BY <1>1, <1>6, Received DEF Cancel, owned
  <2>2. CASE handle = 0
    <3>1. engines' = engines /\ snap' = snap
      BY <1>6, <2>2 DEF Cancel
    <3> QED
      BY <1>1, <2>1, <2>2, <3>1, NoEngine
  <2>3. CASE handle # 0
    <3> DEFINE w == [engines[handle] EXCEPT !.cancel = TRUE]
    <3>1. /\ engines' = [engines EXCEPT ![handle] = w]
          /\ snap' = [snap EXCEPT !.cancelling = TRUE]
      BY <1>6, <2>3 DEF Cancel
    <3>2. handle \in DOMAIN engines /\ engines[handle] \in Engine
      BY <1>1, <2>3
    <3>3. /\ w \in Engine
          /\ w.package = engines[handle].package /\ w.at = engines[handle].at
          /\ w.commands = engines[handle].commands
          /\ w.events = engines[handle].events
      BY <3>2 DEF Engine
    <3> HIDE DEF w
    <3>4. /\ engines' \in Seq(Engine) /\ Len(engines') = Len(engines)
          /\ engines'[handle] = w
      BY <1>1, <3>1, <3>2, <3>3, Replaced
    <3>5. /\ snap' \in Snap /\ snap'.model = snap.model
          /\ snap'.status = snap.status
      BY <1>1, <3>1
    <3>6. DaemonTypeOK'
      BY <1>1, <2>1, <3>4, <3>5 DEF DaemonTypeOK
    <3>7. SnapshotNamesEngine'
      BY <2>1, <2>3, <3>3, <3>4, <3>5 DEF DaemonInv, SnapshotNamesEngine
    <3>8. WillSettle(engines[handle], snap.status)
      BY <2>3 DEF DaemonInv
    <3>9. WillSettle(w, snap'.status)
      BY <3>3, <3>5, <3>8 DEF WillSettle, Free
    <3> QED
      BY <2>1, <3>4, <3>5, <3>6, <3>7, <3>9 DEF DaemonInv
  <2> QED
    BY <2>2, <2>3
<1>7. ASSUME NEW op \in {"reset", "clearHot"}, ResetOrClear(op)
      PROVE  DaemonInv'
  <2>1. controls' \in Seq(Command) /\ phase' = phase /\ handle' = handle
        /\ loadedPath' = loadedPath
    BY <1>1, <1>7, Received DEF ResetOrClear, owned
  <2>2. CASE handle = 0
    <3>1. engines' = engines
      BY <1>7, <2>2 DEF ResetOrClear
    <3>2. \/ snap' = snap
          \/ snap' = [snap EXCEPT !.status = "idle", !.cancelling = FALSE]
      BY <1>7, <2>2 DEF ResetOrClear
    <3>3. snap' \in Snap /\ snap'.model = snap.model
      BY <1>1, <1>2, <3>2
    <3> QED
      BY <2>1, <2>2, <3>1, <3>3, NoEngine
  <2>3. CASE handle # 0
    <3>1. /\ engines' = [engines EXCEPT ![handle] =
                           [Post(@, op, None) EXCEPT !.cancel = TRUE]]
          /\ snap' = [snap EXCEPT !.status = "loading", !.cancelling = FALSE]
      BY <1>7, <2>3 DEF ResetOrClear
    <3>2. snap' \in Snap /\ snap'.model = snap.model
      BY <1>2, <3>1
    <3>3. op \in Op /\ TRUE \in BOOLEAN
      BY DEF Op
    <3> QED
      BY <1>3, <2>1, <2>3, <3>1, <3>2, <3>3, Forwarded
  <2> QED
    BY <2>2, <2>3
<1> QED
  BY <1>4, <1>5, <1>6, <1>7

\* An event applied: the last one of a free worker is final.
LEMMA ApplyEventStep == DaemonInv /\ ApplyEvent => DaemonInv'
<1> SUFFICES ASSUME DaemonInv, ApplyEvent PROVE DaemonInv'
  OBVIOUS
<1> DEFINE g == engines[handle]
           event == Head(g.events)
           rest == Tail(g.events)
           w == [g EXCEPT !.events = rest]
<1>1. /\ DaemonTypeOK /\ engines \in Seq(Engine) /\ handle \in 0 .. Len(engines)
      /\ SnapshotNamesEngine
  BY DEF DaemonInv, DaemonTypeOK
<1>2. handle # 0 /\ Pending = g.events /\ g.events # << >>
  BY DEF ApplyEvent, Pending
<1>3. handle \in DOMAIN engines /\ g \in Engine
  BY <1>1, <1>2
<1>4. g.events \in Seq(Event)
  BY <1>3 DEF Engine
<1>5. /\ event \in Event
      /\ rest \in Seq(Event)
      /\ rest = << >> => event = g.events[Len(g.events)]
      /\ rest # << >> => rest[Len(rest)] = g.events[Len(g.events)]
  BY <1>2, <1>4, LastOfTail
<1>6. /\ engines' = [engines EXCEPT ![handle] = w]
      /\ snap' = [status |-> StatusAfter(event), cancelling |-> FALSE,
                  model |-> IF event = "ready" THEN loadedPath ELSE snap.model]
      /\ controls' = controls /\ phase' = phase /\ handle' = handle
      /\ loadedPath' = loadedPath
  BY <1>2 DEF ApplyEvent, owned
<1> HIDE DEF event, rest
<1>7. /\ StatusAfter(event) \in {"loading", "ready", "generating", "error"}
      /\ event \in Final => StatusAfter(event) \in {"ready", "error"}
  BY <1>5 DEF StatusAfter, Event, Final
<1>8. /\ w \in Engine /\ w.package = g.package
      /\ w.at = g.at /\ w.commands = g.commands /\ w.events = rest
  BY <1>3, <1>5 DEF Engine
<1> HIDE DEF w
<1>9. /\ engines' \in Seq(Engine) /\ Len(engines') = Len(engines)
      /\ engines'[handle] = w
  BY <1>1, <1>3, <1>6, <1>8, Replaced
<1>10. g.package = snap.model /\ loadedPath = snap.model /\ g.package \in Value
  BY <1>1, <1>2, <1>3 DEF DaemonInv, SnapshotNamesEngine, Engine
<1>11. /\ snap'.model = g.package /\ snap'.status = StatusAfter(event)
       /\ loadedPath' = snap'.model
  BY <1>6, <1>10
<1>12. snap' \in [status : {"idle", "loading", "ready", "generating", "error"},
                  cancelling : BOOLEAN, model : Value]
  BY <1>6, <1>7, <1>10
<1>13. DaemonTypeOK'
  BY <1>1, <1>6, <1>9, <1>12 DEF DaemonTypeOK
<1>14. SnapshotNamesEngine'
  BY <1>2, <1>6, <1>8, <1>9, <1>11 DEF SnapshotNamesEngine
<1>15. WillSettle(g, snap.status)
  BY <1>2 DEF DaemonInv
<1>16. WillSettle(w, StatusAfter(event))
  BY <1>2, <1>5, <1>7, <1>8, <1>15 DEF WillSettle, Free
<1> QED
  BY <1>6, <1>9, <1>11, <1>13, <1>14, <1>16 DEF DaemonInv
-----------------------------------------------------------------------------
\* Handlers only append to the control channel.
LEMMA HandlerStep ==
  ASSUME DaemonInv, NEW op \in Op, NEW arg \in Value,
         controls' = Append(controls, Control(op, arg)),
         UNCHANGED << phase, engines, owned, snap >>
  PROVE  DaemonInv'
<1>1. Control(op, arg) \in Command /\ controls \in Seq(Command)
  BY DEF Control, Command, DaemonInv, DaemonTypeOK
<1>2. controls' \in Seq(Command)
  BY <1>1
<1> QED
  BY <1>2 DEF DaemonInv, DaemonTypeOK, SnapshotNamesEngine, owned

\* The invariant holds in every reachable state.
THEOREM DaemonInvariant == Spec => []DaemonInv
<1>1. Init => DaemonInv
  BY DEF Init, DaemonInv, DaemonTypeOK, SnapshotNamesEngine, Value
<1>2. DaemonInv /\ [Next]_vars => DaemonInv'
  <2> SUFFICES ASSUME DaemonInv, [Next]_vars PROVE DaemonInv'
    OBVIOUS
  <2>1. CASE UNCHANGED vars
    BY <2>1 DEF vars, owned, DaemonInv, DaemonTypeOK, SnapshotNamesEngine
  <2>2. ASSUME NEW op \in {"unload", "generate", "cancel", "reset", "clearHot"},
               Operate(op, None)
        PROVE  DaemonInv'
    <3>1. op \in Op /\ None \in Value
      BY DEF Value, Op
    <3> QED
      BY <2>2, <3>1, HandlerStep DEF Operate
  <2>3. ASSUME NEW p \in Packages, Operate("load", p)
        PROVE  DaemonInv'
    <3>1. "load" \in Op /\ p \in Value
      BY DEF Value, Op
    <3> QED
      BY <2>3, <3>1, HandlerStep DEF Operate
  <2>4. ASSUME NEW c \in Clients, Admit(c) \/ Render(c) \/ Queue(c)
        PROVE  DaemonInv'
    <3>1. "complete" \in Op /\ c \in Value
      BY DEF Value, Op
    <3>2. CASE Queue(c)
      BY <3>1, <3>2, HandlerStep DEF Queue
    <3>3. CASE Admit(c) \/ Render(c)
      BY <3>3 DEF Admit, Render, owned, DaemonInv, DaemonTypeOK, SnapshotNamesEngine
    <3> QED
      BY <2>4, <3>2, <3>3
  <2>5. CASE Supervisor
    <3>1. CASE ControlsDrained \/ EventsDrained
      BY <3>1 DEF ControlsDrained, EventsDrained, DaemonInv, DaemonTypeOK,
         SnapshotNamesEngine, owned
    <3> QED
      BY <2>5, <3>1, LoadStep, UnloadStep, ControlStep, ApplyEventStep
         DEF Supervisor
  <2>6. ASSUME NEW e \in DOMAIN engines, Work(e) \/ Fails(e) \/ RequestFails(e)
        PROVE  DaemonInv'
    BY <2>6, WorkerStep
  <2> QED
    BY <2>1, <2>2, <2>3, <2>4, <2>5, <2>6 DEF Next
<1> QED
  BY <1>1, <1>2, PTL DEF Spec

\* The snapshot names the engine the supervisor holds, and only that one,
\* however loads, unloads and late events of retired engines interleave.
THEOREM NamesEngine == Spec => []SnapshotNamesEngine
<1>1. DaemonInv => SnapshotNamesEngine
  BY DEF DaemonInv
<1> QED
  BY <1>1, DaemonInvariant, PTL

\* Once controls, commands and events are handled, the status is settled.
THEOREM Settles == Spec => []SettledWhenQuiet
<1>1. DaemonInv => SettledWhenQuiet
  BY DEF DaemonInv, WillSettle, Free, SettledWhenQuiet, Quiet
<1> QED
  BY <1>1, DaemonInvariant, PTL
=============================================================================
