-------------------------- MODULE SchedulerProofs ---------------------------
(***************************************************************************)
(* Proofs about SchedulerCore and about SchedulerRuntime, the thread that  *)
(* owns a core, for any number of sessions and tickets, any inflight       *)
(* budget, any lane capacity and any bound on the channels.  Both modules  *)
(* keep the core in the same variable, so that what is shown of the core's *)
(* methods in the first part is what the second part uses of them.         *)
(***************************************************************************)
EXTENDS SchedulerCore, SchedulerRuntime, HelperProofs, FiniteSetTheorems

-----------------------------------------------------------------------------
(***************************************************************************)
(* Each method keeps the core well typed and consistent.                   *)
(***************************************************************************)

Good(c) == c \in CoreType /\ CoreInv(c)

\* remove_from_ready, followed by a change of the state of s and by nothing
\* else that the queue depends on.
LEMMA RemoveGood ==
  ASSUME NEW c, Good(c), NEW s \in SessionId
  PROVE  LET d == RemoveFromReady(c, s)
         IN  /\ d \in CoreType
             /\ NoDuplicates(d.ready)
             /\ \A x \in SessionId :
                  d.inReady[x] <=> Queued(d.ready, x)
             /\ \A x \in SessionId : d.inReady[x] <=> x # s /\ c.inReady[x]
             /\ d.state = c.state
             /\ d.owned = c.owned
             /\ d.inflight = c.inflight
             /\ d.nextSession = c.nextSession
             /\ d.nextTicket = c.nextTicket
<1> DEFINE d == RemoveFromReady(c, s)
<1>1. c.ready \in Seq(SessionId) /\ NoDuplicates(c.ready)
  BY DEF Good, CoreType, CoreInv, QueueConsistent
<1>2. /\ Retain(c.ready, s) \in Seq(SessionId)
      /\ NoDuplicates(Retain(c.ready, s))
      /\ \A x \in SessionId :
           Queued(Retain(c.ready, s), x) <=> x # s /\ Queued(c.ready, x)
  BY <1>1, RetainQueue
<1>3. /\ d.ready = Retain(c.ready, s)
      /\ d.inReady = [c.inReady EXCEPT ![s] = FALSE]
      /\ d.state = c.state
      /\ d.owned = c.owned
      /\ d.inflight = c.inflight
      /\ d.nextSession = c.nextSession
      /\ d.nextTicket = c.nextTicket
  BY DEF RemoveFromReady, Good, CoreType
<1>4. d \in CoreType
  BY <1>2 DEF RemoveFromReady, Good, CoreType
<1>5. \A x \in SessionId : d.inReady[x] <=> x # s /\ c.inReady[x]
  BY <1>3 DEF Good, CoreType
<1>6. \A x \in SessionId : d.inReady[x] <=> Queued(d.ready, x)
  BY <1>2, <1>3, <1>5 DEF Good, CoreInv, QueueConsistent
<1> QED
  BY <1>2, <1>3, <1>4, <1>5, <1>6

\* SchedulerCore::new is consistent.
LEMMA NewCoreGood == Good(NewCore)
<1> USE CoreConstants DEF NewCore
<1>1. NewCore \in CoreType
  BY DEF CoreType, SessionState, SessionId, Ticket, NoOwner
<1>2. QueueConsistent(NewCore)
  BY DEF QueueConsistent, NoDuplicates, Queued
<1>3. TicketsConsistent(NewCore)
  BY DEF TicketsConsistent, SessionId, Ticket, NoOwner
<1>4. IdsFresh(NewCore)
  BY DEF IdsFresh, SessionId, Ticket
<1> QED
  BY <1>1, <1>2, <1>3, <1>4 DEF Good, CoreInv

\* The queue part of push_back, for a session that is not queued yet.
LEMMA PushBackQueue ==
  ASSUME NEW c, c \in CoreType, NEW s \in SessionId,
         NoDuplicates(c.ready),
         \A x \in SessionId : c.inReady[x] <=> Queued(c.ready, x),
         ~ c.inReady[s]
  PROVE  LET d == PushBack(c, s)
         IN  /\ d \in CoreType
             /\ NoDuplicates(d.ready)
             /\ \A x \in SessionId : d.inReady[x] <=> Queued(d.ready, x)
             /\ \A x \in SessionId : d.inReady[x] <=> x = s \/ c.inReady[x]
             /\ d.state = c.state
             /\ d.owned = c.owned
             /\ d.inflight = c.inflight
             /\ d.nextSession = c.nextSession
             /\ d.nextTicket = c.nextTicket
<1> DEFINE d == PushBack(c, s)
<1>1. c.ready \in Seq(SessionId) /\ ~ Queued(c.ready, s)
  BY DEF CoreType
<1>2. /\ Append(c.ready, s) \in Seq(SessionId)
      /\ NoDuplicates(Append(c.ready, s))
      /\ \A x \in SessionId :
           Queued(Append(c.ready, s), x) <=> x = s \/ Queued(c.ready, x)
  BY <1>1, AppendQueue
<1>3. /\ d \in CoreType
      /\ d.ready = Append(c.ready, s)
      /\ d.inReady = [c.inReady EXCEPT ![s] = TRUE]
      /\ d.state = c.state
      /\ d.owned = c.owned
      /\ d.inflight = c.inflight
      /\ d.nextSession = c.nextSession
      /\ d.nextTicket = c.nextTicket
  BY <1>2 DEF CoreType, PushBack
<1>4. \A x \in SessionId : d.inReady[x] <=> x = s \/ c.inReady[x]
  BY <1>3 DEF CoreType
<1> QED
  BY <1>2, <1>3, <1>4

\* enqueue_if_runnable queues a runnable session that is not queued, once.
LEMMA EnqueueGood ==
  ASSUME NEW c, Good(c), NEW s \in SessionId
  PROVE  LET d == EnqueueIfRunnable(c, s)
         IN  /\ Good(d)
             /\ d.state = c.state
             /\ d.inflight = c.inflight
             /\ \A x \in SessionId :
                  d.inReady[x] <=>
                    c.inReady[x] \/ (x = s /\ c.state[s] = "Runnable")
<1>1. CASE c.state[s] = "Runnable" /\ ~ c.inReady[s]
  <2> DEFINE d == PushBack(c, s)
  <2>1. /\ d \in CoreType
        /\ NoDuplicates(d.ready)
        /\ \A x \in SessionId : d.inReady[x] <=> Queued(d.ready, x)
        /\ \A x \in SessionId : d.inReady[x] <=> x = s \/ c.inReady[x]
        /\ d.state = c.state
        /\ d.owned = c.owned
        /\ d.inflight = c.inflight
        /\ d.nextSession = c.nextSession
        /\ d.nextTicket = c.nextTicket
    BY <1>1, PushBackQueue DEF Good, CoreInv, QueueConsistent
  <2>2. EnqueueIfRunnable(c, s) = d
    BY <1>1 DEF EnqueueIfRunnable
  <2> HIDE DEF d
  <2>3. QueueConsistent(d)
    BY <1>1, <2>1 DEF QueueConsistent, Good, CoreInv
  <2>4. TicketsConsistent(d) /\ IdsFresh(d)
    BY <2>1 DEF TicketsConsistent, IdsFresh, Good, CoreInv
  <2> QED
    BY <1>1, <2>1, <2>2, <2>3, <2>4 DEF Good, CoreInv
<1>2. CASE ~ (c.state[s] = "Runnable" /\ ~ c.inReady[s])
  BY <1>2 DEF EnqueueIfRunnable, Good, CoreInv, QueueConsistent
<1> QED
  BY <1>1, <1>2

\* create_session takes a fresh id and queues it.
LEMMA CreateGood ==
  ASSUME NEW c, Good(c), c.nextSession < MaxSessions
  PROVE  LET s == c.nextSession
             d == CreateSession(c)
         IN  /\ Good(d)
             /\ s \in SessionId
             /\ c.state[s] = "Absent"
             /\ d.state = [c.state EXCEPT ![s] = "Runnable"]
             /\ d.inflight = c.inflight
             /\ \A x \in SessionId : d.inReady[x] <=> x = s \/ c.inReady[x]
<1> DEFINE s == c.nextSession
           e == [c EXCEPT !.nextSession = @ + 1, !.state[s] = "Runnable"]
           d == PushBack(e, s)
<1>1. s \in SessionId /\ c.state[s] = "Absent" /\ ~ c.inReady[s] /\ c.owned[s] = {}
  BY CoreConstants DEF Good, CoreType, CoreInv, IdsFresh, SessionId,
     QueueConsistent, TicketsConsistent
<1>2. s + 1 \in 0 .. MaxSessions
  BY CoreConstants DEF Good, CoreType
<1>3. /\ e \in CoreType
      /\ e.state = [c.state EXCEPT ![s] = "Runnable"]
      /\ e.inReady = c.inReady
      /\ e.ready = c.ready
      /\ e.owned = c.owned
      /\ e.inflight = c.inflight
      /\ e.nextSession = s + 1
      /\ e.nextTicket = c.nextTicket
  BY <1>2 DEF Good, CoreType, SessionState
<1> HIDE DEF e
<1>4. /\ d \in CoreType
      /\ NoDuplicates(d.ready)
      /\ \A x \in SessionId : d.inReady[x] <=> Queued(d.ready, x)
      /\ \A x \in SessionId : d.inReady[x] <=> x = s \/ c.inReady[x]
      /\ d.state = [c.state EXCEPT ![s] = "Runnable"]
      /\ d.owned = c.owned
      /\ d.inflight = c.inflight
      /\ d.nextSession = s + 1
      /\ d.nextTicket = c.nextTicket
  BY <1>1, <1>3, PushBackQueue DEF Good, CoreInv, QueueConsistent
<1> HIDE DEF d, s
<1>5. c.state \in [SessionId -> SessionState] /\ s \in Int
  BY CoreConstants DEF Good, CoreType, s
<1>6. QueueConsistent(d)
  BY <1>1, <1>4, <1>5 DEF QueueConsistent, Good, CoreInv
<1>7. TicketsConsistent(d)
  BY <1>1, <1>4, <1>5 DEF TicketsConsistent, Good, CoreInv
<1>8. IdsFresh(d)
  <2>1. ASSUME NEW x \in SessionId
        PROVE  d.state[x] = "Absent" <=> x >= d.nextSession
    <3>1. x \in Int /\ (c.state[x] = "Absent" <=> x >= s)
      BY CoreConstants DEF IdsFresh, Good, CoreInv, SessionId, s
    <3>2. d.state[x] = IF x = s THEN "Runnable" ELSE c.state[x]
      BY <1>1, <1>4, <1>5
    <3> QED
      BY <1>4, <1>5, <3>1, <3>2
  <2>2. \A t \in Ticket : t >= d.nextTicket => d.inflight[t] = NoOwner
    BY <1>4 DEF IdsFresh, Good, CoreInv
  <2> QED
    BY <2>1, <2>2 DEF IdsFresh
<1>9. CreateSession(c) = d
  BY DEF CreateSession, d, e, s
<1> QED
  BY <1>1, <1>4, <1>6, <1>7, <1>8, <1>9 DEF Good, CoreInv, s

\* block on a runnable session.
LEMMA BlockGood ==
  ASSUME NEW c, Good(c), NEW s \in SessionId, c.state[s] = "Runnable"
  PROVE  LET d == Block(c, s).core
         IN  /\ Good(d)
             /\ d.state = [c.state EXCEPT ![s] = "Blocked"]
             /\ \A x \in SessionId : d.inReady[x] <=> x # s /\ c.inReady[x]
             /\ d.inflight = c.inflight
<1> DEFINE e == RemoveFromReady(c, s)
           d == [e EXCEPT !.state[s] = "Blocked"]
<1>1. /\ e \in CoreType
      /\ NoDuplicates(e.ready)
      /\ \A x \in SessionId : e.inReady[x] <=> Queued(e.ready, x)
      /\ \A x \in SessionId : e.inReady[x] <=> x # s /\ c.inReady[x]
      /\ e.state = c.state
      /\ e.owned = c.owned
      /\ e.inflight = c.inflight
      /\ e.nextSession = c.nextSession
      /\ e.nextTicket = c.nextTicket
  BY RemoveGood
<1>2. Block(c, s).core = d
  BY DEF Block, NoEffects, Ret
<1> HIDE DEF e
<1>3. /\ d \in CoreType
      /\ d.state = [c.state EXCEPT ![s] = "Blocked"]
      /\ d.inReady = e.inReady
      /\ d.ready = e.ready
      /\ d.owned = c.owned
      /\ d.inflight = c.inflight
      /\ d.nextSession = c.nextSession
      /\ d.nextTicket = c.nextTicket
  BY <1>1 DEF CoreType, SessionState
<1> HIDE DEF d
<1>4. c.state \in [SessionId -> SessionState]
  BY DEF Good, CoreType
<1>5. QueueConsistent(d)
  BY <1>1, <1>3, <1>4 DEF QueueConsistent, Good, CoreInv
<1>6. TicketsConsistent(d)
  BY <1>3, <1>4 DEF TicketsConsistent, Good, CoreInv
<1>7. IdsFresh(d)
  BY <1>3, <1>4 DEF IdsFresh, Good, CoreInv
<1> QED
  BY <1>1, <1>2, <1>3, <1>5, <1>6, <1>7 DEF Good, CoreInv

\* A blocked session becomes runnable and queued, in wake and in complete.
LEMMA UnblockGood ==
  ASSUME NEW c, Good(c), NEW s \in SessionId, c.state[s] = "Blocked"
  PROVE  LET d == PushBack([c EXCEPT !.state[s] = "Runnable"], s)
         IN  /\ Good(d)
             /\ d.state = [c.state EXCEPT ![s] = "Runnable"]
             /\ \A x \in SessionId : d.inReady[x] <=> x = s \/ c.inReady[x]
             /\ d.inflight = c.inflight
<1> DEFINE e == [c EXCEPT !.state[s] = "Runnable"]
           d == PushBack(e, s)
<1>1. ~ c.inReady[s] /\ c.state \in [SessionId -> SessionState]
  BY DEF Good, CoreInv, QueueConsistent, CoreType
<1>2. /\ e \in CoreType
      /\ e.state = [c.state EXCEPT ![s] = "Runnable"]
      /\ e.inReady = c.inReady
      /\ e.ready = c.ready
      /\ e.owned = c.owned
      /\ e.inflight = c.inflight
      /\ e.nextSession = c.nextSession
      /\ e.nextTicket = c.nextTicket
  BY DEF Good, CoreType, SessionState
<1> HIDE DEF e
<1>3. /\ d \in CoreType
      /\ NoDuplicates(d.ready)
      /\ \A x \in SessionId : d.inReady[x] <=> Queued(d.ready, x)
      /\ \A x \in SessionId : d.inReady[x] <=> x = s \/ c.inReady[x]
      /\ d.state = [c.state EXCEPT ![s] = "Runnable"]
      /\ d.owned = c.owned
      /\ d.inflight = c.inflight
      /\ d.nextSession = c.nextSession
      /\ d.nextTicket = c.nextTicket
  BY <1>1, <1>2, PushBackQueue DEF Good, CoreInv, QueueConsistent
<1> HIDE DEF d
<1>4. QueueConsistent(d)
  BY <1>1, <1>3 DEF QueueConsistent, Good, CoreInv
<1>5. TicketsConsistent(d)
  BY <1>1, <1>3 DEF TicketsConsistent, Good, CoreInv
<1>6. IdsFresh(d)
  BY <1>1, <1>3 DEF IdsFresh, Good, CoreInv
<1>7. d = PushBack([c EXCEPT !.state[s] = "Runnable"], s)
  BY DEF d, e
<1> QED
  BY <1>3, <1>4, <1>5, <1>6, <1>7 DEF Good, CoreInv

\* wake on a blocked session, as UnblockGood has it.
LEMMA WakeGood ==
  ASSUME NEW c, Good(c), NEW s \in SessionId, c.state[s] = "Blocked"
  PROVE  Wake(c, s).core = PushBack([c EXCEPT !.state[s] = "Runnable"], s)
<1> DEFINE e == [c EXCEPT !.state[s] = "Runnable"]
<1>1. e.state[s] = "Runnable" /\ ~ e.inReady[s]
  BY DEF Good, CoreInv, CoreType, QueueConsistent
<1>2. EnqueueIfRunnable(e, s) = PushBack(e, s)
  BY <1>1 DEF EnqueueIfRunnable
<1> QED
  BY <1>2 DEF Wake, Ret

\* The accepted case of submit.
LEMMA SubmitGood ==
  ASSUME NEW c, Good(c), NEW s \in SessionId,
         c.state[s] = "Runnable", c.nextTicket < MaxTickets
  PROVE  LET d == Submit(c, s)
         IN  /\ Good(d)
             /\ d.state = c.state
             /\ d.inReady = c.inReady
             /\ c.nextTicket \in Ticket
             /\ Live(d) = Live(c) \cup {c.nextTicket}
<1> DEFINE t == c.nextTicket
           e == [c EXCEPT !.nextTicket = @ + 1, !.owned[s] = @ \cup {t}]
           d == [e EXCEPT !.inflight[t] = s]
<1>1. t \in Ticket /\ t \in Int /\ t + 1 \in 0 .. MaxTickets
  BY CoreConstants DEF Good, CoreType, Ticket
<1>2. c.inflight[t] = NoOwner /\ \A x \in SessionId : t \notin c.owned[x]
  BY <1>1 DEF Good, CoreInv, IdsFresh, TicketsConsistent, SessionId, NoOwner
<1>3. /\ e \in CoreType
      /\ e.state = c.state
      /\ e.inReady = c.inReady
      /\ e.ready = c.ready
      /\ e.owned = [c.owned EXCEPT ![s] = @ \cup {t}]
      /\ e.inflight = c.inflight
      /\ e.nextSession = c.nextSession
      /\ e.nextTicket = t + 1
  BY <1>1 DEF Good, CoreType
<1>4. Submit(c, s) = d
  BY DEF Submit
<1> HIDE DEF e
<1>5. /\ d \in CoreType
      /\ d.state = c.state
      /\ d.inReady = c.inReady
      /\ d.ready = c.ready
      /\ d.owned = [c.owned EXCEPT ![s] = @ \cup {t}]
      /\ d.inflight = [c.inflight EXCEPT ![t] = s]
      /\ d.nextSession = c.nextSession
      /\ d.nextTicket = t + 1
  BY <1>1, <1>3 DEF CoreType
<1> HIDE DEF d, t
<1>6. /\ c.owned \in [SessionId -> SUBSET Ticket]
      /\ c.inflight \in [Ticket -> SessionId \cup {NoOwner}]
  BY DEF Good, CoreType
<1>7. QueueConsistent(d)
  BY <1>5 DEF QueueConsistent, Good, CoreInv
<1>8. TicketsConsistent(d)
  <2>1. ASSUME NEW x \in SessionId, NEW u \in Ticket
        PROVE  u \in d.owned[x] <=> d.inflight[u] = x
    BY <1>1, <1>2, <1>5, <1>6 DEF TicketsConsistent, Good, CoreInv
  <2>2. \A x \in SessionId :
          d.owned[x] # {} => d.state[x] \in {"Runnable", "Blocked"}
    BY <1>5, <1>6 DEF TicketsConsistent, Good, CoreInv
  <2> QED
    BY <2>1, <2>2 DEF TicketsConsistent
<1>9. IdsFresh(d)
  <2>1. ASSUME NEW u \in Ticket, u >= d.nextTicket PROVE d.inflight[u] = NoOwner
    <3>1. u \in Int /\ u # t /\ u >= c.nextTicket
      BY <1>1, <1>5, <2>1, CoreConstants DEF Ticket, t
    <3> QED
      BY <1>5, <1>6, <3>1 DEF IdsFresh, Good, CoreInv
  <2> QED
    BY <1>5, <2>1 DEF IdsFresh, Good, CoreInv
<1>10. Live(d) = Live(c) \cup {t}
  BY <1>1, <1>5, <1>6, CoreConstants DEF Live, SessionId, NoOwner
<1> QED
  BY <1>1, <1>4, <1>5, <1>7, <1>8, <1>9, <1>10 DEF Good, CoreInv, t

\* complete takes the ticket away from its owner.
LEMMA ConsumeGood ==
  ASSUME NEW c, Good(c), NEW t \in Ticket, c.inflight[t] # NoOwner
  PROVE  LET d == Consume(c, t)
         IN  /\ Good(d)
             /\ c.inflight[t] \in SessionId
             /\ c.state[c.inflight[t]] \in {"Runnable", "Blocked"}
             /\ d.state = c.state
             /\ d.inReady = c.inReady
             /\ d.inflight = [c.inflight EXCEPT ![t] = NoOwner]
             /\ Live(d) = Live(c) \ {t}
<1> DEFINE s == c.inflight[t]
           d == Consume(c, t)
<1>1. s \in SessionId
  BY DEF Good, CoreType
<1>2. t \in c.owned[s] /\ c.state[s] \in {"Runnable", "Blocked"}
  BY <1>1 DEF Good, CoreInv, TicketsConsistent
<1>3. /\ c.owned \in [SessionId -> SUBSET Ticket]
      /\ c.inflight \in [Ticket -> SessionId \cup {NoOwner}]
  BY DEF Good, CoreType
<1>4. /\ d \in CoreType
      /\ d.state = c.state
      /\ d.inReady = c.inReady
      /\ d.ready = c.ready
      /\ d.owned = [c.owned EXCEPT ![s] = @ \ {t}]
      /\ d.inflight = [c.inflight EXCEPT ![t] = NoOwner]
      /\ d.nextSession = c.nextSession
      /\ d.nextTicket = c.nextTicket
  BY <1>1 DEF Good, CoreType, Consume
<1> HIDE DEF d
<1>5. QueueConsistent(d)
  BY <1>4 DEF QueueConsistent, Good, CoreInv
<1>6. TicketsConsistent(d)
  <2>1. \A x \in SessionId : NoOwner # x
    BY CoreConstants DEF SessionId, NoOwner
  <2>2. ASSUME NEW x \in SessionId, NEW u \in Ticket
        PROVE  u \in d.owned[x] <=> d.inflight[u] = x
    BY <1>1, <1>2, <1>3, <1>4, <2>1 DEF TicketsConsistent, Good, CoreInv
  <2>3. \A x \in SessionId :
          d.owned[x] # {} => d.state[x] \in {"Runnable", "Blocked"}
    BY <1>3, <1>4 DEF TicketsConsistent, Good, CoreInv
  <2> QED
    BY <2>2, <2>3 DEF TicketsConsistent
<1>7. IdsFresh(d)
  BY <1>3, <1>4 DEF IdsFresh, Good, CoreInv
<1>8. Live(d) = Live(c) \ {t}
  BY <1>3, <1>4 DEF Live
<1> QED
  BY <1>1, <1>2, <1>4, <1>5, <1>6, <1>7, <1>8 DEF Good, CoreInv, d

\* The states in which a session owns neither queue entry nor tickets.
Ending == {"Cancelling", "Finished", "Failed"}

\* cancel, finish and fail on a session that is not terminal: the session
\* leaves the queue and loses all its tickets, and nobody else is touched.
LEMMA RevokeGood ==
  ASSUME NEW c, Good(c), NEW s \in SessionId, c.state[s] # "Absent",
         NEW final \in Ending
  PROVE  LET d == RevokeTo(c, s, final)
         IN  /\ Good(d)
             /\ d.state = [c.state EXCEPT ![s] = final]
             /\ \A x \in SessionId : d.inReady[x] <=> x # s /\ c.inReady[x]
             /\ \A u \in Ticket :
                  d.inflight[u] = c.inflight[u] \/ d.inflight[u] = NoOwner
             /\ Live(d) = Live(c) \ c.owned[s]
<1> DEFINE f == [t \in Ticket |-> IF t \in c.owned[s] THEN NoOwner
                                                     ELSE c.inflight[t]]
           q == RemoveFromReady(c, s)
           e == [q EXCEPT !.owned[s] = {}, !.inflight = f]
           d == [e EXCEPT !.state[s] = final]
<1>1. /\ q \in CoreType
      /\ NoDuplicates(q.ready)
      /\ \A x \in SessionId : q.inReady[x] <=> Queued(q.ready, x)
      /\ \A x \in SessionId : q.inReady[x] <=> x # s /\ c.inReady[x]
      /\ q.state = c.state
      /\ q.owned = c.owned
      /\ q.inflight = c.inflight
      /\ q.nextSession = c.nextSession
      /\ q.nextTicket = c.nextTicket
  BY RemoveGood
<1>2. /\ c.owned \in [SessionId -> SUBSET Ticket]
      /\ c.inflight \in [Ticket -> SessionId \cup {NoOwner}]
      /\ c.state \in [SessionId -> SessionState]
  BY DEF Good, CoreType
<1>3. f \in [Ticket -> SessionId \cup {NoOwner}]
  BY <1>2
<1>4. Revoke(c, s) = e
  BY <1>1 DEF Revoke
<1> HIDE DEF q, f
<1>5. /\ e \in CoreType
      /\ e.state = c.state
      /\ e.inReady = q.inReady
      /\ e.ready = q.ready
      /\ e.owned = [c.owned EXCEPT ![s] = {}]
      /\ e.inflight = f
      /\ e.nextSession = c.nextSession
      /\ e.nextTicket = c.nextTicket
  BY <1>1, <1>3 DEF CoreType
<1> HIDE DEF e
<1>6. /\ d \in CoreType
      /\ d.state = [c.state EXCEPT ![s] = final]
      /\ d.inReady = q.inReady
      /\ d.ready = q.ready
      /\ d.owned = [c.owned EXCEPT ![s] = {}]
      /\ d.inflight = f
      /\ d.nextSession = c.nextSession
      /\ d.nextTicket = c.nextTicket
  BY <1>5 DEF CoreType, SessionState, Ending
<1> HIDE DEF d
<1>7. \A u \in Ticket :
        d.inflight[u] = IF u \in c.owned[s] THEN NoOwner ELSE c.inflight[u]
  BY <1>6 DEF f
<1>8. QueueConsistent(d)
  BY <1>1, <1>2, <1>6 DEF QueueConsistent, Good, CoreInv
<1>9. TicketsConsistent(d)
  <2>1. \A x \in SessionId : NoOwner # x
    BY CoreConstants DEF SessionId, NoOwner
  <2>2. ASSUME NEW x \in SessionId, NEW u \in Ticket
        PROVE  u \in d.owned[x] <=> d.inflight[u] = x
    BY <1>2, <1>6, <1>7, <2>1 DEF TicketsConsistent, Good, CoreInv
  <2>3. \A x \in SessionId :
          d.owned[x] # {} => d.state[x] \in {"Runnable", "Blocked"}
    BY <1>2, <1>6 DEF TicketsConsistent, Good, CoreInv
  <2> QED
    BY <2>2, <2>3 DEF TicketsConsistent
<1>10. IdsFresh(d)
  BY <1>2, <1>6, <1>7 DEF IdsFresh, Good, CoreInv, Ending
<1>11. Live(d) = Live(c) \ c.owned[s]
  BY <1>7 DEF Live
<1>12. d = RevokeTo(c, s, final)
  BY <1>4 DEF d, RevokeTo
<1> QED
  BY <1>1, <1>6, <1>7, <1>8, <1>9, <1>10, <1>11, <1>12 DEF Good, CoreInv

\* In a consistent queue nothing is skipped: step runs the front session.
LEMMA StepGood ==
  ASSUME NEW c, Good(c), Valid(c) # {}
  PROVE  LET d == Step(c)
             s == StepRuns(c)
         IN  /\ Good(d)
             /\ s \in SessionId
             /\ d.state = c.state
             /\ d.inflight = c.inflight
             /\ \A x \in SessionId : d.inReady[x] <=> x # s /\ c.inReady[x]
<1> DEFINE q == c.ready
           s == q[1]
           r == SubSeq(q, 2, Len(q))
           d == [c EXCEPT !.ready = r, !.inReady[s] = FALSE]
<1>1. q \in Seq(SessionId) /\ NoDuplicates(q)
  BY DEF Good, CoreType, CoreInv, QueueConsistent
<1>2. \A i \in 1 .. Len(q) : q[i] \in SessionId /\ i \in Valid(c)
  BY <1>1 DEF Valid, Good, CoreInv, QueueConsistent, Queued
<1>3. 1 \in 1 .. Len(q) /\ Len(q) \in Nat
  BY <1>1 DEF Valid
<1>4. FirstValid(c) = 1
  BY <1>2, <1>3 DEF FirstValid, Valid
<1>5. Step(c) = d /\ StepRuns(c) = s /\ s \in SessionId
  BY <1>2, <1>3, <1>4 DEF Step, StepRuns
<1>6. /\ r \in Seq(SessionId)
      /\ Len(r) = Len(q) - 1
      /\ \A i \in 1 .. Len(r) : r[i] = q[i + 1]
  BY <1>1, <1>3
<1> HIDE DEF q, r
<1>7. NoDuplicates(r)
  BY <1>1, <1>3, <1>6 DEF NoDuplicates
<1>8. ASSUME NEW x \in SessionId PROVE Queued(r, x) <=> x # s /\ Queued(q, x)
  <2>1. ASSUME Queued(r, x) PROVE x # s /\ Queued(q, x)
    BY <1>1, <1>3, <1>6, <2>1 DEF Queued, NoDuplicates
  <2>2. ASSUME x # s, Queued(q, x) PROVE Queued(r, x)
    <3>1. PICK i \in 1 .. Len(q) : q[i] = x
      BY <2>2 DEF Queued
    <3>2. i - 1 \in 1 .. Len(r) /\ r[i - 1] = x
      BY <1>3, <1>6, <2>2, <3>1
    <3> QED
      BY <3>2 DEF Queued
  <2> QED
    BY <2>1, <2>2
<1>9. /\ d \in CoreType
      /\ d.ready = r
      /\ d.inReady = [c.inReady EXCEPT ![s] = FALSE]
      /\ d.state = c.state
      /\ d.owned = c.owned
      /\ d.inflight = c.inflight
      /\ d.nextSession = c.nextSession
      /\ d.nextTicket = c.nextTicket
  BY <1>5, <1>6 DEF Good, CoreType
<1> HIDE DEF d
<1>10. \A x \in SessionId : d.inReady[x] <=> x # s /\ c.inReady[x]
  BY <1>9 DEF Good, CoreType
<1>11. QueueConsistent(d)
  BY <1>7, <1>8, <1>9, <1>10 DEF QueueConsistent, Good, CoreInv, q
<1>12. TicketsConsistent(d) /\ IdsFresh(d)
  BY <1>9 DEF TicketsConsistent, IdsFresh, Good, CoreInv
<1> QED
  BY <1>5, <1>9, <1>10, <1>11, <1>12 DEF Good, CoreInv
-----------------------------------------------------------------------------
(***************************************************************************)
(* The inductive invariant of the specification.  Consistency of the core  *)
(* alone is inductive; the driver's view of tickets, terminal states and   *)
(* sessions follows it step by step.                                       *)
(***************************************************************************)
IInv ==
  /\ TypeOK
  /\ CoreConsistent
  /\ DispatchMatchesInflight
  /\ TerminalReported
  /\ NoSessionLost

\* What every step guarantees about the core, from which the action
\* properties follow.
StepOK ==
  /\ \A s \in SessionId :
       /\ core.state[s] \in Terminal => core'.state[s] = core.state[s]
       /\ core.state[s] = "Cancelling" =>
            core'.state[s] \in {"Cancelling"} \cup Terminal
  /\ \A t \in Ticket :
       /\ t < core.nextTicket /\ core.inflight[t] = NoOwner =>
            core'.inflight[t] = NoOwner
       /\ core.inflight[t] # NoOwner =>
            core'.inflight[t] \in {core.inflight[t], NoOwner}

\* The initial state satisfies the inductive invariant.
LEMMA InitIInv == Init => IInv
<1> SUFFICES ASSUME Init PROVE IInv
  OBVIOUS
<1>1. core = NewCore /\ Good(core)
  BY NewCoreGood DEF Init
<1>2. TypeOK
  BY <1>1 DEF Init, TypeOK, Good
<1>3. DispatchMatchesInflight /\ TerminalReported /\ NoSessionLost
  BY <1>1 DEF Init, NewCore, DispatchMatchesInflight, Live, TerminalReported,
     NoSessionLost, Terminal
<1> QED
  BY <1>1, <1>2, <1>3 DEF IInv, CoreConsistent, Good

\* A call that gives one session s the state new, possibly the one it had.
LEMMA SessionStep ==
  ASSUME IInv, NEW s \in SessionId, NEW new \in SessionState,
         Good(core'),
         core'.state = [core.state EXCEPT ![s] = new],
         \A x \in SessionId \ {s} : core.inReady[x] => core'.inReady[x],
         held' \in SUBSET SessionId,
         \A x \in SessionId \ {s} : x \in held => x \in held',
         new = "Runnable" => core'.inReady[s] \/ s \in held',
         dispatched' = Live(core'),
         reported' = [reported EXCEPT ![s] = @ \cup ({new} \cap Terminal)],
         core.state[s] \in Terminal => new = core.state[s],
         core.state[s] = "Cancelling" => new \in {"Cancelling"} \cup Terminal,
         \A t \in Ticket :
           /\ t < core.nextTicket /\ core.inflight[t] = NoOwner =>
                core'.inflight[t] = NoOwner
           /\ core.inflight[t] # NoOwner =>
                core'.inflight[t] \in {core.inflight[t], NoOwner}
  PROVE  IInv' /\ StepOK
<1>1. core.state \in [SessionId -> SessionState]
  BY DEF IInv, TypeOK, CoreType
<1>2. \A x \in SessionId :
        core'.state[x] = IF x = s THEN new ELSE core.state[x]
  BY <1>1
<1>3. TypeOK'
  BY DEF IInv, TypeOK, Good, Live
<1>4. CoreConsistent' /\ DispatchMatchesInflight'
  BY DEF CoreConsistent, DispatchMatchesInflight, Good, Live
<1>5. TerminalReported'
  <2>1. \A x \in SessionId : reported[x] = {core.state[x]} \cap Terminal
    BY DEF IInv, TerminalReported
  <2>2. reported \in [SessionId -> SUBSET Terminal]
    BY DEF IInv, TypeOK
  <2>3. ASSUME NEW x \in SessionId
        PROVE  reported'[x] = {core'.state[x]} \cap Terminal
    <3>1. CASE x = s
      BY <1>2, <2>1, <2>2, <3>1
    <3>2. CASE x # s
      BY <1>2, <2>1, <2>2, <3>2
    <3> QED
      BY <3>1, <3>2
  <2> QED
    BY <2>3 DEF TerminalReported
<1>6. NoSessionLost'
  BY <1>2 DEF IInv, NoSessionLost
<1>7. StepOK
  BY <1>2 DEF StepOK
<1> QED
  BY <1>3, <1>4, <1>5, <1>6, <1>7 DEF IInv

\* A call that leaves the core alone and emits nothing; the driver may still
\* let go of a session that it need not run.
LEMMA NoEffectStep ==
  ASSUME IInv, NEW s, core' = core, dispatched' = dispatched,
         reported' = reported,
         \/ held' = held
         \/ /\ held' = held \ {s}
            /\ s \in SessionId
            /\ core.state[s] = "Runnable" => core.inReady[s]
  PROVE  IInv' /\ StepOK
<1> USE DEF IInv
<1>1. TypeOK' /\ CoreConsistent' /\ DispatchMatchesInflight' /\ TerminalReported'
  BY DEF TypeOK, CoreConsistent, DispatchMatchesInflight, TerminalReported
<1>2. NoSessionLost'
  BY DEF NoSessionLost
<1>3. StepOK
  BY DEF StepOK
<1> QED
  BY <1>1, <1>2, <1>3

\* Observing a return value without effects leaves the driver's view alone.
LEMMA ObserveNothing ==
  ASSUME IInv, NEW s \in SessionId, Observe(NoEffects(core), s)
  PROVE  core' = core /\ dispatched' = dispatched /\ reported' = reported
BY DEF Observe, NoEffects, Ret, IInv, TypeOK, Terminal
-----------------------------------------------------------------------------
\* create_session adds a runnable, queued session and touches no other.
LEMMA CreateStep == IInv /\ DoCreate => IInv' /\ StepOK
<1> SUFFICES ASSUME IInv, DoCreate PROVE IInv' /\ StepOK
  OBVIOUS
<1> DEFINE s == core.nextSession
<1>1. Good(core)
  BY DEF IInv, TypeOK, CoreConsistent, Good
<1>2. core' = CreateSession(core) /\ core.nextSession < MaxSessions
  BY DEF DoCreate
<1>3. /\ Good(core')
      /\ s \in SessionId
      /\ core.state[s] = "Absent"
      /\ core'.state = [core.state EXCEPT ![s] = "Runnable"]
      /\ core'.inflight = core.inflight
      /\ \A x \in SessionId : core'.inReady[x] <=> x = s \/ core.inReady[x]
  BY <1>1, <1>2, CreateGood
<1> HIDE DEF s
<1>4. dispatched' = Live(core')
  BY <1>3 DEF DoCreate, IInv, DispatchMatchesInflight, Live
<1>5. reported' = [reported EXCEPT ![s] = @ \cup ({"Runnable"} \cap Terminal)]
  BY DEF DoCreate, IInv, TypeOK, Terminal
<1>6. held' = held /\ held \in SUBSET SessionId
  BY DEF DoCreate, IInv, TypeOK
<1> QED
  BY <1>3, <1>4, <1>5, <1>6, SessionStep DEF SessionState, Terminal

\* submit adds one live ticket, which the driver is told to dispatch.
LEMMA SubmitStep ==
  ASSUME IInv, NEW s \in SessionId, DoSubmit(s) PROVE IInv' /\ StepOK
<1>1. Good(core)
  BY DEF IInv, TypeOK, CoreConsistent, Good
<1>2. /\ core' = Submit(core, s)
      /\ core.state[s] = "Runnable"
      /\ core.nextTicket < MaxTickets
  BY DEF DoSubmit, SubmitAllowed
<1>3. /\ Good(core')
      /\ core'.state = core.state
      /\ core'.inReady = core.inReady
      /\ core.nextTicket \in Ticket
      /\ Live(core') = Live(core) \cup {core.nextTicket}
  BY <1>1, <1>2, SubmitGood
<1>4. core'.inflight = [core.inflight EXCEPT ![core.nextTicket] = s]
  BY <1>1, <1>2, <1>3 DEF Submit, Good, CoreType
<1>5. \A t \in Ticket :
        /\ t < core.nextTicket /\ core.inflight[t] = NoOwner =>
             core'.inflight[t] = NoOwner
        /\ core.inflight[t] # NoOwner =>
             core'.inflight[t] \in {core.inflight[t], NoOwner}
  <2>1. core.inflight[core.nextTicket] = NoOwner
    BY <1>1, <1>3, CoreConstants DEF Good, CoreInv, IdsFresh, Ticket
  <2> QED
    BY <1>1, <1>3, <1>4, <2>1, CoreConstants DEF Good, CoreType, Ticket
<1>6. dispatched' = Live(core')
  BY <1>3 DEF DoSubmit, IInv, DispatchMatchesInflight, Live
<1>7. reported' = [reported EXCEPT ![s] = @ \cup ({"Runnable"} \cap Terminal)]
  BY DEF DoSubmit, IInv, TypeOK, Terminal
<1>8. held' = held /\ held \in SUBSET SessionId
  BY DEF DoSubmit, IInv, TypeOK
<1>9. core'.state = [core.state EXCEPT ![s] = "Runnable"]
  BY <1>1, <1>2, <1>3 DEF Good, CoreType
<1>10. core'.inReady[s] \/ s \in held'
  BY <1>2, <1>3, <1>8 DEF IInv, NoSessionLost
<1> QED
  BY <1>2, <1>3, <1>5, <1>6, <1>7, <1>8, <1>9, <1>10, SessionStep
     DEF SessionState, Terminal

\* block takes a runnable session from the queue; otherwise nothing happens.
LEMMA BlockStep ==
  ASSUME IInv, NEW s \in SessionId, DoBlock(s) PROVE IInv' /\ StepOK
<1>1. Good(core)
  BY DEF IInv, TypeOK, CoreConsistent, Good
<1>2. CASE core.state[s] = "Runnable"
  <2>1. core' = Block(core, s).core
    BY DEF DoBlock, Observe
  <2>2. /\ Good(core')
        /\ core'.state = [core.state EXCEPT ![s] = "Blocked"]
        /\ \A x \in SessionId : core'.inReady[x] <=> x # s /\ core.inReady[x]
        /\ core'.inflight = core.inflight
    BY <1>1, <1>2, <2>1, BlockGood
  <2>3. Block(core, s).cancel = {} /\ Block(core, s).event = "None"
    BY <1>2 DEF Block, NoEffects, Ret
  <2>4. dispatched' = Live(core')
    BY <2>2, <2>3 DEF DoBlock, Observe, IInv, DispatchMatchesInflight, Live
  <2>5. reported' = [reported EXCEPT ![s] = @ \cup ({"Blocked"} \cap Terminal)]
    BY <2>3 DEF DoBlock, Observe, Terminal
  <2>6. held' = held \ {s} /\ held \in SUBSET SessionId
    BY DEF DoBlock, IInv, TypeOK
  <2> QED
    BY <1>2, <2>2, <2>4, <2>5, <2>6, SessionStep DEF SessionState, Terminal
<1>3. CASE core.state[s] # "Runnable"
  <2>1. Observe(NoEffects(core), s)
    BY <1>3 DEF DoBlock, Block
  <2> QED
    BY <1>3, <2>1, ObserveNothing, NoEffectStep DEF DoBlock
<1> QED
  BY <1>2, <1>3

\* wake returns a blocked session to the queue; otherwise nothing happens.
LEMMA WakeStep ==
  ASSUME IInv, NEW s \in SessionId, DoWake(s) PROVE IInv' /\ StepOK
<1>1. Good(core)
  BY DEF IInv, TypeOK, CoreConsistent, Good
<1>2. CASE core.state[s] = "Blocked"
  <2>1. core' = PushBack([core EXCEPT !.state[s] = "Runnable"], s)
    BY <1>1, <1>2, WakeGood DEF DoWake, Observe
  <2>2. /\ Good(core')
        /\ core'.state = [core.state EXCEPT ![s] = "Runnable"]
        /\ \A x \in SessionId : core'.inReady[x] <=> x = s \/ core.inReady[x]
        /\ core'.inflight = core.inflight
    BY <1>1, <1>2, <2>1, UnblockGood
  <2>3. Wake(core, s).cancel = {} /\ Wake(core, s).event = "Wake"
    BY <1>2 DEF Wake, Ret
  <2>4. dispatched' = Live(core')
    BY <2>2, <2>3 DEF DoWake, Observe, IInv, DispatchMatchesInflight, Live
  <2>5. reported' = [reported EXCEPT ![s] = @ \cup ({"Runnable"} \cap Terminal)]
    BY <2>3 DEF DoWake, Observe, Terminal
  <2>6. held' = held /\ held \in SUBSET SessionId
    BY DEF DoWake, IInv, TypeOK
  <2> QED
    BY <1>2, <2>2, <2>4, <2>5, <2>6, SessionStep DEF SessionState, Terminal
<1>3. CASE core.state[s] # "Blocked"
  <2>1. Observe(NoEffects(core), s)
    BY <1>3 DEF DoWake, Wake
  <2> QED
    BY <2>1, ObserveNothing, NoEffectStep DEF DoWake
<1> QED
  BY <1>2, <1>3

\* cancel, finish and fail differ only in the state they leave behind and in
\* whether the driver hears of it.
LEMMA RevokeStep ==
  ASSUME IInv, NEW s \in SessionId,
         NEW final \in Ending,
         NEW event \in {"None"} \cup Terminal,
         {event} \cap Terminal = {final} \cap Terminal,
         core.state[s] \notin {"Absent"} \cup Terminal,
         core.state[s] = "Cancelling" => final \in Terminal,
         Observe(Ret(RevokeTo(core, s, final), core.owned[s], event), s),
         held' = held \/ held' = held \ {s}
  PROVE  IInv' /\ StepOK
<1>1. Good(core)
  BY DEF IInv, TypeOK, CoreConsistent, Good
<1>2. core' = RevokeTo(core, s, final) /\ core.state[s] # "Absent"
  BY DEF Observe, Ret
<1>3. /\ Good(core')
      /\ core'.state = [core.state EXCEPT ![s] = final]
      /\ \A x \in SessionId : core'.inReady[x] <=> x # s /\ core.inReady[x]
      /\ \A u \in Ticket :
           core'.inflight[u] = core.inflight[u] \/ core'.inflight[u] = NoOwner
      /\ Live(core') = Live(core) \ core.owned[s]
  BY <1>1, <1>2, RevokeGood
<1>4. dispatched' = Live(core')
  BY <1>3 DEF Observe, Ret, IInv, DispatchMatchesInflight, Live
<1>5. reported' = [reported EXCEPT ![s] = @ \cup ({final} \cap Terminal)]
  BY DEF Observe, Ret
<1>6. held' \in SUBSET SessionId
  BY DEF IInv, TypeOK
<1> QED
  BY <1>3, <1>4, <1>5, <1>6, SessionStep DEF SessionState, Terminal, Ending

\* cancel, finish and fail revoke the session's tickets and report them.
LEMMA LifecycleSteps ==
  ASSUME IInv, NEW s \in SessionId, DoCancel(s) \/ DoFinish(s) \/ DoFail(s)
  PROVE  IInv' /\ StepOK
<1>1. core.state[s] \in SessionState /\ core.state[s] # "Absent"
  BY DEF IInv, TypeOK, CoreType, DoCancel, DoFinish, DoFail, Known
<1>2. CASE DoCancel(s)
  <2>1. CASE core.state[s] \in {"Runnable", "Blocked"}
    BY <1>2, <2>1, RevokeStep DEF Ending, DoCancel, Cancel, Terminal
  <2>2. CASE core.state[s] \notin {"Runnable", "Blocked"}
    <3>1. Observe(NoEffects(core), s) /\ held' = held
      BY <1>2, <2>2 DEF DoCancel, Cancel
    <3> QED
      BY <3>1, ObserveNothing, NoEffectStep
  <2> QED
    BY <2>1, <2>2
<1>3. CASE DoFinish(s)
  <2>1. CASE core.state[s] \in {"Runnable", "Blocked", "Cancelling"}
    BY <1>3, <2>1, RevokeStep DEF Ending, DoFinish, Finish, Terminalize, Terminal
  <2>2. CASE core.state[s] \notin {"Runnable", "Blocked", "Cancelling"}
    <3>1. Observe(NoEffects(core), s) /\ held' = held \ {s}
      BY <1>3, <2>2 DEF DoFinish, Finish
    <3> QED
      BY <2>2, <3>1, ObserveNothing, NoEffectStep
  <2> QED
    BY <2>1, <2>2
<1>4. CASE DoFail(s)
  <2>1. CASE core.state[s] \in {"Runnable", "Blocked", "Cancelling"}
    BY <1>4, <2>1, RevokeStep DEF Ending, DoFail, Fail, Terminalize, Terminal
  <2>2. CASE core.state[s] \notin {"Runnable", "Blocked", "Cancelling"}
    <3>1. Observe(NoEffects(core), s) /\ held' = held \ {s}
      BY <1>4, <2>2 DEF DoFail, Fail
    <3> QED
      BY <2>2, <3>1, ObserveNothing, NoEffectStep
  <2> QED
    BY <2>1, <2>2
<1> QED
  BY <1>2, <1>3, <1>4

\* step moves the front session from the queue into the driver's hands.
LEMMA StepStep == IInv /\ DoStep => IInv' /\ StepOK
<1> SUFFICES ASSUME IInv, DoStep PROVE IInv' /\ StepOK
  OBVIOUS
<1> DEFINE s == StepRuns(core)
<1>1. Good(core)
  BY DEF IInv, TypeOK, CoreConsistent, Good
<1>2. /\ Good(core')
      /\ s \in SessionId
      /\ core'.state = core.state
      /\ core'.inflight = core.inflight
      /\ \A x \in SessionId : core'.inReady[x] <=> x # s /\ core.inReady[x]
  BY <1>1, StepGood DEF DoStep
<1>3. /\ held' = held \cup {s}
      /\ held \in SUBSET SessionId
      /\ dispatched' = dispatched
      /\ reported' = reported
  BY DEF DoStep, IInv, TypeOK
<1> HIDE DEF s
<1>4. dispatched' = Live(core')
  BY <1>2, <1>3 DEF IInv, DispatchMatchesInflight, Live
<1> DEFINE new == core.state[s]
<1>5. new \in SessionState /\ core'.state = [core.state EXCEPT ![s] = new]
  BY <1>1, <1>2 DEF Good, CoreType
<1>6. reported' = [reported EXCEPT ![s] = @ \cup ({new} \cap Terminal)]
  <2>1. reported[s] \cup ({new} \cap Terminal) = reported[s]
    BY <1>2 DEF IInv, TerminalReported
  <2>2. reported \in [SessionId -> SUBSET Terminal]
    BY DEF IInv, TypeOK
  <2> HIDE DEF new
  <2> QED
    BY <1>3, <2>1, <2>2
<1> HIDE DEF new
<1>7. core.state[s] = new
  BY DEF new
<1> QED
  BY <1>2, <1>3, <1>4, <1>5, <1>6, <1>7, SessionStep

\* requeue moves a runnable session from the driver's hands into the queue.
LEMMA RequeueStep ==
  ASSUME IInv, NEW s \in SessionId, DoRequeue(s) PROVE IInv' /\ StepOK
<1>1. Good(core)
  BY DEF IInv, TypeOK, CoreConsistent, Good
<1>2. /\ Good(core')
      /\ core'.state = core.state
      /\ core'.inflight = core.inflight
      /\ \A x \in SessionId :
           core'.inReady[x] <=>
             core.inReady[x] \/ (x = s /\ core.state[s] = "Runnable")
  BY <1>1, EnqueueGood DEF DoRequeue, Requeue
<1>3. /\ held' = held \ {s}
      /\ held \in SUBSET SessionId
      /\ dispatched' = dispatched
      /\ reported' = reported
  BY DEF DoRequeue, IInv, TypeOK
<1>4. dispatched' = Live(core')
  BY <1>2, <1>3 DEF IInv, DispatchMatchesInflight, Live
<1> DEFINE new == core.state[s]
<1>5. new \in SessionState /\ core'.state = [core.state EXCEPT ![s] = new]
  BY <1>1, <1>2 DEF Good, CoreType
<1>6. reported' = [reported EXCEPT ![s] = @ \cup ({new} \cap Terminal)]
  <2>1. reported[s] \cup ({new} \cap Terminal) = reported[s]
    BY <1>2 DEF IInv, TerminalReported
  <2>2. reported \in [SessionId -> SUBSET Terminal]
    BY DEF IInv, TypeOK
  <2> HIDE DEF new
  <2> QED
    BY <1>3, <2>1, <2>2
<1> HIDE DEF new
<1>7. core.state[s] = new
  BY DEF new
<1> QED
  BY <1>2, <1>3, <1>4, <1>5, <1>6, <1>7, SessionStep

\* complete consumes a live ticket and then wakes, fails or keeps its session.
LEMMA CompleteStep ==
  ASSUME IInv, NEW t \in Ticket, NEW ok \in BOOLEAN, DoComplete(t, ok)
  PROVE  IInv' /\ StepOK
<1> DEFINE s == core.inflight[t]
           d == Consume(core, t)
           r == Complete(core, t, ok)
<1>1. Good(core)
  BY DEF IInv, TypeOK, CoreConsistent, Good
<1>2. CASE s = NoOwner
  <2>1. r = NoEffects(core)
    BY <1>2 DEF Complete
  <2>2. core' = core /\ held' = held
    BY <2>1 DEF DoComplete, NoEffects, Ret
  <2>3. dispatched' = dispatched
    BY <1>2, <2>1 DEF DoComplete, NoEffects, Ret, IInv, Live,
       DispatchMatchesInflight
  <2>4. reported' = reported
    BY <2>1 DEF DoComplete, NoEffects, Ret, Terminal, IInv, TypeOK
  <2> QED
    BY <2>2, <2>3, <2>4, NoEffectStep
<1>3. CASE s # NoOwner
  <2>0. core.state[s] \in {"Runnable", "Blocked"}
    BY <1>1, <1>3, ConsumeGood
  <2>1. /\ Good(d)
        /\ s \in SessionId
        /\ d.state = core.state
        /\ d.inReady = core.inReady
        /\ d.inflight = [core.inflight EXCEPT ![t] = NoOwner]
        /\ Live(d) = Live(core) \ {t}
    BY <1>1, <1>3, ConsumeGood
  <2>2. /\ core' = r.core
        /\ dispatched' = (dispatched \ {t}) \ r.cancel
        /\ reported' = [reported EXCEPT ![s] = @ \cup ({r.event} \cap Terminal)]
        /\ held' = held
    BY <1>3 DEF DoComplete
  <2>3. dispatched \ {t} = Live(d) /\ held \in SUBSET SessionId
    BY <2>1 DEF IInv, DispatchMatchesInflight, TypeOK, Live
  <2>4. \A u \in Ticket : d.inflight[u] \in {core.inflight[u], NoOwner}
    BY <1>1, <2>1 DEF Good, CoreType
  <2>5. CASE ~ ok
    <3>1. r = Ret(RevokeTo(d, s, "Failed"), d.owned[s], "Failed")
      BY <1>3, <2>5 DEF Complete, Terminalize
    <3>2. core' = RevokeTo(d, s, "Failed")
          /\ r.cancel = d.owned[s] /\ r.event = "Failed"
      BY <2>2, <3>1 DEF Ret
    <3> DEFINE final == "Failed"
    <3> HIDE DEF d, s, r
    <3>3. d.state[s] # "Absent" /\ final \in Ending
          /\ core' = RevokeTo(d, s, final)
      BY <2>0, <2>1, <3>2 DEF Ending
    <3> HIDE DEF final
    <3>4. /\ Good(core')
          /\ core'.state = [core.state EXCEPT ![s] = final]
          /\ \A x \in SessionId : core'.inReady[x] <=> x # s /\ core.inReady[x]
          /\ \A u \in Ticket :
               core'.inflight[u] = d.inflight[u] \/ core'.inflight[u] = NoOwner
          /\ Live(core') = Live(d) \ d.owned[s]
      <4>1. Good(d) /\ s \in SessionId
        BY <2>1
      <4>2. /\ Good(core')
            /\ core'.state = [d.state EXCEPT ![s] = final]
            /\ \A x \in SessionId : core'.inReady[x] <=> x # s /\ d.inReady[x]
            /\ \A u \in Ticket :
                 core'.inflight[u] = d.inflight[u] \/ core'.inflight[u] = NoOwner
            /\ Live(core') = Live(d) \ d.owned[s]
        BY <4>1, <3>3, RevokeGood
      <4> QED
        BY <2>1, <4>2
    <3>5. dispatched' = Live(core')
      BY <2>2, <2>3, <3>2, <3>4
    <3>6. reported' = [reported EXCEPT ![s] = @ \cup ({final} \cap Terminal)]
      BY <2>2, <3>2 DEF final
    <3>7. \A u \in Ticket :
            core'.inflight[u] = core.inflight[u] \/ core'.inflight[u] = NoOwner
      BY <2>4, <3>4
    <3> QED
      BY ZenonT(60), <2>0, <2>1, <2>2, <2>3, <3>4, <3>5, <3>6, <3>7, SessionStep
         DEF SessionState, Terminal, final
  <2>6. CASE ok /\ d.state[s] = "Blocked" /\ d.owned[s] = {}
    <3>1. r = Ret(PushBack([d EXCEPT !.state[s] = "Runnable"], s), {}, "Wake")
      BY <1>3, <2>6 DEF Complete
    <3>2. core' = PushBack([d EXCEPT !.state[s] = "Runnable"], s)
          /\ r.cancel = {} /\ r.event = "Wake"
      BY <2>2, <3>1 DEF Ret
    <3> HIDE DEF d, s, r
    <3>3. /\ Good(core')
          /\ core'.state = [core.state EXCEPT ![s] = "Runnable"]
          /\ \A x \in SessionId : core'.inReady[x] <=> x = s \/ core.inReady[x]
          /\ core'.inflight = d.inflight
      BY <2>1, <2>6, <3>2, UnblockGood
    <3>4. dispatched' = Live(core')
      BY <2>2, <2>3, <3>2, <3>3 DEF Live
    <3>5. reported' = [reported EXCEPT ![s] = @ \cup ({"Runnable"} \cap Terminal)]
      BY <2>2, <3>2 DEF Terminal
    <3>6. \A u \in Ticket : core'.inflight[u] \in {core.inflight[u], NoOwner}
      BY <2>4, <3>3
    <3> QED
      BY <2>0, <2>1, <2>2, <2>3, <3>3, <3>4, <3>5, <3>6, SessionStep
         DEF SessionState, Terminal
  <2>7. CASE ok /\ ~ (d.state[s] = "Blocked" /\ d.owned[s] = {})
    <3>1. r = NoEffects(d)
      BY <1>3, <2>7 DEF Complete
    <3>2. core' = d /\ r.cancel = {} /\ r.event = "None"
      BY <2>2, <3>1 DEF NoEffects, Ret
    <3> DEFINE new == core.state[s]
    <3> HIDE DEF d, s, r
    <3>3. new \notin Terminal /\ new # "Cancelling" /\ new \in SessionState
      BY <2>0 DEF SessionState, Terminal
    <3>4. core'.state = [core.state EXCEPT ![s] = new]
      BY <1>1, <2>1, <3>2 DEF Good, CoreType
    <3>5. dispatched' = Live(core')
      BY <2>2, <2>3, <3>2
    <3>6. reported' = [reported EXCEPT ![s] = @ \cup ({new} \cap Terminal)]
      <4>1. {new} \cap Terminal = {} /\ {r.event} \cap Terminal = {}
        BY <3>2, <3>3 DEF Terminal
      <4> QED
        BY <2>2, <4>1
    <3>7. new = "Runnable" => core'.inReady[s] \/ s \in held'
      BY <2>1, <2>2, <3>2 DEF IInv, NoSessionLost
    <3>8. core.state[s] = new /\ new # "Cancelling"
      BY <3>3 DEF new
    <3>9. \A u \in Ticket : core'.inflight[u] \in {core.inflight[u], NoOwner}
      BY <2>4, <3>2
    <3>10. Good(core') /\ s \in SessionId /\ held' \in SUBSET SessionId
           /\ (\A x \in SessionId \ {s} : core.inReady[x] => core'.inReady[x])
           /\ (\A x \in SessionId \ {s} : x \in held => x \in held')
      BY <2>1, <2>2, <2>3, <3>2
    <3> HIDE DEF new
    <3> QED
      BY <3>3, <3>4, <3>5, <3>6, <3>7, <3>8, <3>9, <3>10, SessionStep
  <2> QED
    BY <2>5, <2>6, <2>7
<1> QED
  BY <1>2, <1>3
-----------------------------------------------------------------------------
\* Every step of the specification keeps the inductive invariant.
LEMMA NextStep == IInv /\ Next => IInv' /\ StepOK
<1> SUFFICES ASSUME IInv, Next PROVE IInv' /\ StepOK
  OBVIOUS
<1>1. CASE DoCreate
  BY <1>1, CreateStep
<1>2. CASE DoStep
  BY <1>2, StepStep
<1>3. ASSUME NEW s \in SessionId,
             \/ DoSubmit(s) \/ DoBlock(s) \/ DoWake(s) \/ DoCancel(s)
             \/ DoFinish(s) \/ DoFail(s) \/ DoRequeue(s)
      PROVE  IInv' /\ StepOK
  BY <1>3, SubmitStep, BlockStep, WakeStep, LifecycleSteps, RequeueStep
<1>4. ASSUME NEW t \in Ticket, NEW ok \in BOOLEAN, DoComplete(t, ok)
      PROVE  IInv' /\ StepOK
  BY <1>4, CompleteStep
<1> QED
  BY <1>1, <1>2, <1>3, <1>4 DEF Next

\* A stuttering step keeps the invariant.
LEMMA StutterStep == IInv /\ UNCHANGED vars => IInv' /\ StepOK
<1> SUFFICES ASSUME IInv, UNCHANGED vars PROVE IInv' /\ StepOK
  OBVIOUS
<1> QED
  BY NoEffectStep DEF vars

\* The inductive invariant holds in every reachable state, whatever order the
\* driver calls the core's methods in.
THEOREM Inductive == Spec => []IInv
<1>1. IInv /\ [Next]_vars => IInv'
  BY NextStep, StutterStep
<1> QED
  BY <1>1, InitIInv, PTL DEF Spec

\* The core's and the driver's fields keep their types whatever calls are made.
THEOREM TypeCorrect == Spec => []TypeOK
<1>1. IInv => TypeOK
  BY DEF IInv
<1> QED
  BY <1>1, Inductive, PTL

\* assert_invariants holds in every reachable state.
THEOREM Consistent == Spec => []CoreConsistent
<1>1. IInv => CoreConsistent
  BY DEF IInv
<1> QED
  BY <1>1, Inductive, PTL

\* Each dispatched ticket is live until it completes or a Cancel effect names it.
THEOREM DispatchAccounted == Spec => []DispatchMatchesInflight
<1>1. IInv => DispatchMatchesInflight
  BY DEF IInv
<1> QED
  BY <1>1, Inductive, PTL

\* The driver hears of every terminal transition, and of no other.
THEOREM TerminalEffects == Spec => []TerminalReported
<1>1. IInv => TerminalReported
  BY DEF IInv
<1> QED
  BY <1>1, Inductive, PTL

\* A runnable session is queued or in the driver's hands.
THEOREM SessionsKept == Spec => []NoSessionLost
<1>1. IInv => NoSessionLost
  BY DEF IInv
<1> QED
  BY <1>1, Inductive, PTL

\* No step leaves a terminal state or resurrects a session being cancelled.
THEOREM Lifecycle == Spec => LifecycleForward
<1>1. IInv /\ [Next]_vars => StepOK
  BY NextStep, StutterStep
<1>2. StepOK => \A s \in SessionId :
        /\ core.state[s] \in Terminal => core'.state[s] = core.state[s]
        /\ core.state[s] = "Cancelling" =>
             core'.state[s] \in {"Cancelling"} \cup Terminal
  BY DEF StepOK
<1> QED
  BY <1>1, <1>2, Inductive, PTL DEF Spec, LifecycleForward

\* No step revives a consumed ticket or moves a live one to another session.
THEOREM TicketsOnce == Spec => TicketConsumedOnce
<1>1. IInv /\ [Next]_vars => StepOK
  BY NextStep, StutterStep
<1>2. StepOK => \A t \in Ticket :
        /\ t < core.nextTicket /\ core.inflight[t] = NoOwner =>
             core'.inflight[t] = NoOwner
        /\ core.inflight[t] # NoOwner =>
             core'.inflight[t] \in {core.inflight[t], NoOwner}
  BY DEF StepOK
<1> QED
  BY <1>1, <1>2, Inductive, PTL DEF Spec, TicketConsumedOnce
-----------------------------------------------------------------------------
(***************************************************************************)
(* The inflight budget.  Only submit issues a ticket, so in every other    *)
(* step a session's tickets can only become fewer.                         *)
(***************************************************************************)

\* No method but submit moves the ticket counter.
LEMMA CounterKept ==
  ASSUME IInv, Next
  PROVE  core'.nextTicket = core.nextTicket \/ \E s \in SessionId : DoSubmit(s)
<1>0. core \in CoreType /\ Good(core)
  BY DEF IInv, TypeOK, Good, CoreConsistent
<1>1. CASE DoCreate
  <2>1. core' = CreateSession(core) /\ core.nextSession < MaxSessions
    BY <1>1 DEF DoCreate
  <2>2. core'.nextTicket = core.nextTicket
    BY <1>0, <2>1 DEF CreateSession, PushBack, CoreType
  <2> QED
    BY <2>2
<1>2. CASE DoStep
  <2>1. core' = Step(core)
    BY <1>2 DEF DoStep
  <2> QED
    BY <1>0, <2>1 DEF Step, CoreType
<1>3. ASSUME NEW s \in SessionId,
             DoBlock(s) \/ DoWake(s) \/ DoCancel(s) \/ DoFinish(s) \/ DoFail(s)
             \/ DoRequeue(s)
      PROVE  core'.nextTicket = core.nextTicket
  <2>1. RemoveFromReady(core, s).nextTicket = core.nextTicket
    BY <1>0 DEF RemoveFromReady, CoreType
  <2>2. Block(core, s).core.nextTicket = core.nextTicket
    BY <1>0 DEF Block, NoEffects, Ret, RemoveFromReady, CoreType
  <2>3. Wake(core, s).core.nextTicket = core.nextTicket
    BY <1>0 DEF Wake, NoEffects, Ret, EnqueueIfRunnable, PushBack, CoreType
  <2>4. \A f : RevokeTo(core, s, f).nextTicket = core.nextTicket
    BY <1>0 DEF RevokeTo, Revoke, RemoveFromReady, CoreType
  <2>5. /\ Cancel(core, s).core.nextTicket = core.nextTicket
        /\ Finish(core, s).core.nextTicket = core.nextTicket
        /\ Fail(core, s).core.nextTicket = core.nextTicket
    BY <2>4 DEF Cancel, Finish, Fail, Terminalize, NoEffects, Ret
  <2>6. Requeue(core, s).nextTicket = core.nextTicket
    BY <1>0 DEF Requeue, EnqueueIfRunnable, PushBack, CoreType
  <2> QED
    BY <1>3, <2>2, <2>3, <2>5, <2>6
    DEF DoBlock, DoWake, DoCancel, DoFinish, DoFail, DoRequeue, Observe
<1>4. ASSUME NEW t \in Ticket, NEW ok \in BOOLEAN, DoComplete(t, ok)
      PROVE  core'.nextTicket = core.nextTicket
  <2> DEFINE s == core.inflight[t]
             d == Consume(core, t)
  <2>1. core' = Complete(core, t, ok).core
    BY <1>4 DEF DoComplete
  <2>2. CASE s = NoOwner
    BY <2>1, <2>2 DEF Complete, NoEffects, Ret
  <2>3. CASE s # NoOwner
    <3>0. d \in CoreType
      BY <1>0, <2>3, ConsumeGood DEF Good
    <3>1. d.nextTicket = core.nextTicket /\ d \in CoreType
      BY <1>0, <3>0 DEF Consume, CoreType
    <3>2. \A f : RevokeTo(d, s, f).nextTicket = d.nextTicket
      BY <3>1 DEF RevokeTo, Revoke, RemoveFromReady, CoreType
    <3>3. PushBack([d EXCEPT !.state[s] = "Runnable"], s).nextTicket = d.nextTicket
      BY <3>1 DEF PushBack, CoreType
    <3> QED
      BY <2>1, <2>3, <3>1, <3>2, <3>3
      DEF Complete, Terminalize, NoEffects, Ret
  <2> QED
    BY <2>2, <2>3
<1> QED
  BY <1>1, <1>2, <1>3, <1>4 DEF Next

\* A step other than submit gives no session a ticket it did not have.
LEMMA OwnedShrinks ==
  ASSUME IInv, IInv', StepOK, core'.nextTicket = core.nextTicket,
         NEW s \in SessionId
  PROVE  core'.owned[s] \subseteq core.owned[s]
<1> SUFFICES ASSUME NEW t \in core'.owned[s] PROVE t \in core.owned[s]
  OBVIOUS
<1>1. t \in Ticket
  BY DEF IInv, TypeOK, CoreType
<1>2. core'.inflight[t] = s /\ s # NoOwner
  BY <1>1 DEF IInv, CoreConsistent, CoreInv, TicketsConsistent, SessionId, NoOwner
<1>3. t < core.nextTicket
  BY <1>1, <1>2, CoreConstants
  DEF IInv, CoreConsistent, CoreInv, IdsFresh, TypeOK, CoreType, Ticket
<1>4. core.inflight[t] = s
  BY <1>1, <1>2, <1>3 DEF StepOK
<1> QED
  BY <1>1, <1>4 DEF IInv, CoreConsistent, CoreInv, TicketsConsistent

\* The tickets of a session form a finite set.
LEMMA OwnedFinite ==
  ASSUME IInv, NEW s \in SessionId
  PROVE  IsFiniteSet(core.owned[s]) /\ Cardinality(core.owned[s]) \in Nat
<1>1. core.owned[s] \in SUBSET Ticket
  BY DEF IInv, TypeOK, CoreType
<1>2. IsFiniteSet(Ticket)
  BY CoreConstants, FS_Interval DEF Ticket
<1>3. IsFiniteSet(core.owned[s])
  BY <1>1, <1>2, FS_Subset
<1> QED
  BY <1>3, FS_CardinalityType

\* submit adds one ticket to a session below its budget, and to no other.
LEMMA SubmitBudget ==
  ASSUME IInv, BudgetKept, NEW s \in SessionId, DoSubmit(s)
  PROVE  BudgetKept'
<1> DEFINE t == core.nextTicket
<1>1. core \in CoreType /\ Cardinality(core.owned[s]) < MaxInflight
  BY DEF IInv, TypeOK, DoSubmit, SubmitAllowed
<1>2. core'.owned = [core.owned EXCEPT ![s] = @ \cup {t}]
  BY <1>1 DEF DoSubmit, Submit, CoreType
<1>3. IsFiniteSet(core.owned[s]) /\ Cardinality(core.owned[s]) \in Nat
  BY OwnedFinite
<1> HIDE DEF t
<1>4. Cardinality(core.owned[s] \cup {t}) <= Cardinality(core.owned[s]) + 1
  BY <1>3, FS_AddElement, SMTT(30)
<1>5. \A x \in SessionId :
        core'.owned[x] = IF x = s THEN core.owned[s] \cup {t} ELSE core.owned[x]
  BY <1>1, <1>2 DEF CoreType
<1>6. Cardinality(core.owned[s] \cup {t}) <= MaxInflight
  <2>1. Cardinality(core.owned[s] \cup {t}) \in Nat
    BY <1>3, FS_AddElement, FS_CardinalityType
  <2> QED
    BY <1>1, <1>3, <1>4, <2>1, CoreConstants
<1> QED
  BY <1>5, <1>6 DEF BudgetKept, WithinBudget

\* No order of calls lets a session own more live tickets than Budget allows.
THEOREM BudgetRespected == Spec => []BudgetKept
<1>1. Init => BudgetKept
  <2>1. ASSUME Init, NEW s \in SessionId PROVE core.owned[s] = {}
    BY <2>1 DEF Init, NewCore
  <2> QED
    BY <2>1, FS_EmptySet, CoreConstants DEF BudgetKept, WithinBudget
<1>2. IInv /\ BudgetKept /\ [Next]_vars => BudgetKept'
  <2> SUFFICES ASSUME IInv, BudgetKept, [Next]_vars PROVE BudgetKept'
    OBVIOUS
  <2>1. IInv' /\ StepOK
    BY NextStep, StutterStep
  <2>2. CASE core'.nextTicket = core.nextTicket
    <3>1. ASSUME NEW s \in SessionId
          PROVE  Cardinality(core'.owned[s]) <= MaxInflight
      <4>1. core'.owned[s] \in SUBSET core.owned[s]
        BY <2>1, <2>2, OwnedShrinks
      <4>2. IsFiniteSet(core.owned[s]) /\ Cardinality(core.owned[s]) \in Nat
        BY OwnedFinite
      <4>3. /\ Cardinality(core'.owned[s]) <= Cardinality(core.owned[s])
            /\ Cardinality(core'.owned[s]) \in Nat
        BY <4>1, <4>2, FS_Subset, FS_CardinalityType
      <4>4. Cardinality(core.owned[s]) <= MaxInflight
        BY DEF BudgetKept, WithinBudget
      <4> QED
        BY <4>2, <4>3, <4>4, CoreConstants
    <3> QED
      BY <3>1 DEF BudgetKept, WithinBudget
  <2>3. CASE \E s \in SessionId : DoSubmit(s)
    BY <2>3, SubmitBudget
  <2>4. CASE UNCHANGED vars
    BY <2>2, <2>4 DEF vars
  <2> QED
    BY <2>2, <2>3, <2>4, CounterKept
<1> QED
  BY <1>1, <1>2, Inductive, PTL DEF Spec
-----------------------------------------------------------------------------
(***************************************************************************)
(* The order of the ready queue.  A step removes one session, takes some   *)
(* off the front or puts one at the back; none of these lets a session     *)
(* overtake another.                                                       *)
(***************************************************************************)

\* What a step may do to the queue q.
Advances(q, r) ==
  \/ r = q
  \/ \E s \in SessionId : r = Retain(q, s)
  \/ \E s \in SessionId : ~ Queued(q, s) /\ r = Append(q, s)
  \/ \E n \in 1 .. Len(q) : r = SubSeq(q, n + 1, Len(q))

\* No two elements of q that are still in r have changed places.
InOrder(q, r) ==
  \A i, j \in 1 .. Len(q) :
    i < j => \A k, l \in 1 .. Len(r) : r[k] = q[i] /\ r[l] = q[j] => k < l

\* The closed-up queue keeps its order.
LEMMA RetainInOrder ==
  ASSUME NEW q \in Seq(SessionId), NoDuplicates(q), NEW s
  PROVE  InOrder(q, Retain(q, s))
<1>1. CASE \A i \in 1 .. Len(q) : q[i] # s
  <2>1. Retain(q, s) = q
    BY <1>1 DEF Retain
  <2> QED
    BY <2>1 DEF InOrder, NoDuplicates
<1>2. ASSUME NEW p \in 1 .. Len(q), q[p] = s
      PROVE  InOrder(q, Retain(q, s))
  <2> DEFINE r == Retain(q, s)
  <2>1. r = [k \in 1 .. (Len(q) - 1) |-> IF k < p THEN q[k] ELSE q[k + 1]]
    BY <1>2, RetainAt
  <2>2. r \in Seq(SessionId) /\ Len(q) \in Nat
    BY RetainQueue
  <2>3. Len(r) = Len(q) - 1
    BY <2>1, <2>2
  <2> HIDE DEF r
  <2>4. \A k \in 1 .. Len(r) : r[k] = q[IF k < p THEN k ELSE k + 1]
    BY <2>1, <2>3
  <2>5. ASSUME NEW i \in 1 .. Len(q), NEW j \in 1 .. Len(q), i < j,
               NEW k \in 1 .. Len(r), NEW l \in 1 .. Len(r),
               r[k] = q[i], r[l] = q[j]
        PROVE  k < l
    <3> DEFINE at(x) == IF x < p THEN x ELSE x + 1
    <3>1. at(k) \in 1 .. Len(q) /\ at(l) \in 1 .. Len(q)
      BY <2>2, <2>3
    <3>2. q[at(k)] = q[i] /\ q[at(l)] = q[j]
      BY <2>4, <2>5
    <3>3. at(k) = i /\ at(l) = j
      <4> HIDE DEF at
      <4> QED
        BY <3>1, <3>2 DEF NoDuplicates
    <3> QED
      BY <2>2, <2>3, <2>5, <3>3
  <2> QED
    BY <2>5 DEF InOrder, r
<1> QED
  BY <1>1, <1>2

\* Whatever a step does to a queue without duplicates keeps its order.
LEMMA AdvancesInOrder ==
  ASSUME NEW q \in Seq(SessionId), NEW r, NoDuplicates(q), Advances(q, r)
  PROVE  InOrder(q, r)
<1>1. CASE r = q
  BY <1>1 DEF InOrder, NoDuplicates
<1>2. ASSUME NEW s \in SessionId, r = Retain(q, s) PROVE InOrder(q, r)
  BY <1>2, RetainInOrder
<1>3. ASSUME NEW s \in SessionId, ~ Queued(q, s), r = Append(q, s)
      PROVE  InOrder(q, r)
  <2>1. /\ Len(q) \in Nat /\ Len(r) = Len(q) + 1
        /\ \A k \in 1 .. Len(q) : r[k] = q[k]
        /\ r[Len(q) + 1] = s
    BY <1>3
  <2> QED
    BY <1>3, <2>1 DEF InOrder, NoDuplicates, Queued
<1>4. ASSUME NEW n \in 1 .. Len(q), r = SubSeq(q, n + 1, Len(q))
      PROVE  InOrder(q, r)
  <2>1. /\ Len(q) \in Nat /\ Len(r) = Len(q) - n
        /\ \A k \in 1 .. Len(r) : r[k] = q[n + k]
    BY <1>4
  <2>2. ASSUME NEW i \in 1 .. Len(q), NEW j \in 1 .. Len(q), i < j,
               NEW k \in 1 .. Len(r), NEW l \in 1 .. Len(r),
               r[k] = q[i], r[l] = q[j]
        PROVE  k < l
    <3>1. n + k \in 1 .. Len(q) /\ n + l \in 1 .. Len(q)
      BY <2>1
    <3>2. q[n + k] = q[i] /\ q[n + l] = q[j]
      BY <2>1, <2>2
    <3>3. n + k = i /\ n + l = j
      BY <3>1, <3>2 DEF NoDuplicates
    <3> QED
      BY <2>1, <2>2, <3>3
  <2> QED
    BY <2>2 DEF InOrder
<1> QED
  BY <1>1, <1>2, <1>3, <1>4 DEF Advances

\* A session that is not marked is not in the queue, so queueing it is a
\* push_back.
LEMMA PushAdvances ==
  ASSUME NEW c, Good(c), NEW s \in SessionId, ~ c.inReady[s]
  PROVE  Advances(c.ready, Append(c.ready, s))
BY DEF Good, CoreInv, QueueConsistent, Advances

\* Every call of a method advances the ready queue.
LEMMA NextAdvances ==
  ASSUME IInv, Next
  PROVE  Advances(core.ready, core'.ready)
<1>0. core \in CoreType /\ Good(core)
  BY DEF IInv, TypeOK, Good, CoreConsistent
<1>1. CASE DoCreate
  <2> DEFINE s == core.nextSession
  <2>1. core' = CreateSession(core) /\ s < MaxSessions
    BY <1>1 DEF DoCreate
  <2>2. s \in SessionId
    BY <1>0, <2>1, CoreConstants DEF CoreType, SessionId
  <2>3. core'.ready = Append(core.ready, s)
    BY <1>0, <2>1 DEF CreateSession, PushBack, CoreType
  <2>4. ~ core.inReady[s]
    BY <1>0, <2>2 DEF Good, CoreInv, QueueConsistent, IdsFresh, CoreType, SessionId
  <2> QED
    BY <1>0, <2>2, <2>3, <2>4, PushAdvances
<1>2. CASE DoStep
  <2>1. core' = Step(core) /\ Valid(core) # {}
    BY <1>2 DEF DoStep
  <2>2. core.ready \in Seq(SessionId)
    BY <1>0 DEF CoreType
  <2>3. \A i \in 1 .. Len(core.ready) : i \in Valid(core)
    BY <1>0, <2>2 DEF Valid, Good, CoreInv, QueueConsistent, Queued
  <2>4. 1 \in 1 .. Len(core.ready) /\ FirstValid(core) = 1
    BY <2>1, <2>2, <2>3 DEF FirstValid, Valid
  <2>5. core'.ready = SubSeq(core.ready, 2, Len(core.ready))
    BY <1>0, <2>1, <2>4 DEF Step, CoreType
  <2> QED
    BY <2>4, <2>5 DEF Advances
<1>3. ASSUME NEW s \in SessionId,
             \/ DoSubmit(s) \/ DoBlock(s) \/ DoWake(s) \/ DoCancel(s)
             \/ DoFinish(s) \/ DoFail(s) \/ DoRequeue(s)
      PROVE  Advances(core.ready, core'.ready)
  <2>1. Advances(core.ready, core.ready) /\ Advances(core.ready, Retain(core.ready, s))
    BY DEF Advances
  <2>2. CASE DoSubmit(s)
    <3>1. core'.ready = core.ready
      BY <1>0, <2>2 DEF DoSubmit, Submit, CoreType
    <3> QED
      BY <2>1, <3>1
  <2>3. Block(core, s).core.ready \in {core.ready, Retain(core.ready, s)}
    BY <1>0 DEF Block, NoEffects, Ret, RemoveFromReady, CoreType
  <2>4. \A f : RevokeTo(core, s, f).ready = Retain(core.ready, s)
    BY <1>0 DEF RevokeTo, Revoke, RemoveFromReady, CoreType
  <2>5. /\ Cancel(core, s).core.ready \in {core.ready, Retain(core.ready, s)}
        /\ Finish(core, s).core.ready \in {core.ready, Retain(core.ready, s)}
        /\ Fail(core, s).core.ready \in {core.ready, Retain(core.ready, s)}
    BY <2>4 DEF Cancel, Finish, Fail, Terminalize, NoEffects, Ret
  <2>6. \/ Wake(core, s).core.ready = core.ready
        \/ ~ core.inReady[s] /\ Wake(core, s).core.ready = Append(core.ready, s)
    BY <1>0 DEF Wake, NoEffects, Ret, EnqueueIfRunnable, PushBack, CoreType
  <2>7. \/ Requeue(core, s).ready = core.ready
        \/ ~ core.inReady[s] /\ Requeue(core, s).ready = Append(core.ready, s)
    BY <1>0 DEF Requeue, EnqueueIfRunnable, PushBack, CoreType
  <2>8. ~ core.inReady[s] => Advances(core.ready, Append(core.ready, s))
    BY <1>0, PushAdvances
  <2> QED
    BY <1>3, <2>1, <2>2, <2>3, <2>5, <2>6, <2>7, <2>8
    DEF DoBlock, DoWake, DoCancel, DoFinish, DoFail, DoRequeue, Observe
<1>4. ASSUME NEW t \in Ticket, NEW ok \in BOOLEAN, DoComplete(t, ok)
      PROVE  Advances(core.ready, core'.ready)
  <2> DEFINE s == core.inflight[t]
             d == Consume(core, t)
  <2>1. core' = Complete(core, t, ok).core
    BY <1>4 DEF DoComplete
  <2>2. CASE s = NoOwner
    <3>1. core' = core
      BY <2>1, <2>2 DEF Complete, NoEffects, Ret
    <3> QED
      BY <3>1 DEF Advances
  <2>3. CASE s # NoOwner
    <3>0. Good(d) /\ s \in SessionId
      BY <1>0, <2>3, ConsumeGood DEF CoreType
    <3>1. d.ready = core.ready /\ d.state = core.state /\ d.inReady = core.inReady
      BY <1>0 DEF Consume, CoreType
    <3> HIDE DEF d
    <3>2. \A f : RevokeTo(d, s, f).ready = Retain(d.ready, s)
      BY <3>0 DEF RevokeTo, Revoke, RemoveFromReady, CoreType, Good
    <3>3. PushBack([d EXCEPT !.state[s] = "Runnable"], s).ready = Append(d.ready, s)
      BY <3>0 DEF PushBack, CoreType, Good
    <3>4. d.state[s] = "Blocked" => ~ d.inReady[s]
      BY <3>0 DEF Good, CoreInv, QueueConsistent
    <3>5. \/ core'.ready \in {d.ready, Retain(d.ready, s)}
          \/ ~ d.inReady[s] /\ core'.ready = Append(d.ready, s)
      BY <2>1, <2>3, <3>2, <3>3, <3>4
      DEF Complete, Terminalize, NoEffects, Ret, d
    <3>6. Advances(d.ready, core'.ready)
      BY <3>0, <3>5, PushAdvances DEF Advances
    <3> QED
      BY <3>1, <3>6
  <2> QED
    BY <2>2, <2>3
<1> QED
  BY <1>1, <1>2, <1>3, <1>4 DEF Next

\* Of two sessions that stay queued the one in front stays in front, for any
\* number of sessions and whatever is called.
THEOREM QueueOrder == Spec => FifoOrder
<1>1. IInv /\ [Next]_vars => InOrder(core.ready, core'.ready)
  <2> SUFFICES ASSUME IInv, [Next]_vars PROVE InOrder(core.ready, core'.ready)
    OBVIOUS
  <2>1. core.ready \in Seq(SessionId) /\ NoDuplicates(core.ready)
    BY DEF IInv, TypeOK, CoreType, CoreConsistent, CoreInv, QueueConsistent
  <2>2. Advances(core.ready, core'.ready)
    BY NextAdvances DEF Advances, vars
  <2> QED
    BY <2>1, <2>2, AdvancesInOrder
<1>2. InOrder(core.ready, core'.ready) =>
        \A i, j \in 1 .. Len(core.ready) :
          i < j => \A k, l \in 1 .. Len(core'.ready) :
                     core'.ready[k] = core.ready[i] /\ core'.ready[l] = core.ready[j]
                       => k < l
  BY DEF InOrder
<1> QED
  BY <1>1, <1>2, Inductive, PTL DEF Spec, FifoOrder
-----------------------------------------------------------------------------
(***************************************************************************)
(* SchedulerRuntime.  What a method of the core means to its owner: the    *)
(* tickets it revokes, besides the one that is done, are live no longer,   *)
(* and no other ticket and no counter changes.                             *)
(***************************************************************************)

Method(c, ret, done) ==
  /\ Good(ret.core)
  /\ Live(ret.core) = Live(c) \ (ret.cancel \cup done)
  /\ ret.core.nextTicket = c.nextTicket
  /\ ret.core.nextSession = c.nextSession

LEMMA NoMethod ==
  ASSUME NEW c, Good(c)
  PROVE  Method(c, NoEffects(c), {})
BY DEF Method, NoEffects, Ret

\* cancel, finish and fail on a session that is not terminal.
LEMMA RevokeMethod ==
  ASSUME NEW c, Good(c), NEW s \in SessionId, c.state[s] # "Absent",
         NEW final \in Ending, NEW event
  PROVE  /\ Method(c, Ret(RevokeTo(c, s, final), c.owned[s], event), {})
         /\ RevokeTo(c, s, final).state = [c.state EXCEPT ![s] = final]
<1> DEFINE d == RevokeTo(c, s, final)
<1>1. Good(d) /\ Live(d) = Live(c) \ c.owned[s] /\ d.state = [c.state EXCEPT ![s] = final]
  BY RevokeGood
<1>2. d.nextTicket = c.nextTicket /\ d.nextSession = c.nextSession
  BY DEF RevokeTo, Revoke, RemoveFromReady, Good, CoreType
<1> HIDE DEF d
<1>3. Method(c, Ret(d, c.owned[s], event), {})
  BY <1>1, <1>2 DEF Method, Ret
<1> QED
  BY <1>1, <1>3 DEF d

\* The lifecycle calls.
LEMMA LifecycleMethods ==
  ASSUME NEW c, Good(c), NEW s \in SessionId, c.state[s] # "Absent",
         NEW ret \in {Block(c, s), Wake(c, s), Cancel(c, s), Finish(c, s), Fail(c, s)}
  PROVE  Method(c, ret, {})
<1>1. CASE ret = NoEffects(c)
  BY <1>1, NoMethod
<1>2. CASE ret = Block(c, s) /\ c.state[s] = "Runnable"
  <2>1. Good(ret.core) /\ ret.core.inflight = c.inflight
    BY <1>2, BlockGood
  <2>2. /\ ret.cancel = {} /\ ret.core.nextTicket = c.nextTicket
        /\ ret.core.nextSession = c.nextSession
    BY <1>2 DEF Block, NoEffects, Ret, RemoveFromReady, Good, CoreType
  <2> QED
    BY <2>1, <2>2 DEF Method, Live
<1>3. CASE ret = Wake(c, s) /\ c.state[s] = "Blocked"
  <2> DEFINE d == PushBack([c EXCEPT !.state[s] = "Runnable"], s)
  <2>1. ret.core = d
    BY <1>3, WakeGood
  <2>2. Good(d) /\ d.inflight = c.inflight
    BY <1>3, UnblockGood
  <2>3. d.nextTicket = c.nextTicket /\ d.nextSession = c.nextSession
    BY DEF PushBack, Good, CoreType
  <2> HIDE DEF d
  <2>4. ret.cancel = {}
    BY <1>3 DEF Wake, Ret
  <2> QED
    BY <2>1, <2>2, <2>3, <2>4 DEF Method, Live
<1>4. ASSUME NEW final \in Ending, NEW event,
             ret = Ret(RevokeTo(c, s, final), c.owned[s], event)
      PROVE  Method(c, ret, {})
  BY <1>4, RevokeMethod
<1>5. CASE ret = Cancel(c, s)
  BY <1>1, <1>4, <1>5 DEF Cancel, Ending
<1>6. CASE ret = Finish(c, s)
  BY <1>1, <1>4, <1>6 DEF Finish, Terminalize, Ending, Terminal
<1>7. CASE ret = Fail(c, s)
  BY <1>1, <1>4, <1>7 DEF Fail, Terminalize, Ending, Terminal
<1>8. CASE ret = Block(c, s) /\ c.state[s] # "Runnable"
  BY <1>1, <1>8 DEF Block
<1>9. CASE ret = Wake(c, s) /\ c.state[s] # "Blocked"
  BY <1>1, <1>9 DEF Wake
<1> QED
  BY <1>2, <1>3, <1>5, <1>6, <1>7, <1>8, <1>9

\* A completion, in time or not.
LEMMA CompleteMethod ==
  ASSUME NEW c, Good(c), NEW t \in Ticket, NEW ok \in BOOLEAN
  PROVE  Method(c, Complete(c, t, ok), {t})
<1> DEFINE s == c.inflight[t]
           d == Consume(c, t)
           ret == Complete(c, t, ok)
<1>1. CASE s = NoOwner
  <2>1. ret = NoEffects(c) /\ t \notin Live(c)
    BY <1>1 DEF Complete, Live
  <2> QED
    BY <2>1 DEF Method, NoEffects, Ret
<1>2. CASE s # NoOwner
  <2>1. /\ Good(d) /\ s \in SessionId
        /\ c.state[s] \in {"Runnable", "Blocked"} /\ d.state = c.state
        /\ Live(d) = Live(c) \ {t}
    BY <1>2, ConsumeGood
  <2>2. d.nextTicket = c.nextTicket /\ d.nextSession = c.nextSession
    BY DEF Consume, Good, CoreType
  <2>3. \A r : Method(d, r, {}) => Method(c, r, {t})
    BY <2>1, <2>2 DEF Method
  <2>4. CASE ~ ok
    <3>1. ret = Terminalize(d, s, "Failed")
      BY <1>2, <2>4 DEF Complete
    <3> HIDE DEF d, s, ret
    <3>2. Method(d, Ret(RevokeTo(d, s, "Failed"), d.owned[s], "Failed"), {})
      BY <2>1, RevokeMethod DEF Ending, Terminal
    <3> QED
      BY <2>3, <3>1, <3>2 DEF Terminalize, ret
  <2>5. CASE ok /\ d.state[s] = "Blocked" /\ d.owned[s] = {}
    <3> DEFINE e == PushBack([d EXCEPT !.state[s] = "Runnable"], s)
    <3>1. ret = Ret(e, {}, "Wake")
      BY <1>2, <2>5 DEF Complete
    <3> HIDE DEF d, s, ret
    <3>2. Good(e) /\ e.inflight = d.inflight
      BY <2>1, <2>5, UnblockGood
    <3>3. e.nextTicket = d.nextTicket /\ e.nextSession = d.nextSession
      BY <2>1 DEF PushBack, Good, CoreType
    <3> HIDE DEF e
    <3>4. Method(d, Ret(e, {}, "Wake"), {})
      BY <3>2, <3>3 DEF Method, Live, Ret
    <3> QED
      BY <2>3, <3>1, <3>4 DEF ret
  <2>6. CASE ok /\ ~ (d.state[s] = "Blocked" /\ d.owned[s] = {})
    <3>1. ret = NoEffects(d)
      BY <1>2, <2>6 DEF Complete
    <3> HIDE DEF d, ret
    <3> QED
      BY <2>1, <2>3, <3>1, NoMethod DEF ret
  <2> QED
    BY <2>4, <2>5, <2>6
<1> QED
  BY <1>1, <1>2

\* Tickets belong to sessions that run or are blocked.
LEMMA EndedOwnsNothing ==
  ASSUME NEW c, Good(c), \A s \in SessionId : c.state[s] \in Terminal \cup {"Absent"}
  PROVE  Live(c) = {}
<1> SUFFICES ASSUME NEW t \in Live(c) PROVE FALSE
  OBVIOUS
<1>1. t \in Ticket /\ c.inflight[t] \in SessionId
  BY DEF Live, Good, CoreType
<1>2. t \in c.owned[c.inflight[t]]
  BY <1>1 DEF Good, CoreInv, TicketsConsistent
<1> QED
  BY <1>1, <1>2 DEF Good, CoreInv, TicketsConsistent, Terminal
-----------------------------------------------------------------------------
(***************************************************************************)
(* Where the tickets are.  A record r holds what the methods of            *)
(* RuntimeLoop change; K gives the kinds, run and rep are the tickets with *)
(* workers and on their way back, and hand is what the thread holds in its *)
(* hand in the middle of a method: a ticket just issued, or just taken     *)
(* from the backpressure queue.                                            *)
(***************************************************************************)

Fields(r) ==
  /\ r \in [core : CoreType, pending : Seq(Ticket), lane : [Kind -> Seq(Ticket)],
            hole : SUBSET Kind]
  /\ CoreInv(r.core)
  /\ NoDuplicates(r.pending)
  /\ \A k \in Kind : NoDuplicates(r.lane[k]) /\ Len(r.lane[k]) <= LaneCapacity

\* The kinds are those of the issued tickets, and a lane's are its own.
Kinds(r, K) ==
  /\ K \in [Ticket -> Kind \cup {NoKind}]
  /\ \A t \in Ticket : t < r.core.nextTicket <=> K[t] # NoKind
  /\ \A k \in Kind, t \in Ticket : Queued(r.lane[k], t) => K[t] = k

\* A ticket is in at most one place, waits only while it is live, and is
\* somewhere as long as it is live.
Places(r, run, rep, hand) ==
  /\ run \in SUBSET Ticket /\ rep \in SUBSET Ticket /\ run \cap rep = {}
  /\ hand \cap (run \cup rep) = {}
  /\ \A t \in run \cup rep \cup hand : t < r.core.nextTicket
  /\ \A t \in Ticket : Queued(r.pending, t) =>
       /\ t \in Live(r.core) /\ t \notin run \cup rep \cup hand
       /\ \A k \in Kind : ~ Queued(r.lane[k], t)
  /\ \A k \in Kind, t \in Ticket : Queued(r.lane[k], t) =>
       t \in Live(r.core) /\ t \notin run \cup rep \cup hand
  /\ \A t \in Live(r.core) :
       \/ Queued(r.pending, t) \/ \E k \in Kind : Queued(r.lane[k], t)
       \/ t \in run \cup rep \cup hand

Placed(r, K, run, rep, hand) == Fields(r) /\ Kinds(r, K) /\ Places(r, run, rep, hand)

\* What the effects of a core method leave in the queues.
Shrinks(r, n, S) ==
  /\ \A t : Queued(n.pending, t) <=> Queued(r.pending, t) /\ t \notin S
  /\ \A k \in Kind, t \in Ticket :
       Queued(n.lane[k], t) <=> Queued(r.lane[k], t) /\ t \notin S
  /\ n.hole = r.hole \cup {k \in Kind : \E t \in S : Queued(r.lane[k], t)}

LEMMA ApplyFields ==
  ASSUME NEW r, Fields(r), NEW ret, Good(ret.core)
  PROVE  LET n == Apply(r, ret)
         IN  Fields(n) /\ n.core = ret.core /\ Shrinks(r, n, ret.cancel)
<1> DEFINE S == ret.cancel
           n == Apply(r, ret)
           q == Without(r.pending, S)
           f == [k \in Kind |-> Without(r.lane[k], S)]
           h == r.hole \cup {k \in Kind : \E t \in S : Queued(r.lane[k], t)}
<1>1. /\ r \in [core : CoreType, pending : Seq(Ticket), lane : [Kind -> Seq(Ticket)],
                hole : SUBSET Kind]
      /\ NoDuplicates(r.pending)
      /\ \A k \in Kind : NoDuplicates(r.lane[k]) /\ Len(r.lane[k]) <= LaneCapacity
  BY DEF Fields
<1>2. n = [r EXCEPT !.core = ret.core, !.pending = q, !.lane = f, !.hole = h]
  <2>1. [r EXCEPT !.core = ret.core].lane = r.lane
    BY <1>1
  <2> QED
    BY <1>1, <2>1 DEF Apply, ApplyEffects
<1>3. /\ q \in Seq(Ticket) /\ NoDuplicates(q)
      /\ \A t : Queued(q, t) <=> Queued(r.pending, t) /\ t \notin S
  BY <1>1, WithoutQueue
<1>4. ASSUME NEW k \in Kind
      PROVE  /\ f[k] \in Seq(Ticket) /\ NoDuplicates(f[k]) /\ Len(f[k]) <= LaneCapacity
             /\ \A t \in Ticket : Queued(f[k], t) <=> Queued(r.lane[k], t) /\ t \notin S
  <2> DEFINE a == r.lane[k]
             b == Without(a, S)
  <2>1. a \in Seq(Ticket) /\ NoDuplicates(a) /\ Len(a) <= LaneCapacity /\ f[k] = b
    BY <1>1
  <2> HIDE DEF a, b
  <2>2. /\ b \in Seq(Ticket) /\ NoDuplicates(b) /\ Len(b) <= Len(a)
        /\ \A t : Queued(b, t) <=> Queued(a, t) /\ t \notin S
    BY <2>1, WithoutQueue DEF b
  <2>3. Len(b) <= LaneCapacity
    BY <2>1, <2>2, RuntimeConstants
  <2> HIDE DEF f
  <2> QED
    BY <2>1, <2>2, <2>3 DEF a
<1>5. f \in [Kind -> Seq(Ticket)] /\ h \in SUBSET Kind
  BY <1>1, <1>4
<1> HIDE DEF q, f, h, S, n
<1>6. n.core = ret.core /\ n.pending = q /\ n.lane = f /\ n.hole = h
  BY <1>1, <1>2
<1>7. n \in [core : CoreType, pending : Seq(Ticket), lane : [Kind -> Seq(Ticket)],
             hole : SUBSET Kind]
  BY <1>1, <1>2, <1>3, <1>5 DEF Good
<1>8. Fields(n)
  BY <1>3, <1>4, <1>6, <1>7 DEF Fields, Good
<1>9. Shrinks(r, n, S)
  BY <1>3, <1>4, <1>6 DEF Shrinks, h
<1> QED
  BY <1>6, <1>8, <1>9 DEF n, S

\* A core method is called and its effects are applied.
LEMMA ApplyPlaced ==
  ASSUME NEW r, NEW K, NEW run, NEW rep, NEW hand, NEW ret, NEW done \in SUBSET Ticket,
         NEW n, n = Apply(r, ret),
         Placed(r, K, run, rep, hand), Method(r.core, ret, done),
         \A t \in done : ~ Queued(r.pending, t) /\ \A k \in Kind : ~ Queued(r.lane[k], t)
  PROVE  Placed(n, K, run, rep, hand \ done) /\ Shrinks(r, n, ret.cancel) /\ n.core = ret.core
<1> DEFINE S == ret.cancel
<1>1. /\ Good(ret.core) /\ Live(ret.core) = Live(r.core) \ (S \cup done)
      /\ ret.core.nextTicket = r.core.nextTicket
  BY DEF Method
<1>2. Fields(n) /\ n.core = ret.core /\ Shrinks(r, n, S)
  BY <1>1, ApplyFields DEF Placed
<1> HIDE DEF S
<1>3. Kinds(n, K)
  BY <1>1, <1>2 DEF Placed, Kinds, Shrinks
<1>4. Places(n, run, rep, hand \ done)
  <2>1. Places(r, run, rep, hand)
    BY DEF Placed
  <2>2. /\ (hand \ done) \cap (run \cup rep) = {}
        /\ \A t \in run \cup rep \cup (hand \ done) : t < n.core.nextTicket
    BY <1>1, <1>2, <2>1 DEF Places
  <2>3. ASSUME NEW t \in Ticket, Queued(n.pending, t)
        PROVE  /\ t \in Live(n.core) /\ t \notin run \cup rep \cup (hand \ done)
               /\ \A k \in Kind : ~ Queued(n.lane[k], t)
    BY <1>1, <1>2, <2>1, <2>3 DEF Places, Shrinks
  <2>4. ASSUME NEW k \in Kind, NEW t \in Ticket, Queued(n.lane[k], t)
        PROVE  t \in Live(n.core) /\ t \notin run \cup rep \cup (hand \ done)
    BY <1>1, <1>2, <2>1, <2>4 DEF Places, Shrinks
  <2>5. ASSUME NEW t \in Live(n.core)
        PROVE  \/ Queued(n.pending, t) \/ \E k \in Kind : Queued(n.lane[k], t)
               \/ t \in run \cup rep \cup (hand \ done)
    <3>1. t \in Live(r.core) /\ t \notin S /\ t \notin done /\ t \in Ticket
      BY <1>1, <1>2, <2>5 DEF Live
    <3> QED
      BY <1>2, <2>1, <3>1 DEF Places, Shrinks
  <2> QED
    BY <2>1, <2>2, <2>3, <2>4, <2>5 DEF Places
<1> QED
  BY <1>2, <1>3, <1>4 DEF Placed, S

Accepts(r, t, k, n) == n = [r EXCEPT !.lane[k] = Append(@, t)]
Bounces(r, t, n) == n = [r EXCEPT !.pending = Append(@, t)]

\* The ticket in the hand goes to the back of its lane ...
LEMMA AcceptPlaced ==
  ASSUME NEW r, NEW K, NEW run, NEW rep, NEW t \in Live(r.core), NEW k \in Kind,
         Placed(r, K, run, rep, {t}), K[t] = k, Len(r.lane[k]) < LaneCapacity,
         NEW n, Accepts(r, t, k, n)
  PROVE  /\ Placed(n, K, run, rep, {}) /\ n.core = r.core /\ n.hole = r.hole
         /\ n.pending = r.pending /\ n.lane[k] # << >>
         /\ \A j \in Kind : j # k => n.lane[j] = r.lane[j]
<1> DEFINE q == Append(r.lane[k], t)
<1>1. /\ r \in [core : CoreType, pending : Seq(Ticket), lane : [Kind -> Seq(Ticket)],
                hole : SUBSET Kind]
      /\ CoreInv(r.core) /\ NoDuplicates(r.pending)
      /\ \A j \in Kind : NoDuplicates(r.lane[j]) /\ Len(r.lane[j]) <= LaneCapacity
  BY DEF Placed, Fields
<1>2. t \in Ticket /\ Kinds(r, K) /\ Places(r, run, rep, {t})
  BY DEF Placed, Live
<1>3. ~ Queued(r.pending, t) /\ \A j \in Kind : ~ Queued(r.lane[j], t)
  BY <1>2 DEF Places
<1>4. /\ q \in Seq(Ticket) /\ NoDuplicates(q)
      /\ \A x \in Ticket : Queued(q, x) <=> x = t \/ Queued(r.lane[k], x)
  <2>1. r.lane[k] \in Seq(Ticket) /\ NoDuplicates(r.lane[k]) /\ ~ Queued(r.lane[k], t)
    BY <1>1, <1>3
  <2> QED
    BY <1>2, <2>1, AppendQueue
<1>5. q # << >> /\ Len(q) <= LaneCapacity
  <2>1. r.lane[k] \in Seq(Ticket) /\ t \in Ticket /\ Len(r.lane[k]) < LaneCapacity
    BY <1>1, <1>2
  <2> QED
    BY ONLY <2>1, RuntimeConstants
<1>6. n.lane = [r.lane EXCEPT ![k] = q]
  BY <1>1 DEF Accepts
<1>7. n.core = r.core /\ n.pending = r.pending /\ n.hole = r.hole
  BY <1>1 DEF Accepts
<1>8. n.lane[k] = q /\ \A j \in Kind : j # k => n.lane[j] = r.lane[j]
  BY <1>1, <1>6
<1>9. n \in [core : CoreType, pending : Seq(Ticket), lane : [Kind -> Seq(Ticket)],
             hole : SUBSET Kind]
  BY <1>1, <1>4 DEF Accepts
<1> HIDE DEF q
<1>10. Fields(n)
  BY <1>1, <1>4, <1>5, <1>7, <1>8, <1>9 DEF Fields
<1>11. Kinds(n, K)
  BY <1>2, <1>4, <1>7, <1>8 DEF Kinds
<1>12. Places(n, run, rep, {})
  <2>1. \A j \in Kind, x \in Ticket : Queued(n.lane[j], x) <=>
          Queued(r.lane[j], x) \/ (j = k /\ x = t)
    BY <1>4, <1>8
  <2>2. /\ run \in SUBSET Ticket /\ rep \in SUBSET Ticket /\ run \cap rep = {}
        /\ {} \cap (run \cup rep) = {}
        /\ \A x \in run \cup rep \cup {} : x < n.core.nextTicket
    BY <1>2, <1>7 DEF Places
  <2>3. ASSUME NEW x \in Ticket, Queued(n.pending, x)
        PROVE  /\ x \in Live(n.core) /\ x \notin run \cup rep \cup {}
               /\ \A j \in Kind : ~ Queued(n.lane[j], x)
    BY <1>2, <1>3, <1>7, <2>1, <2>3 DEF Places
  <2>4. t \notin run \cup rep
    BY <1>2 DEF Places
  <2>5. ASSUME NEW j \in Kind, NEW x \in Ticket, Queued(n.lane[j], x)
        PROVE  x \in Live(n.core) /\ x \notin run \cup rep \cup {}
    BY <1>2, <1>7, <2>1, <2>4, <2>5 DEF Places
  <2>6. ASSUME NEW x \in Live(n.core)
        PROVE  \/ Queued(n.pending, x) \/ \E j \in Kind : Queued(n.lane[j], x)
               \/ x \in run \cup rep \cup {}
    <3>1. x \in Ticket /\ x \in Live(r.core)
      BY <1>7, <2>6 DEF Live
    <3> QED
      BY <1>2, <1>7, <2>1, <3>1 DEF Places
  <2> QED
    BY <2>2, <2>3, <2>5, <2>6 DEF Places
<1> QED
  BY <1>5, <1>7, <1>8, <1>10, <1>11, <1>12 DEF Placed

\* ... or, if the lane is full, to the back of the backpressure queue.
LEMMA BouncePlaced ==
  ASSUME NEW r, NEW K, NEW run, NEW rep, NEW t \in Live(r.core),
         Placed(r, K, run, rep, {t}), NEW n, Bounces(r, t, n)
  PROVE  /\ Placed(n, K, run, rep, {}) /\ n.core = r.core /\ n.hole = r.hole
         /\ n.lane = r.lane
         /\ \A x \in Ticket : Queued(n.pending, x) <=> x = t \/ Queued(r.pending, x)
<1> DEFINE q == Append(r.pending, t)
<1>1. /\ r \in [core : CoreType, pending : Seq(Ticket), lane : [Kind -> Seq(Ticket)],
                hole : SUBSET Kind]
      /\ CoreInv(r.core) /\ NoDuplicates(r.pending)
      /\ \A j \in Kind : NoDuplicates(r.lane[j]) /\ Len(r.lane[j]) <= LaneCapacity
  BY DEF Placed, Fields
<1>2. t \in Ticket /\ Kinds(r, K) /\ Places(r, run, rep, {t})
  BY DEF Placed, Live
<1>3. ~ Queued(r.pending, t) /\ \A j \in Kind : ~ Queued(r.lane[j], t)
  BY <1>2 DEF Places
<1>4. /\ q \in Seq(Ticket) /\ NoDuplicates(q)
      /\ \A x \in Ticket : Queued(q, x) <=> x = t \/ Queued(r.pending, x)
  <2>1. r.pending \in Seq(Ticket)
    BY <1>1
  <2> QED
    BY <1>1, <1>2, <1>3, <2>1, AppendQueue
<1>5. n.core = r.core /\ n.pending = q /\ n.lane = r.lane /\ n.hole = r.hole
  BY <1>1 DEF Bounces
<1>6. n \in [core : CoreType, pending : Seq(Ticket), lane : [Kind -> Seq(Ticket)],
             hole : SUBSET Kind]
  BY <1>1, <1>4 DEF Bounces
<1> HIDE DEF q
<1>7. Fields(n)
  BY <1>1, <1>4, <1>5, <1>6 DEF Fields
<1>8. Kinds(n, K)
  BY <1>2, <1>5 DEF Kinds
<1>9. Places(n, run, rep, {})
  <2>1. t \notin run \cup rep
    BY <1>2 DEF Places
  <2>2. /\ run \in SUBSET Ticket /\ rep \in SUBSET Ticket /\ run \cap rep = {}
        /\ {} \cap (run \cup rep) = {}
        /\ \A x \in run \cup rep \cup {} : x < n.core.nextTicket
    BY <1>2, <1>5 DEF Places
  <2>3. ASSUME NEW x \in Ticket, Queued(n.pending, x)
        PROVE  /\ x \in Live(n.core) /\ x \notin run \cup rep \cup {}
               /\ \A j \in Kind : ~ Queued(n.lane[j], x)
    <3>1. x = t \/ Queued(r.pending, x)
      BY <1>4, <1>5, <2>3
    <3> QED
      BY <1>2, <1>3, <1>5, <2>1, <3>1 DEF Places
  <2>4. ASSUME NEW j \in Kind, NEW x \in Ticket, Queued(n.lane[j], x)
        PROVE  x \in Live(n.core) /\ x \notin run \cup rep \cup {}
    BY <1>2, <1>5, <2>4 DEF Places
  <2>5. ASSUME NEW x \in Live(n.core)
        PROVE  \/ Queued(n.pending, x) \/ \E j \in Kind : Queued(n.lane[j], x)
               \/ x \in run \cup rep \cup {}
    <3>1. x \in Ticket /\ x \in Live(r.core)
      BY <1>5, <2>5 DEF Live
    <3> QED
      BY <1>2, <1>4, <1>5, <3>1 DEF Places
  <2> QED
    BY <2>2, <2>3, <2>4, <2>5 DEF Places
<1> QED
  BY <1>4, <1>5, <1>7, <1>8, <1>9 DEF Placed

\* A step that does not make backpressured work lose a lane that has something
\* to do, unless try_cancel emptied it.
Gentle(r, n) ==
  /\ \A x \in Ticket : Queued(n.pending, x) => Queued(r.pending, x)
  /\ r.hole \subseteq n.hole
  /\ \A j \in Kind : j \notin n.hole /\ r.lane[j] # << >> => n.lane[j] # << >>

SamePending(r, n) == n.pending = r.pending

\* try_submit disposes of the ticket in the hand, a full lane aside.
LEMMA TrySubmitPlaced ==
  ASSUME NEW r, NEW K, NEW run, NEW rep, NEW t \in Live(r.core), NEW k \in Kind,
         Placed(r, K, run, rep, {t}), K[t] = k,
         k \notin closed => Len(r.lane[k]) < LaneCapacity,
         NEW n, n = TrySubmit(r, t, k)
  PROVE  /\ Placed(n, K, run, rep, {}) /\ Gentle(r, n)
         /\ k \notin closed => SamePending(r, n)
<1>0. t \in Ticket /\ Good(r.core)
  BY DEF Live, Placed, Fields, Good
<1>1. CASE k \in closed
  <2> DEFINE ret == Complete(r.core, t, FALSE)
  <2>1. n = Apply(r, ret)
    BY <1>1 DEF TrySubmit
  <2>2. Method(r.core, ret, {t})
    BY <1>0, CompleteMethod
  <2> DEFINE D == {t}
  <2>3. /\ D \in SUBSET Ticket
        /\ \A x \in D : ~ Queued(r.pending, x) /\ \A j \in Kind : ~ Queued(r.lane[j], x)
    BY <1>0 DEF Placed, Places
  <2>a. Placed(r, K, run, rep, D) /\ Method(r.core, ret, D)
    BY <2>2
  <2> HIDE DEF ret, D
  <2>4. Placed(n, K, run, rep, D \ D) /\ Shrinks(r, n, ret.cancel) /\ n.core = ret.core
    BY ONLY <2>1, <2>3, <2>a, ApplyPlaced
  <2>5. Placed(n, K, run, rep, {})
    <3>1. D \ D = {}
      OBVIOUS
    <3> QED
      BY <2>4, <3>1
  <2>6. ASSUME NEW j \in Kind, j \notin n.hole, r.lane[j] # << >>
        PROVE  n.lane[j] # << >>
    <3>1. r.lane[j] \in Seq(Ticket)
      BY DEF Placed, Fields
    <3>2. r.lane[j][1] \in Ticket /\ Queued(r.lane[j], r.lane[j][1])
      BY <2>6, <3>1 DEF Queued
    <3>3. Queued(n.lane[j], r.lane[j][1])
      BY <2>4, <2>6, <3>2 DEF Shrinks
    <3> QED
      BY <3>3 DEF Queued
  <2> QED
    BY <1>1, <2>4, <2>5, <2>6 DEF Shrinks, Gentle
<1>2. CASE k \notin closed
  <2>1. Accepts(r, t, k, n) /\ Len(r.lane[k]) < LaneCapacity
    BY <1>2 DEF TrySubmit, Accepts
  <2>a. Placed(r, K, run, rep, {t}) /\ t \in Live(r.core) /\ k \in Kind /\ K[t] = k
    OBVIOUS
  <2>2. /\ Placed(n, K, run, rep, {}) /\ n.core = r.core /\ n.hole = r.hole
        /\ n.pending = r.pending /\ n.lane[k] # << >>
        /\ \A j \in Kind : j # k => n.lane[j] = r.lane[j]
    BY ONLY <2>1, <2>a, AcceptPlaced
  <2> QED
    BY <2>2 DEF Gentle, SamePending
<1> QED
  BY <1>1, <1>2

\* A queue without the element at one position.
Taken(q, i, rest) == rest = SubSeq(q, 1, i - 1) \o SubSeq(q, i + 1, Len(q))

LEMMA RemovedAt ==
  ASSUME NEW T, NEW q \in Seq(T), NoDuplicates(q), NEW i \in 1 .. Len(q),
         NEW rest, Taken(q, i, rest)
  PROVE  /\ rest \in Seq(T) /\ NoDuplicates(rest)
         /\ \A x \in T : Queued(rest, x) <=> Queued(q, x) /\ x # q[i]
         /\ Len(rest) = Len(q) - 1
         /\ \A j \in 1 .. (i - 1) : rest[j] = q[j]
<1> DEFINE a == SubSeq(q, 1, i - 1)
           b == SubSeq(q, i + 1, Len(q))
           r == [k \in 1 .. (Len(q) - 1) |-> IF k < i THEN q[k] ELSE q[k + 1]]
<1>0. Len(q) \in Nat /\ i \in Nat /\ 1 <= i /\ i <= Len(q)
  OBVIOUS
<1>1. /\ a \in Seq(T) /\ Len(a) = i - 1 /\ \A j \in 1 .. (i - 1) : a[j] = q[j]
  OBVIOUS
<1>2. /\ b \in Seq(T) /\ Len(b) = Len(q) - i /\ \A j \in 1 .. (Len(q) - i) : b[j] = q[i + j]
  OBVIOUS
<1>3. /\ rest \in Seq(T) /\ Len(rest) = Len(a) + Len(b)
      /\ \A j \in 1 .. Len(a) : rest[j] = a[j]
      /\ \A j \in 1 .. Len(b) : rest[Len(a) + j] = b[j]
  <2>1. rest = a \o b
    BY DEF Taken
  <2> HIDE DEF a, b
  <2>2. a \in Seq(T) /\ b \in Seq(T)
    BY ONLY <1>1, <1>2
  <2> QED
    BY ONLY <2>1, <2>2
<1>4. Retain(q, q[i]) = r
  BY RetainAt
<1> HIDE DEF a, b
<1>5. Len(rest) = Len(q) - 1
  BY ONLY <1>0, <1>1, <1>2, <1>3
<1>6. ASSUME NEW j \in 1 .. (Len(q) - 1) PROVE rest[j] = r[j]
  <2>1. CASE j < i
    <3>1. j \in 1 .. (i - 1) /\ r[j] = q[j]
      BY <1>0, <2>1
    <3> QED
      BY <1>1, <1>3, <3>1
  <2>2. CASE ~ (j < i)
    <3> DEFINE k == j - (i - 1)
    <3>1. k \in 1 .. (Len(q) - i) /\ (i - 1) + k = j /\ i + k = j + 1 /\ r[j] = q[j + 1]
      BY <1>0, <2>2
    <3> HIDE DEF k, r
    <3>2. rest[(i - 1) + k] = b[k]
      BY ONLY <1>1, <1>2, <1>3, <3>1
    <3> QED
      BY <1>2, <3>1, <3>2
  <2> QED
    BY <2>1, <2>2
<1>7. rest = r
  <2>1. rest \in Seq(T) /\ Len(rest) = Len(q) - 1 /\ Len(q) - 1 \in Nat
    BY ONLY <1>0, <1>3, <1>5
  <2>2. rest = [k \in 1 .. (Len(q) - 1) |-> rest[k]]
    <3> HIDE DEF r
    <3> QED
      BY ONLY <2>1
  <2> QED
    BY <1>6, <2>2
<1>8. \A j \in 1 .. (i - 1) : rest[j] = q[j]
  BY ONLY <1>1, <1>3
<1> HIDE DEF r
<1>9. rest = Retain(q, q[i])
  BY <1>4, <1>7
<1>10. /\ NoDuplicates(rest)
       /\ \A x \in T : Queued(rest, x) <=> x # q[i] /\ Queued(q, x)
  <2>1. q \in Seq(T) /\ NoDuplicates(q)
    OBVIOUS
  <2>2. /\ NoDuplicates(Retain(q, q[i]))
        /\ \A x \in T : Queued(Retain(q, q[i]), x) <=> x # q[i] /\ Queued(q, x)
    BY ONLY <2>1, RetainQueue, Zenon
  <2> QED
    BY ONLY <1>9, <2>2
<1> QED
  BY <1>3, <1>5, <1>8, <1>10

\* retry_pending takes a request into its hand.
Picks(r, rest, n) == n = [r EXCEPT !.pending = rest]

TookOne(r, i, rest, n) ==
  /\ n.core = r.core /\ n.lane = r.lane /\ n.hole = r.hole /\ n.pending = rest
  /\ \A x \in Ticket : Queued(rest, x) => Queued(r.pending, x)
  /\ \A j \in 1 .. (i - 1) : rest[j] = r.pending[j]
  /\ Len(rest) = Len(r.pending) - 1

LEMMA TakePlaced ==
  ASSUME NEW r, NEW K, NEW run, NEW rep, NEW i \in 1 .. Len(r.pending),
         Placed(r, K, run, rep, {}),
         NEW rest, Taken(r.pending, i, rest),
         NEW n, Picks(r, rest, n)
  PROVE  /\ Placed(n, K, run, rep, {r.pending[i]})
         /\ r.pending[i] \in Live(n.core)
         /\ TookOne(r, i, rest, n)
<1> DEFINE q == r.pending
           t == q[i]
<1>1. /\ r \in [core : CoreType, pending : Seq(Ticket), lane : [Kind -> Seq(Ticket)],
                hole : SUBSET Kind]
      /\ CoreInv(r.core) /\ NoDuplicates(r.pending)
      /\ \A j \in Kind : NoDuplicates(r.lane[j]) /\ Len(r.lane[j]) <= LaneCapacity
  BY DEF Placed, Fields
<1>2. Kinds(r, K) /\ Places(r, run, rep, {})
  BY DEF Placed
<1>3. n.core = r.core /\ n.lane = r.lane /\ n.hole = r.hole /\ n.pending = rest
  BY <1>1 DEF Picks
<1>4. q \in Seq(Ticket) /\ NoDuplicates(q) /\ t \in Ticket /\ Queued(q, t)
  BY <1>1 DEF Queued
<1>5. /\ rest \in Seq(Ticket) /\ NoDuplicates(rest)
      /\ \A x \in Ticket : Queued(rest, x) <=> Queued(q, x) /\ x # q[i]
      /\ Len(rest) = Len(q) - 1
      /\ \A j \in 1 .. (i - 1) : rest[j] = q[j]
  <2>1. Taken(q, i, rest) /\ i \in 1 .. Len(q)
    OBVIOUS
  <2> HIDE DEF q
  <2> QED
    BY ONLY <1>4, <2>1, RemovedAt, SMT
<1>6. n \in [core : CoreType, pending : Seq(Ticket), lane : [Kind -> Seq(Ticket)],
             hole : SUBSET Kind]
  BY <1>1, <1>5 DEF Picks
<1> HIDE DEF q, t
<1>7. Fields(n)
  BY <1>1, <1>3, <1>5, <1>6 DEF Fields
<1>8. Kinds(n, K)
  BY <1>2, <1>3 DEF Kinds
<1>9. t \in Live(r.core) /\ t \notin run \cup rep /\ \A k \in Kind : ~ Queued(r.lane[k], t)
  BY <1>2, <1>4 DEF Places, q
<1>10. t < r.core.nextTicket
  <2>1. r.core.nextTicket \in Nat
    BY <1>1, CoreConstants DEF CoreType
  <2> QED
    BY <1>1, <1>9, <2>1 DEF CoreInv, IdsFresh, Live, Ticket
<1>11. Places(n, run, rep, {t})
  <2>1. \A x \in Ticket : Queued(n.pending, x) <=> Queued(r.pending, x) /\ x # t
    BY <1>3, <1>5 DEF q, t
  <2>2. /\ run \in SUBSET Ticket /\ rep \in SUBSET Ticket /\ run \cap rep = {}
        /\ {t} \cap (run \cup rep) = {}
        /\ \A x \in run \cup rep \cup {t} : x < n.core.nextTicket
    BY <1>2, <1>3, <1>9, <1>10 DEF Places
  <2>3. ASSUME NEW x \in Ticket, Queued(n.pending, x)
        PROVE  /\ x \in Live(n.core) /\ x \notin run \cup rep \cup {t}
               /\ \A j \in Kind : ~ Queued(n.lane[j], x)
    BY <1>2, <1>3, <2>1, <2>3 DEF Places
  <2>4. ASSUME NEW j \in Kind, NEW x \in Ticket, Queued(n.lane[j], x)
        PROVE  x \in Live(n.core) /\ x \notin run \cup rep \cup {t}
    BY <1>2, <1>3, <1>9, <2>4 DEF Places
  <2>5. ASSUME NEW x \in Live(n.core)
        PROVE  \/ Queued(n.pending, x) \/ \E j \in Kind : Queued(n.lane[j], x)
               \/ x \in run \cup rep \cup {t}
    <3>1. x \in Ticket /\ x \in Live(r.core)
      BY <1>3, <2>5 DEF Live
    <3> QED
      BY <1>2, <1>3, <2>1, <3>1 DEF Places
  <2> QED
    BY <2>2, <2>3, <2>4, <2>5 DEF Places
<1>12. TookOne(r, i, rest, n)
  BY <1>3, <1>5 DEF TookOne, q
<1> QED
  BY <1>3, <1>7, <1>8, <1>9, <1>11, <1>12 DEF Placed, q, t

\* The core issues a ticket, which the thread holds until its lane answers.
Issues(r, s, n) == n = [r EXCEPT !.core = Submit(r.core, s)]
Stamps(K, t, k, L) == L = [K EXCEPT ![t] = k]

LEMMA SubmitPlaced ==
  ASSUME NEW r, NEW K, NEW run, NEW rep, NEW s \in SessionId, NEW k \in Kind,
         Placed(r, K, run, rep, {}), r.core.state[s] = "Runnable",
         r.core.nextTicket < MaxTickets,
         NEW t, t = r.core.nextTicket,
         NEW n, Issues(r, s, n), NEW L, Stamps(K, t, k, L)
  PROVE  /\ Placed(n, L, run, rep, {t})
         /\ t \in Live(n.core) /\ L[t] = k
         /\ n.pending = r.pending /\ n.lane = r.lane /\ n.hole = r.hole
         /\ \A x \in Ticket : x # t => L[x] = K[x]
         /\ t \notin run \cup rep /\ ~ Queued(r.pending, t)
<1> DEFINE d == Submit(r.core, s)
<1>1. /\ r \in [core : CoreType, pending : Seq(Ticket), lane : [Kind -> Seq(Ticket)],
                hole : SUBSET Kind]
      /\ CoreInv(r.core) /\ NoDuplicates(r.pending)
      /\ \A j \in Kind : NoDuplicates(r.lane[j]) /\ Len(r.lane[j]) <= LaneCapacity
      /\ Good(r.core)
  BY DEF Placed, Fields, Good
<1>2. Kinds(r, K) /\ Places(r, run, rep, {})
  BY DEF Placed
<1>3. Good(d) /\ t \in Ticket /\ Live(d) = Live(r.core) \cup {t}
  BY <1>1, SubmitGood
<1>4. d.nextTicket = t + 1 /\ r.core.nextTicket \in Nat
  BY <1>1, CoreConstants DEF Submit, CoreType
<1> HIDE DEF d
<1>5. n.core = d /\ n.pending = r.pending /\ n.lane = r.lane /\ n.hole = r.hole
  BY <1>1 DEF d, Issues
<1>6. t \notin Live(r.core)
  BY <1>1, <1>3, <1>4 DEF CoreInv, IdsFresh, Live
<1>7. /\ t \notin run \cup rep /\ ~ Queued(r.pending, t)
      /\ \A j \in Kind : ~ Queued(r.lane[j], t)
  BY <1>2, <1>3, <1>4, <1>6 DEF Places
<1>8. L \in [Ticket -> Kind \cup {NoKind}] /\ L[t] = k /\ \A x \in Ticket : x # t => L[x] = K[x]
  BY <1>2, <1>3 DEF Kinds, Stamps
<1>9. Fields(n)
  <2>1. d \in CoreType
    BY <1>3 DEF Good
  <2>2. n \in [core : CoreType, pending : Seq(Ticket), lane : [Kind -> Seq(Ticket)],
               hole : SUBSET Kind]
    BY <1>1, <2>1 DEF d, Issues
  <2> QED
    BY <1>1, <1>3, <1>5, <2>2 DEF Fields, Good
<1>10. Kinds(n, L)
  <2>1. ASSUME NEW x \in Ticket PROVE x < n.core.nextTicket <=> L[x] # NoKind
    <3>1. CASE x = t
      BY <1>4, <1>5, <1>8, <3>1, RuntimeConstants
    <3>2. CASE x # t
      <4>1. x < t + 1 <=> x < t
        BY <1>4, <3>2 DEF Ticket
      <4> QED
        BY <1>2, <1>4, <1>5, <1>8, <3>2, <4>1 DEF Kinds
    <3> QED
      BY <3>1, <3>2
  <2>2. ASSUME NEW j \in Kind, NEW x \in Ticket, Queued(n.lane[j], x) PROVE L[x] = j
    BY <1>2, <1>5, <1>7, <1>8, <2>2 DEF Kinds
  <2> QED
    BY <1>8, <2>1, <2>2 DEF Kinds
<1>11. Places(n, run, rep, {t})
  <2>2. /\ run \in SUBSET Ticket /\ rep \in SUBSET Ticket /\ run \cap rep = {}
        /\ {t} \cap (run \cup rep) = {}
    BY <1>2, <1>7 DEF Places
  <2>3. ASSUME NEW x \in run \cup rep \cup {t} PROVE x < n.core.nextTicket
    <3>1. x \in Int
      BY <1>3, <2>2 DEF Ticket
    <3>2. x < t \/ x = t
      BY <1>2, <2>3 DEF Places
    <3> QED
      BY <1>4, <1>5, <3>1, <3>2
  <2>4. ASSUME NEW x \in Ticket, Queued(n.pending, x)
        PROVE  /\ x \in Live(n.core) /\ x \notin run \cup rep \cup {t}
               /\ \A j \in Kind : ~ Queued(n.lane[j], x)
    BY <1>2, <1>3, <1>5, <1>7, <2>4 DEF Places
  <2>5. ASSUME NEW j \in Kind, NEW x \in Ticket, Queued(n.lane[j], x)
        PROVE  x \in Live(n.core) /\ x \notin run \cup rep \cup {t}
    BY <1>2, <1>3, <1>5, <1>7, <2>5 DEF Places
  <2>6. ASSUME NEW x \in Live(n.core)
        PROVE  \/ Queued(n.pending, x) \/ \E j \in Kind : Queued(n.lane[j], x)
               \/ x \in run \cup rep \cup {t}
    BY <1>2, <1>3, <1>5, <2>6 DEF Places
  <2> QED
    BY <2>2, <2>3, <2>4, <2>5, <2>6 DEF Places
<1> QED
  BY <1>3, <1>5, <1>7, <1>8, <1>9, <1>10, <1>11 DEF Placed
-----------------------------------------------------------------------------
(***************************************************************************)
(* The inductive invariant of the runtime.                                 *)
(***************************************************************************)

ControlTyped ==
  /\ closed \in SUBSET MayClose /\ draining \in BOOLEAN
  /\ phase \in {"recv", "burst", "retry", "stopping", "joining", "stopped"}
  /\ offers \in Seq(Kind) /\ cursor \in Nat
  /\ stopMode \in {"none", "Cancel", "Drain"}

TicketsPlaced == Placed(Here, kind, running, reports, {})

\* retry_pending leaves no request of an open lane behind its cursor.
RetryCursor ==
  phase = "retry" =>
    /\ cursor >= 1
    /\ offers # << >> /\ Head(offers) \notin closed =>
         \A j \in 1 .. Len(pending) : j < cursor => kind[pending[j]] # Head(offers)

\* How far a shutdown has come.
ShutdownPath ==
  /\ stopMode = "none" <=> phase \in {"recv", "burst", "retry"}
  /\ stopMode = "Drain" => Live(core) = {} /\ pending = << >>
  /\ phase = "stopping" => \A s \in SessionId : s < cursor => core.state[s] \in Terminal
  /\ phase \in {"joining", "stopped"} =>
       /\ pending = << >>
       /\ \A s \in SessionId : core.state[s] \in Terminal \cup {"Absent"}
  /\ phase = "stopped" => running = {}

\* Backpressured work of an open lane with no hole: the lane has a job, a report
\* is on its way or parked, or a retry is about to offer the work.
Watched ==
  \A k \in Kind \ (hole \cup closed) :
    (\E i \in 1 .. Len(pending) : kind[pending[i]] = k) =>
      \/ lane[k] # << >>
      \/ \E t \in running \cup reports : kind[t] = k
      \/ phase = "retry" /\ Queued(offers, k)

RuntimeInv ==
  ControlTyped /\ TicketsPlaced /\ Watched /\ RetryCursor /\ ShutdownPath


\* The variables after a step are the fields of the record it becomes.
LEMMA BecomesHere ==
  ASSUME NEW n, Fields(n), Becomes(n)
  PROVE  Here' = n
<1>1. n \in [core : CoreType, pending : Seq(Ticket), lane : [Kind -> Seq(Ticket)],
             hole : SUBSET Kind]
  BY DEF Fields
<1>2. n = [core |-> n.core, pending |-> n.pending, lane |-> n.lane, hole |-> n.hole]
  BY <1>1
<1> QED
  BY <1>2 DEF Becomes, Here

LEMMA HereFields ==
  ASSUME TicketsPlaced
  PROVE  /\ Here.core = core /\ Here.pending = pending /\ Here.lane = lane /\ Here.hole = hole
         /\ Good(core) /\ pending \in Seq(Ticket) /\ lane \in [Kind -> Seq(Ticket)]
         /\ hole \in SUBSET Kind /\ kind \in [Ticket -> Kind \cup {NoKind}]
         /\ running \in SUBSET Ticket /\ reports \in SUBSET Ticket
         /\ Fields(Here) /\ Kinds(Here, kind) /\ Places(Here, running, reports, {})
<1>1. Here.core = core /\ Here.pending = pending /\ Here.lane = lane /\ Here.hole = hole
  BY DEF Here
<1>2. Fields(Here) /\ Kinds(Here, kind) /\ Places(Here, running, reports, {})
  BY DEF TicketsPlaced, Placed
<1>3. /\ Here \in [core : CoreType, pending : Seq(Ticket), lane : [Kind -> Seq(Ticket)],
                   hole : SUBSET Kind]
      /\ CoreInv(Here.core)
  BY <1>2 DEF Fields
<1>4. /\ Good(core) /\ pending \in Seq(Ticket) /\ lane \in [Kind -> Seq(Ticket)]
      /\ hole \in SUBSET Kind
  BY <1>1, <1>3 DEF Good
<1>5. /\ kind \in [Ticket -> Kind \cup {NoKind}]
      /\ running \in SUBSET Ticket /\ reports \in SUBSET Ticket
  BY <1>2 DEF Kinds, Places
<1> QED
  BY <1>1, <1>2, <1>4, <1>5

LEMMA ShrinksGentle ==
  ASSUME NEW r, NEW n, NEW S, Fields(r), Shrinks(r, n, S)
  PROVE  Gentle(r, n)
<1>1. ASSUME NEW j \in Kind, j \notin n.hole, r.lane[j] # << >>
      PROVE  n.lane[j] # << >>
  <2>1. r.lane[j] \in Seq(Ticket)
    BY DEF Fields
  <2>2. r.lane[j][1] \in Ticket /\ Queued(r.lane[j], r.lane[j][1])
    BY <1>1, <2>1 DEF Queued
  <2>3. Queued(n.lane[j], r.lane[j][1])
    BY <1>1, <2>2 DEF Shrinks
  <2> QED
    BY <2>3 DEF Queued
<1> QED
  BY <1>1 DEF Gentle, Shrinks

LEMMA GentleTwice ==
  ASSUME NEW a, NEW b, NEW c, Gentle(a, b), Gentle(b, c)
  PROVE  Gentle(a, c)
BY DEF Gentle

LEMMA GentleHere ==
  ASSUME NEW r
  PROVE  Gentle(r, r)
BY DEF Gentle

\* What waits, by ticket and by position.
LEMMA WaitingOf ==
  ASSUME NEW q \in Seq(Ticket), NEW K, NEW k
  PROVE  (\E i \in 1 .. Len(q) : K[q[i]] = k) <=> (\E t \in Ticket : Queued(q, t) /\ K[t] = k)
BY DEF Queued

LEMMA WatchedStep ==
  ASSUME TicketsPlaced, Watched, NEW n, Fields(n), Becomes(n),
         \A x \in Ticket : Queued(n.pending, x) =>
           Queued(pending, x) \/ n.lane[kind'[x]] # << >>,
         hole \subseteq n.hole,
         \A j \in Kind : j \notin n.hole /\ lane[j] # << >> =>
           n.lane[j] # << >> \/ \E u \in running' \cup reports' : kind'[u] = j,
         \A x \in Ticket : Queued(pending, x) \/ x \in running \cup reports =>
           kind'[x] = kind[x],
         closed \subseteq closed',
         running \cup reports \subseteq running' \cup reports',
         phase = "retry" => phase' = "retry" /\ offers' = offers
  PROVE  Watched'
<1>1. pending \in Seq(Ticket) /\ running \in SUBSET Ticket /\ reports \in SUBSET Ticket
  BY HereFields
<1>2. pending' = n.pending /\ lane' = n.lane /\ hole' = n.hole /\ n.pending \in Seq(Ticket)
  BY DEF Becomes, Fields
<1> SUFFICES ASSUME NEW k \in Kind \ (hole' \cup closed'),
                    \E i \in 1 .. Len(pending') : kind'[pending'[i]] = k
             PROVE  \/ lane'[k] # << >>
                    \/ \E t \in running' \cup reports' : kind'[t] = k
                    \/ phase' = "retry" /\ Queued(offers', k)
  BY DEF Watched
<1>3. PICK t \in Ticket : Queued(n.pending, t) /\ kind'[t] = k
  <2>1. PICK i \in 1 .. Len(n.pending) : kind'[n.pending[i]] = k
    BY <1>2
  <2>2. n.pending[i] \in Ticket /\ Queued(n.pending, n.pending[i])
    BY <1>2 DEF Queued
  <2> QED
    BY <2>1, <2>2
<1>4. CASE n.lane[k] # << >>
  BY <1>2, <1>4
<1>5. CASE Queued(pending, t)
  <2>1. kind[t] = k
    BY <1>3, <1>5
  <2>2. \E i \in 1 .. Len(pending) : kind[pending[i]] = k
    BY <1>5, <2>1 DEF Queued
  <2>3. k \in Kind \ (hole \cup closed) /\ k \notin n.hole
    BY <1>2
  <2>4. \/ lane[k] # << >>
        \/ \E u \in running \cup reports : kind[u] = k
        \/ phase = "retry" /\ Queued(offers, k)
    BY <2>2, <2>3 DEF Watched
  <2>5. CASE lane[k] # << >>
    BY <1>2, <2>3, <2>5
  <2>6. CASE \E u \in running \cup reports : kind[u] = k
    BY <1>1, <2>6
  <2> QED
    BY <2>4, <2>5, <2>6
<1> QED
  BY <1>3, <1>4, <1>5

LEMMA WatchedAfter ==
  ASSUME TicketsPlaced, Watched, NEW n, Fields(n), Becomes(n), Gentle(Here, n),
         kind' = kind, closed \subseteq closed',
         running \cup reports \subseteq running' \cup reports',
         phase = "retry" => phase' = "retry" /\ offers' = offers
  PROVE  Watched'
<1>1. Here.pending = pending /\ Here.lane = lane /\ Here.hole = hole
  BY HereFields
<1>2. /\ \A x \in Ticket : Queued(n.pending, x) => Queued(pending, x)
      /\ hole \subseteq n.hole
      /\ \A j \in Kind : j \notin n.hole /\ lane[j] # << >> => n.lane[j] # << >>
  BY <1>1 DEF Gentle
<1> QED
  BY <1>2, WatchedStep

LEMMA PlacedAfter ==
  ASSUME NEW n, Becomes(n), Placed(n, kind', running', reports', {})
  PROVE  TicketsPlaced'
<1>1. Here' = n
  BY BecomesHere DEF Placed
<1> QED
  BY <1>1 DEF TicketsPlaced

\* A command that leaves the thread receiving.
LEMMA CommandStep ==
  ASSUME RuntimeInv, Receiving, NEW n, Becomes(n),
         Placed(n, kind', running', reports', {}), Watched',
         closed' = closed, draining' = draining, offers' = offers, cursor' = cursor,
         stopMode' = stopMode, phase' = "burst"
  PROVE  RuntimeInv'
<1>1. TicketsPlaced'
  BY PlacedAfter
<1>2. ControlTyped'
  BY DEF RuntimeInv, ControlTyped
<1>3. stopMode' = "none"
  BY DEF RuntimeInv, ShutdownPath, Receiving
<1>4. RetryCursor' /\ ShutdownPath'
  BY <1>3 DEF RetryCursor, ShutdownPath
<1> QED
  BY <1>1, <1>2, <1>4 DEF RuntimeInv

LEMMA CreatePlaced ==
  ASSUME NEW r, NEW K, NEW run, NEW rep, Placed(r, K, run, rep, {}),
         r.core.nextSession < MaxSessions,
         NEW n, n = [r EXCEPT !.core = CreateSession(r.core)]
  PROVE  /\ Placed(n, K, run, rep, {}) /\ n.core = CreateSession(r.core)
         /\ n.pending = r.pending /\ n.lane = r.lane /\ n.hole = r.hole
<1> DEFINE d == CreateSession(r.core)
<1>1. /\ r \in [core : CoreType, pending : Seq(Ticket), lane : [Kind -> Seq(Ticket)],
                hole : SUBSET Kind]
      /\ Good(r.core)
  BY DEF Placed, Fields, Good
<1>2. Good(d) /\ d.inflight = r.core.inflight
  BY <1>1, CreateGood
<1>3. d.nextTicket = r.core.nextTicket
  BY <1>1 DEF CreateSession, PushBack, CoreType
<1> HIDE DEF d
<1>4. n.core = d /\ n.pending = r.pending /\ n.lane = r.lane /\ n.hole = r.hole
  BY <1>1 DEF d
<1>5. Live(n.core) = Live(r.core)
  BY <1>2, <1>4 DEF Live
<1>6. Fields(n)
  <2>1. n \in [core : CoreType, pending : Seq(Ticket), lane : [Kind -> Seq(Ticket)],
               hole : SUBSET Kind]
    BY <1>1, <1>2 DEF d, Good
  <2> QED
    BY <1>2, <1>4, <2>1 DEF Placed, Fields, Good
<1>7. Kinds(n, K)
  BY <1>3, <1>4 DEF Placed, Kinds
<1>8. Places(n, run, rep, {})
  BY <1>3, <1>4, <1>5 DEF Placed, Places
<1> QED
  BY <1>4, <1>6, <1>7, <1>8 DEF Placed, d

LEMMA CreateStepRuntime == RuntimeInv /\ HandleCreate => RuntimeInv'
<1> SUFFICES ASSUME RuntimeInv, HandleCreate PROVE RuntimeInv'
  OBVIOUS
<1> DEFINE n == [Here EXCEPT !.core = CreateSession(Here.core)]
<1>1. /\ Here.core = core /\ Here.pending = pending /\ Here.lane = lane /\ Here.hole = hole
      /\ Placed(Here, kind, running, reports, {})
  BY HereFields DEF RuntimeInv, TicketsPlaced
<1>2. /\ Receiving /\ core.nextSession < MaxSessions /\ core' = CreateSession(core)
      /\ phase' = "burst" /\ kind' = kind /\ pending' = pending /\ lane' = lane
      /\ hole' = hole /\ draining' = draining /\ offers' = offers /\ cursor' = cursor
      /\ stopMode' = stopMode /\ running' = running /\ reports' = reports
      /\ closed' = closed
  BY DEF HandleCreate, control, lanes
<1>3. /\ Placed(n, kind, running, reports, {}) /\ n.core = CreateSession(Here.core)
      /\ n.pending = Here.pending /\ n.lane = Here.lane /\ n.hole = Here.hole
  <2>1. Here.core.nextSession < MaxSessions
    BY <1>1, <1>2
  <2> QED
    BY <1>1, <2>1, CreatePlaced
<1> HIDE DEF n
<1>4. Becomes(n)
  BY <1>1, <1>2, <1>3 DEF Becomes
<1>5. Gentle(Here, n)
  BY <1>3 DEF Gentle
<1>6. Watched'
  BY <1>2, <1>3, <1>4, <1>5, WatchedAfter DEF RuntimeInv, Placed, Receiving
<1> QED
  BY <1>2, <1>3, <1>4, <1>6, CommandStep

LEMMA InitRuntimeInv == RuntimeInit => RuntimeInv
<1> SUFFICES ASSUME RuntimeInit PROVE RuntimeInv
  OBVIOUS
<1>1. ControlTyped
  <2>1. /\ closed = {} /\ draining = FALSE /\ phase = "recv" /\ offers = << >>
        /\ cursor = 0 /\ stopMode = "none"
    BY DEF RuntimeInit
  <2>2. draining \in BOOLEAN
    BY ONLY <2>1, Zenon
  <2>3. offers \in Seq(Kind) /\ cursor \in Nat /\ closed \in SUBSET MayClose
    BY ONLY <2>1
  <2> QED
    BY ONLY <2>1, <2>2, <2>3 DEF ControlTyped
<1>2. Good(core)
  <2>1. core = NewCore
    BY DEF RuntimeInit
  <2> QED
    BY ONLY <2>1, NewCoreGood
<1>3. Here.core = core /\ Here.pending = << >> /\ Here.lane = [k \in Kind |-> << >>] /\ Here.hole = {}
  BY DEF Here, RuntimeInit
<1>4. Here \in [core : CoreType, pending : Seq(Ticket), lane : [Kind -> Seq(Ticket)],
                hole : SUBSET Kind]
  BY <1>2 DEF Here, RuntimeInit, Good
<1>5. Fields(Here)
  <2>1. NoDuplicates(<< >>) /\ Len(<< >>) <= LaneCapacity
    BY RuntimeConstants DEF NoDuplicates
  <2> QED
    BY <1>2, <1>3, <1>4, <2>1 DEF Fields, Good
<1>6. \A x : ~ Queued(<< >>, x)
  BY DEF Queued
<1>7. core.nextTicket = 0 /\ Live(core) = {}
  BY DEF RuntimeInit, NewCore, Live
<1>8. Kinds(Here, kind)
  <2>1. \A t \in Ticket : ~ (t < 0)
    BY DEF Ticket
  <2> QED
    BY <1>3, <1>6, <1>7, <2>1 DEF Kinds, RuntimeInit
<1>9. Places(Here, running, reports, {})
  BY <1>3, <1>6, <1>7 DEF Places, RuntimeInit
<1>10. Watched
  BY DEF Watched, RuntimeInit
<1>11. RetryCursor /\ ShutdownPath
  BY DEF RetryCursor, ShutdownPath, RuntimeInit
<1> QED
  BY <1>1, <1>5, <1>8, <1>9, <1>10, <1>11 DEF RuntimeInv, TicketsPlaced, Placed

\* A core method of a command, with its effects.
LEMMA AppliedHere ==
  ASSUME TicketsPlaced, Watched, NEW ret, Method(core, ret, {}),
         NEW n, n = Apply(Here, ret)
  PROVE  /\ Placed(n, kind, running, reports, {}) /\ Gentle(Here, n) /\ Fields(n)
         /\ n.core = ret.core
<1>1. Here.core = core /\ Placed(Here, kind, running, reports, {}) /\ Fields(Here)
  BY HereFields DEF TicketsPlaced
<1> DEFINE D == {}
<1>2. /\ D \in SUBSET Ticket /\ Method(Here.core, ret, D) /\ Placed(Here, kind, running, reports, D)
      /\ \A t \in D : ~ Queued(Here.pending, t) /\ \A k \in Kind : ~ Queued(Here.lane[k], t)
  BY <1>1
<1> HIDE DEF D
<1>3. /\ Placed(n, kind, running, reports, D \ D) /\ Shrinks(Here, n, ret.cancel)
      /\ n.core = ret.core
  BY ONLY <1>2, n = Apply(Here, ret), ApplyPlaced
<1>4. D \ D = {}
  BY DEF D
<1>5. Placed(n, kind, running, reports, {}) /\ Fields(n)
  BY <1>3, <1>4 DEF Placed
<1> QED
  BY <1>1, <1>3, <1>5, ShrinksGentle

LEMMA LifecycleStepRuntime ==
  ASSUME RuntimeInv, NEW s \in SessionId, HandleLifecycle(s)
  PROVE  RuntimeInv'
<1>1. TicketsPlaced /\ Watched /\ Good(core)
  BY HereFields DEF RuntimeInv
<1>2. /\ Receiving /\ core.state[s] # "Absent"
      /\ phase' = "burst" /\ kind' = kind /\ draining' = draining /\ offers' = offers
      /\ cursor' = cursor /\ stopMode' = stopMode /\ running' = running
      /\ reports' = reports /\ closed' = closed
  BY DEF HandleLifecycle, control, lanes
<1>3. PICK ret \in {Block(core, s), Wake(core, s), Cancel(core, s),
                    Finish(core, s), Fail(core, s)} : Becomes(Apply(Here, ret))
  BY DEF HandleLifecycle
<1>4. Method(core, ret, {})
  BY <1>1, <1>2, LifecycleMethods
<1> DEFINE n == Apply(Here, ret)
<1>5. Becomes(n)
  BY <1>3
<1>6. Placed(n, kind, running, reports, {}) /\ Gentle(Here, n) /\ Fields(n)
  BY <1>1, <1>4, AppliedHere
<1> HIDE DEF n
<1>7. Watched'
  BY <1>1, <1>2, <1>5, <1>6, WatchedAfter DEF Receiving
<1> QED
  BY <1>2, <1>5, <1>6, <1>7, CommandStep

\* A completion takes its ticket, if it was still live, out of the core; the
\* ticket waits for nothing, so its report may be forgotten.
LEMMA ReportGone ==
  ASSUME NEW r, NEW K, NEW run, NEW rep, NEW t, Placed(r, K, run, rep, {}),
         t \notin Live(r.core)
  PROVE  Placed(r, K, run, rep \ {t}, {})
<1>1. Places(r, run, rep, {})
  BY DEF Placed
<1>2. Places(r, run, rep \ {t}, {})
  BY <1>1 DEF Places
<1> QED
  BY <1>2 DEF Placed

LEMMA CompleteStepRuntime ==
  ASSUME RuntimeInv, NEW t \in Ticket, NEW ok \in BOOLEAN, HandleComplete(t, ok)
  PROVE  RuntimeInv'
<1>1. /\ TicketsPlaced /\ Watched /\ Good(core) /\ Fields(Here)
      /\ Here.core = core /\ Here.pending = pending /\ Here.lane = lane /\ Here.hole = hole
      /\ Kinds(Here, kind) /\ Placed(Here, kind, running, reports, {})
  BY HereFields DEF RuntimeInv, TicketsPlaced
<1>2. /\ Receiving /\ t < core.nextTicket
      /\ ~ Queued(pending, t) /\ ~ Queued(lane[kind[t]], t)
      /\ Becomes(Apply(Here, Complete(core, t, ok)))
      /\ reports' = reports \ {t}
      /\ phase' = "retry" /\ offers' = LaneOrder /\ cursor' = 1
      /\ kind' = kind /\ draining' = draining /\ stopMode' = stopMode
      /\ running' = running /\ closed' = closed
  BY DEF HandleComplete
<1> DEFINE ret == Complete(core, t, ok)
           n == Apply(Here, ret)
           D == {t}
<1>3. Method(core, ret, D) /\ D \in SUBSET Ticket
  BY <1>1, CompleteMethod
<1>4. \A x \in D : ~ Queued(Here.pending, x) /\ \A k \in Kind : ~ Queued(Here.lane[k], x)
  <2>1. ASSUME NEW k \in Kind, Queued(lane[k], t) PROVE FALSE
    BY <1>1, <1>2, <2>1 DEF Kinds
  <2> QED
    BY <1>1, <1>2, <2>1
<1>5. Becomes(n) /\ n = Apply(Here, ret)
  BY <1>2
<1>6. t \in D
  OBVIOUS
<1> DEFINE E == {}
<1>7. Placed(Here, kind, running, reports, E)
  BY <1>1
<1>8. E \ D = {}
  OBVIOUS
<1> HIDE DEF ret, n, D, E
<1>9. /\ Placed(n, kind, running, reports, E \ D) /\ Shrinks(Here, n, ret.cancel)
      /\ n.core = ret.core
  <2>1. Method(Here.core, ret, D)
    BY <1>1, <1>3
  <2> QED
    BY ONLY <1>3, <1>4, <1>5, <1>7, <2>1, ApplyPlaced
<1>10. t \notin Live(n.core)
  BY <1>3, <1>6, <1>9 DEF Method
<1>11. Placed(n, kind, running, reports \ {t}, {})
  BY <1>8, <1>9, <1>10, ReportGone
<1>12. TicketsPlaced'
  BY <1>2, <1>5, <1>11, PlacedAfter
<1>13. Watched'
  <2>1. \A k \in Kind : Queued(LaneOrder, k)
    BY DEF Kind, Queued
  <2> QED
    BY <1>2, <2>1 DEF Watched
<1>14. ControlTyped'
  BY <1>2, RuntimeConstants DEF RuntimeInv, ControlTyped
<1>15. stopMode' = "none"
  BY <1>2 DEF RuntimeInv, ShutdownPath, Receiving
<1>16. RetryCursor'
  <2>1. cursor' >= 1 /\ \A j \in 1 .. Len(pending') : ~ (j < cursor')
    BY <1>2
  <2> QED
    BY <2>1 DEF RetryCursor
<1>17. ShutdownPath'
  BY <1>2, <1>15 DEF ShutdownPath
<1> QED
  BY <1>12, <1>13, <1>14, <1>16, <1>17 DEF RuntimeInv

LEMMA ReadyStepRuntime ==
  ASSUME RuntimeInv, NEW k \in Kind, ExecutorReady(k)
  PROVE  RuntimeInv'
<1>1. TicketsPlaced /\ Watched /\ Fields(Here) /\ Placed(Here, kind, running, reports, {})
  BY HereFields DEF RuntimeInv, TicketsPlaced
<1>2. /\ Receiving /\ phase' = "retry" /\ offers' = << k >> /\ cursor' = 1
      /\ core' = core /\ kind' = kind /\ pending' = pending /\ lane' = lane
      /\ hole' = hole /\ draining' = draining /\ stopMode' = stopMode
      /\ running' = running /\ reports' = reports /\ closed' = closed
  BY DEF ExecutorReady, lanes
<1>3. Becomes(Here)
  BY <1>2 DEF Becomes, Here
<1>4. TicketsPlaced'
  BY <1>1, <1>2, <1>3, PlacedAfter
<1>5. Watched'
  BY <1>1, <1>2, <1>3, GentleHere, WatchedAfter DEF Receiving
<1>6. ControlTyped'
  BY <1>2 DEF RuntimeInv, ControlTyped
<1>7. stopMode' = "none"
  BY <1>2 DEF RuntimeInv, ShutdownPath, Receiving
<1>8. RetryCursor'
  <2>1. cursor' >= 1 /\ \A j \in 1 .. Len(pending') : ~ (j < cursor')
    BY <1>2
  <2> QED
    BY <2>1 DEF RetryCursor
<1>9. ShutdownPath'
  BY <1>2, <1>7 DEF ShutdownPath
<1> QED
  BY <1>4, <1>5, <1>6, <1>8, <1>9 DEF RuntimeInv

LEMMA SubmitStepRuntime ==
  ASSUME RuntimeInv, NEW s \in SessionId, NEW k \in Kind, HandleSubmit(s, k)
  PROVE  RuntimeInv'
<1> DEFINE t == core.nextTicket
           r == [Here EXCEPT !.core = Submit(Here.core, s)]
           n == IF IsFull(k) THEN [r EXCEPT !.pending = Append(@, t)] ELSE TrySubmit(r, t, k)
<1>1. /\ TicketsPlaced /\ Watched /\ Placed(Here, kind, running, reports, {})
      /\ Here.core = core /\ Here.pending = pending /\ Here.lane = lane /\ Here.hole = hole
      /\ lane \in [Kind -> Seq(Ticket)] /\ kind \in [Ticket -> Kind \cup {NoKind}]
      /\ running \in SUBSET Ticket /\ reports \in SUBSET Ticket
  BY HereFields DEF RuntimeInv, TicketsPlaced
<1>2. /\ Receiving /\ t < MaxTickets /\ core.state[s] = "Runnable"
      /\ kind' = [kind EXCEPT ![t] = k]
      /\ phase' = "burst" /\ draining' = draining /\ offers' = offers
      /\ cursor' = cursor /\ stopMode' = stopMode /\ running' = running
      /\ reports' = reports /\ closed' = closed
  BY DEF HandleSubmit, SubmitAllowed, control, lanes
<1>3. Becomes(n)
  BY <1>1 DEF HandleSubmit
<1>4. /\ Placed(r, kind', running, reports, {t})
      /\ t \in Live(r.core) /\ kind'[t] = k
      /\ r.pending = pending /\ r.lane = lane /\ r.hole = hole
      /\ \A x \in Ticket : x # t => kind'[x] = kind[x]
      /\ t \notin running \cup reports /\ ~ Queued(pending, t)
  <2>1. /\ Here.core.state[s] = "Runnable" /\ Here.core.nextTicket < MaxTickets
        /\ t = Here.core.nextTicket /\ Issues(Here, s, r) /\ Stamps(kind, t, k, kind')
    BY <1>1, <1>2 DEF Issues, Stamps
  <2> HIDE DEF t, r
  <2>2. /\ Placed(r, kind', running, reports, {t})
        /\ t \in Live(r.core) /\ kind'[t] = k
        /\ r.pending = Here.pending /\ r.lane = Here.lane /\ r.hole = Here.hole
        /\ \A x \in Ticket : x # t => kind'[x] = kind[x]
        /\ t \notin running \cup reports /\ ~ Queued(Here.pending, t)
    <3>1. Placed(Here, kind, running, reports, {})
      BY <1>1
    <3> QED
      BY ONLY SMTT(40), <2>1, <3>1, s \in SessionId, k \in Kind, SubmitPlaced
  <2> QED
    BY <1>1, <2>2
<1>5. CASE IsFull(k)
  <2>1. Bounces(r, t, n)
    BY <1>5 DEF Bounces
  <2> HIDE DEF n, r, t
  <2>2. /\ Placed(n, kind', running, reports, {}) /\ n.core = r.core /\ n.hole = r.hole
        /\ n.lane = r.lane
        /\ \A x \in Ticket : Queued(n.pending, x) <=> x = t \/ Queued(r.pending, x)
    BY ONLY <1>4, <2>1, BouncePlaced
  <2>3. lane[k] # << >>
    BY <1>1, <1>5, RuntimeConstants DEF IsFull
  <2>4. /\ \A x \in Ticket : Queued(n.pending, x) =>
             Queued(pending, x) \/ n.lane[kind'[x]] # << >>
        /\ hole \subseteq n.hole
        /\ \A j \in Kind : j \notin n.hole /\ lane[j] # << >> =>
             n.lane[j] # << >> \/ \E u \in running' \cup reports' : kind'[u] = j
    BY <1>4, <2>2, <2>3
  <2>5. \A x \in Ticket : Queued(pending, x) \/ x \in running \cup reports =>
           kind'[x] = kind[x]
    BY <1>4
  <2>6. Fields(n)
    BY <2>2 DEF Placed
  <2>7. Watched'
    BY <1>1, <1>2, <1>3, <2>4, <2>5, <2>6, WatchedStep DEF Receiving
  <2> QED
    BY <1>2, <1>3, <2>2, <2>7, CommandStep
<1>6. CASE ~ IsFull(k)
  <2>1. n = TrySubmit(r, t, k)
    BY <1>6
  <2>2. k \notin closed => Len(r.lane[k]) < LaneCapacity
    <3>1. Len(lane[k]) \in Nat
      BY <1>1
    <3> QED
      BY <1>4, <1>6, <3>1, RuntimeConstants DEF IsFull
  <2> HIDE DEF n, r, t
  <2>3. Placed(n, kind', running, reports, {}) /\ Gentle(r, n)
    BY ONLY <1>4, <2>1, <2>2, k \in Kind, TrySubmitPlaced
  <2>4. /\ \A x \in Ticket : Queued(n.pending, x) =>
             Queued(pending, x) \/ n.lane[kind'[x]] # << >>
        /\ hole \subseteq n.hole
        /\ \A j \in Kind : j \notin n.hole /\ lane[j] # << >> =>
             n.lane[j] # << >> \/ \E u \in running' \cup reports' : kind'[u] = j
    BY <1>4, <2>3 DEF Gentle
  <2>5. \A x \in Ticket : Queued(pending, x) \/ x \in running \cup reports =>
           kind'[x] = kind[x]
    BY <1>4
  <2>6. Fields(n)
    BY <2>3 DEF Placed
  <2>7. Watched'
    BY <1>1, <1>2, <1>3, <2>4, <2>5, <2>6, WatchedStep DEF Receiving
  <2> QED
    BY <1>2, <1>3, <2>3, <2>7, CommandStep
<1> QED
  BY <1>5, <1>6

\* retry_pending picks the first request of the lane from its cursor on.
LEMMA FirstIsCandidate ==
  ASSUME ControlTyped, TicketsPlaced, Candidates # {}
  PROVE  /\ FirstCandidate \in Candidates
         /\ \A j \in Candidates : FirstCandidate <= j
<1>1. Candidates \subseteq Nat
  BY DEF Candidates, ControlTyped
<1>2. \E x \in Candidates : \A y \in Candidates : x <= y
  BY <1>1, LeastNatural
<1> QED
  BY <1>2 DEF FirstCandidate

LEMMA RetryStepRuntime == RuntimeInv /\ RetryOne => RuntimeInv'
<1> SUFFICES ASSUME RuntimeInv, RetryOne PROVE RuntimeInv'
  OBVIOUS
<1> DEFINE i == FirstCandidate
           k == Head(offers)
           t == pending[i]
           rest == SubSeq(pending, 1, i - 1) \o SubSeq(pending, i + 1, Len(pending))
           r == [Here EXCEPT !.pending = rest]
           n == TrySubmit(r, t, k)
<1>1. /\ TicketsPlaced /\ Watched /\ Placed(Here, kind, running, reports, {})
      /\ Here.core = core /\ Here.pending = pending /\ Here.lane = lane /\ Here.hole = hole
      /\ lane \in [Kind -> Seq(Ticket)] /\ kind \in [Ticket -> Kind \cup {NoKind}]
      /\ pending \in Seq(Ticket) /\ ControlTyped /\ RetryCursor /\ ShutdownPath
  BY HereFields DEF RuntimeInv, TicketsPlaced
<1>2. /\ phase = "retry" /\ offers # << >> /\ Candidates # {} /\ ~ IsFull(k)
      /\ cursor' = i
      /\ kind' = kind /\ phase' = phase /\ offers' = offers /\ draining' = draining
      /\ stopMode' = stopMode /\ running' = running /\ reports' = reports
      /\ closed' = closed
  BY DEF RetryOne, lanes
<1>3. Becomes(n)
  BY DEF RetryOne
<1>4. i \in Candidates /\ \A j \in Candidates : i <= j
  BY <1>1, <1>2, FirstIsCandidate
<1>5. k \in Kind
  BY <1>1, <1>2 DEF ControlTyped
<1>6. i \in 1 .. Len(pending) /\ kind[t] = k /\ cursor <= i /\ i \in Nat
  <2>1. i \in cursor .. Len(pending) /\ kind[t] = k
    BY <1>4 DEF Candidates
  <2>2. cursor \in Nat /\ cursor >= 1 /\ Len(pending) \in Nat
    BY <1>1, <1>2 DEF ControlTyped, RetryCursor
  <2> HIDE DEF i, t, k
  <2> QED
    BY <2>1, <2>2
<1>7. Taken(pending, i, rest)
  BY DEF Taken
<1>8. /\ Placed(r, kind, running, reports, {t}) /\ r.core = core /\ r.lane = lane
      /\ r.hole = hole /\ r.pending = rest /\ t \in Live(r.core)
      /\ \A x \in Ticket : Queued(rest, x) => Queued(pending, x)
      /\ \A j \in 1 .. (i - 1) : rest[j] = pending[j]
      /\ Len(rest) = Len(pending) - 1
  <2> HIDE DEF i, rest
  <2>1. i \in 1 .. Len(Here.pending) /\ Taken(Here.pending, i, rest) /\ t = Here.pending[i]
    BY <1>1, <1>6, <1>7
  <2>2. Picks(Here, rest, r)
    BY DEF Picks
  <2> HIDE DEF r, t
  <2>3. /\ Placed(r, kind, running, reports, {Here.pending[i]})
        /\ Here.pending[i] \in Live(r.core)
        /\ TookOne(Here, i, rest, r)
    <3>1. Placed(Here, kind, running, reports, {})
      BY <1>1
    <3> QED
      BY ONLY <2>1, <2>2, <3>1, TakePlaced
  <2> QED
    BY <1>1, <2>1, <2>3 DEF TookOne
<1>9. k \notin closed => Len(r.lane[k]) < LaneCapacity
  <2>1. Len(lane[k]) \in Nat
    BY <1>1, <1>5
  <2> QED
    BY <1>2, <1>8, <2>1, RuntimeConstants DEF IsFull
<1> HIDE DEF i, t, k, rest, r
<1>10. /\ Placed(n, kind, running, reports, {}) /\ Gentle(r, n)
       /\ k \notin closed => SamePending(r, n)
  <2>1. n = TrySubmit(r, t, k)
    OBVIOUS
  <2>2. Placed(r, kind, running, reports, {t}) /\ t \in Live(r.core) /\ k \in Kind /\ kind[t] = k
    BY <1>5, <1>6, <1>8
  <2> HIDE DEF n
  <2> QED
    BY ONLY <1>9, <2>1, <2>2, TrySubmitPlaced
<1> HIDE DEF n
<1>11. TicketsPlaced'
  BY <1>2, <1>3, <1>10, PlacedAfter
<1>12. Gentle(Here, n) /\ Fields(n)
  BY <1>1, <1>8, <1>10 DEF Gentle, Placed
<1>13. Watched'
  BY <1>1, <1>2, <1>3, <1>12, WatchedAfter
<1>14. ControlTyped'
  BY <1>1, <1>2, <1>6 DEF ControlTyped
<1>15. RetryCursor'
  <2>1. cursor' >= 1
    BY <1>2, <1>6
  <2>2. ASSUME k \notin closed', NEW j \in 1 .. Len(pending'), j < cursor'
        PROVE  kind'[pending'[j]] # k
    <3>1. pending' = rest
      BY <1>2, <1>3, <1>8, <1>10, <2>2 DEF Becomes, SamePending
    <3>2. j \in 1 .. (i - 1) /\ j \in 1 .. Len(pending) /\ j < i
      BY <1>2, <1>6, <1>8, <2>2, <3>1
    <3>3. rest[j] = pending[j]
      BY <1>8, <3>2
    <3>4. kind[pending[j]] # k
      <4>1. CASE j < cursor
        BY <1>1, <1>2, <2>2, <3>2, <4>1 DEF RetryCursor, k
      <4>2. CASE ~ (j < cursor)
        <5>1. j \in cursor .. Len(pending) /\ ~ (i <= j)
          BY <1>1, <1>6, <3>2, <4>2 DEF ControlTyped
        <5> QED
          BY <1>4, <5>1 DEF Candidates, k
      <4> QED
        BY <4>1, <4>2
    <3> QED
      BY <1>2, <3>1, <3>3, <3>4
  <2> QED
    BY <1>2, <2>1, <2>2 DEF RetryCursor, k
<1>16. ShutdownPath'
  BY <1>1, <1>2 DEF ShutdownPath
<1> QED
  BY <1>11, <1>13, <1>14, <1>15, <1>16 DEF RuntimeInv

LEMMA RetryEndsStepRuntime == RuntimeInv /\ RetryEnds => RuntimeInv'
<1> SUFFICES ASSUME RuntimeInv, RetryEnds PROVE RuntimeInv'
  OBVIOUS
<1> DEFINE k == Head(offers)
           n == [Here EXCEPT !.hole = Here.hole \ {k}]
<1>1. /\ TicketsPlaced /\ Watched /\ Placed(Here, kind, running, reports, {})
      /\ Here.core = core /\ Here.pending = pending /\ Here.lane = lane /\ Here.hole = hole
      /\ lane \in [Kind -> Seq(Ticket)] /\ kind \in [Ticket -> Kind \cup {NoKind}]
      /\ pending \in Seq(Ticket) /\ ControlTyped /\ RetryCursor /\ ShutdownPath
  BY HereFields DEF RuntimeInv, TicketsPlaced
<1>2. /\ phase = "retry" /\ offers # << >> /\ (Candidates = {} \/ IsFull(k))
      /\ hole' = hole \ {k} /\ offers' = Tail(offers) /\ cursor' = 1
      /\ phase' = IF Len(offers) = 1 THEN "burst" ELSE "retry"
      /\ core' = core /\ kind' = kind /\ pending' = pending /\ lane' = lane
      /\ draining' = draining /\ stopMode' = stopMode /\ running' = running
      /\ reports' = reports /\ closed' = closed
  BY DEF RetryEnds, lanes
<1>3. Placed(n, kind, running, reports, {}) /\ Becomes(n)
  <2>1. /\ Here \in [core : CoreType, pending : Seq(Ticket), lane : [Kind -> Seq(Ticket)],
                     hole : SUBSET Kind]
    BY <1>1 DEF Placed, Fields
  <2>2. n \in [core : CoreType, pending : Seq(Ticket), lane : [Kind -> Seq(Ticket)],
               hole : SUBSET Kind]
    BY <2>1
  <2>3. /\ n.core = Here.core /\ n.pending = Here.pending /\ n.lane = Here.lane
        /\ n.hole = Here.hole \ {k}
    BY <2>1
  <2> HIDE DEF n
  <2>4. Fields(n) /\ Kinds(n, kind) /\ Places(n, running, reports, {})
    BY <1>1, <2>2, <2>3 DEF Placed, Fields, Kinds, Places
  <2> QED
    BY <1>1, <1>2, <2>3, <2>4 DEF Placed, Becomes
<1>4. TicketsPlaced'
  <2> HIDE DEF n
  <2> QED
    BY <1>2, <1>3, PlacedAfter
<1>5. \A x \in Kind : Queued(offers, x) => x = k \/ (Len(offers) # 1 /\ Queued(Tail(offers), x))
  <2> SUFFICES ASSUME NEW x \in Kind, NEW j \in 1 .. Len(offers), offers[j] = x, x # k
               PROVE  Len(offers) # 1 /\ Queued(Tail(offers), x)
    BY DEF Queued
  <2>1. offers \in Seq(Kind) /\ offers # << >> /\ k = offers[1]
    BY <1>1, <1>2 DEF ControlTyped
  <2> HIDE DEF k
  <2>2. j # 1
    BY <2>1
  <2>3. Len(offers) # 1 /\ j - 1 \in 1 .. Len(Tail(offers)) /\ Tail(offers)[j - 1] = x
    BY <2>1, <2>2
  <2> QED
    BY <2>3 DEF Queued
<1> HIDE DEF n
<1>6. Watched'
  <2> SUFFICES ASSUME NEW x \in Kind \ ((hole \ {k}) \cup closed),
                      NEW i \in 1 .. Len(pending), kind[pending[i]] = x
               PROVE  \/ lane[x] # << >>
                      \/ \E t \in running \cup reports : kind[t] = x
                      \/ phase' = "retry" /\ Queued(offers', x)
    BY <1>2 DEF Watched
  <2>1. CASE x = k
    <3>1. CASE IsFull(k)
      BY <2>1, <3>1, RuntimeConstants DEF IsFull
    <3>2. CASE Candidates = {}
      <4>1. k \notin closed /\ cursor \in Nat /\ Len(pending) \in Nat
        BY <1>1, <2>1 DEF ControlTyped
      <4>2. ~ (i \in cursor .. Len(pending))
        BY <2>1, <3>2 DEF Candidates
      <4>3. i < cursor
        BY <4>1, <4>2
      <4> QED
        BY <1>1, <1>2, <2>1, <4>1, <4>3 DEF RetryCursor
    <3> QED
      BY <1>2, <3>1, <3>2
  <2>2. CASE x # k
    <3>1. \/ lane[x] # << >>
          \/ \E t \in running \cup reports : kind[t] = x
          \/ Queued(offers, x)
      BY <1>1, <2>2 DEF Watched
    <3> QED
      BY <1>2, <1>5, <2>2, <3>1
  <2> QED
    BY <2>1, <2>2
<1>7. ControlTyped'
  BY <1>1, <1>2 DEF ControlTyped
<1>8. RetryCursor'
  <2>1. cursor' >= 1 /\ \A j \in 1 .. Len(pending') : ~ (j < cursor')
    BY <1>2
  <2> QED
    BY <2>1 DEF RetryCursor
<1>9. ShutdownPath'
  BY <1>1, <1>2 DEF ShutdownPath
<1> QED
  BY <1>4, <1>6, <1>7, <1>8, <1>9 DEF RuntimeInv

\* A step that leaves core, queues and kinds alone keeps the tickets in place.
LEMMA StillPlaced ==
  ASSUME TicketsPlaced, Watched, core' = core, kind' = kind,
         pending' = pending, lane' = lane, hole' = hole, running' = running,
         reports' = reports, closed \subseteq closed',
         phase = "retry" => phase' = "retry" /\ offers' = offers
  PROVE  TicketsPlaced' /\ Watched'
<1>1. Fields(Here) /\ Placed(Here, kind, running, reports, {})
  BY HereFields DEF TicketsPlaced
<1>2. Becomes(Here)
  BY DEF Becomes, Here
<1>3. TicketsPlaced'
  BY <1>1, <1>2, PlacedAfter
<1>4. Watched'
  BY <1>1, <1>2, GentleHere, WatchedAfter
<1> QED
  BY <1>3, <1>4

\* The thread starts to shut down, or not.
LEMMA ShutdownStepRuntime ==
  ASSUME RuntimeInv,
         \/ \E mode \in {"Cancel", "Drain"} : HandleShutdown(mode)
         \/ EndBurst
  PROVE  RuntimeInv'
<1>1. /\ core' = core /\ kind' = kind /\ pending' = pending /\ lane' = lane
      /\ hole' = hole /\ running' = running /\ reports' = reports /\ closed' = closed
      /\ offers' = offers /\ phase \in {"recv", "burst"} /\ draining' \in BOOLEAN
  BY DEF HandleShutdown, EndBurst, lanes, RuntimeInv, ControlTyped, Receiving
<1>2. \/ phase' \in {"recv", "burst"} /\ cursor' = cursor /\ stopMode' = stopMode
      \/ /\ phase' = "stopping" /\ cursor' = 0
         /\ stopMode' = "Cancel" \/ (stopMode' = "Drain" /\ IsQuiescent)
  BY DEF HandleShutdown, EndBurst, BeginStop
<1>3. TicketsPlaced' /\ Watched'
  BY <1>1, StillPlaced DEF RuntimeInv
<1>4. ControlTyped'
  BY <1>1, <1>2 DEF RuntimeInv, ControlTyped
<1>5. RetryCursor'
  BY <1>2 DEF RetryCursor
<1>6. ShutdownPath'
  <2>1. CASE phase' \in {"recv", "burst"} /\ cursor' = cursor /\ stopMode' = stopMode
    BY <1>1, <2>1 DEF RuntimeInv, ShutdownPath
  <2>2. CASE /\ phase' = "stopping" /\ cursor' = 0
             /\ stopMode' = "Cancel" \/ (stopMode' = "Drain" /\ IsQuiescent)
    <3>1. \A s \in SessionId : ~ (s < 0)
      BY DEF SessionId
    <3> QED
      BY <1>1, <2>2, <3>1 DEF ShutdownPath, IsQuiescent
  <2> QED
    BY <1>2, <2>1, <2>2
<1> QED
  BY <1>3, <1>4, <1>5, <1>6 DEF RuntimeInv

\* What a lifecycle call of the shutdown does to the states of the sessions.
LEMMA EndingStates ==
  ASSUME NEW c, Good(c), NEW s \in SessionId, c.state[s] # "Absent"
  PROVE  /\ Cancel(c, s).core.state[s] \notin {"Absent", "Runnable", "Blocked"}
         /\ \A x \in SessionId : x # s => Cancel(c, s).core.state[x] = c.state[x]
         /\ Finish(c, s).core.state[s] \in Terminal
         /\ \A x \in SessionId : x # s => Finish(c, s).core.state[x] = c.state[x]
<1>1. c.state \in [SessionId -> SessionState]
  BY DEF Good, CoreType
<1>2. ASSUME NEW final \in Ending
      PROVE  RevokeTo(c, s, final).state = [c.state EXCEPT ![s] = final]
  BY RevokeGood
<1>3. CASE c.state[s] \in {"Runnable", "Blocked"}
  <2>1. /\ Cancel(c, s).core = RevokeTo(c, s, "Cancelling")
        /\ Finish(c, s).core = RevokeTo(c, s, "Finished")
    BY <1>3 DEF Cancel, Finish, Terminalize, Ret
  <2> QED
    BY <1>1, <1>2, <2>1 DEF Ending, Terminal
<1>4. CASE c.state[s] = "Cancelling"
  <2>1. Cancel(c, s).core = c /\ Finish(c, s).core = RevokeTo(c, s, "Finished")
    BY <1>4 DEF Cancel, Finish, Terminalize, Ret, NoEffects
  <2> QED
    BY <1>1, <1>2, <2>1, <1>4 DEF Ending, Terminal
<1>5. CASE c.state[s] \in Terminal
  <2>1. Cancel(c, s).core = c /\ Finish(c, s).core = c
    BY <1>5 DEF Cancel, Finish, Ret, NoEffects, Terminal
  <2> QED
    BY <2>1, <1>5 DEF Terminal
<1> QED
  BY <1>1, <1>3, <1>4, <1>5 DEF SessionState, Terminal

\* One call of the shutdown of a session.
LEMMA StopSessionPlaced ==
  ASSUME NEW r, NEW K, NEW run, NEW rep, NEW s \in SessionId,
         Placed(r, K, run, rep, {}), r.core.state[s] # "Absent",
         NEW ret \in {Cancel(r.core, s), Finish(r.core, s)},
         NEW n, n = Apply(r, ret)
  PROVE  /\ Placed(n, K, run, rep, {}) /\ Gentle(r, n) /\ n.core = ret.core
         /\ n.core.state[s] # "Absent"
         /\ \A x \in SessionId : x # s => n.core.state[x] = r.core.state[x]
         /\ Live(n.core) \subseteq Live(r.core)
         /\ ret = Finish(r.core, s) => n.core.state[s] \in Terminal
         /\ ret = Cancel(r.core, s) => n.core.state[s] \notin {"Runnable", "Blocked"}
         /\ Shrinks(r, n, ret.cancel)
<1> DEFINE D == {}
<1>1. Good(r.core) /\ Fields(r)
  BY DEF Placed, Fields, Good
<1>2. Method(r.core, ret, D)
  BY <1>1, LifecycleMethods
<1>3. /\ D \in SUBSET Ticket /\ Placed(r, K, run, rep, D) /\ D \ D = {}
      /\ \A t \in D : ~ Queued(r.pending, t) /\ \A k \in Kind : ~ Queued(r.lane[k], t)
  OBVIOUS
<1> HIDE DEF D
<1>4. Placed(n, K, run, rep, D \ D) /\ Shrinks(r, n, ret.cancel) /\ n.core = ret.core
  BY ONLY <1>2, <1>3, n = Apply(r, ret), ApplyPlaced
<1>5. Placed(n, K, run, rep, {}) /\ Gentle(r, n)
  BY <1>1, <1>3, <1>4, ShrinksGentle
<1>6. Live(n.core) \subseteq Live(r.core)
  BY <1>2, <1>4 DEF Method
<1>7. /\ Cancel(r.core, s).core.state[s] \notin {"Absent", "Runnable", "Blocked"}
      /\ \A x \in SessionId : x # s => Cancel(r.core, s).core.state[x] = r.core.state[x]
      /\ Finish(r.core, s).core.state[s] \in Terminal
      /\ \A x \in SessionId : x # s => Finish(r.core, s).core.state[x] = r.core.state[x]
  BY <1>1, EndingStates
<1> QED
  BY <1>4, <1>5, <1>6, <1>7 DEF Terminal

\* A session without tickets has none to revoke, so pending may stay as it is.
LEMMA NothingRevoked ==
  ASSUME NEW c, NEW s \in SessionId, c.owned[s] = {}
  PROVE  Finish(c, s).cancel = {}
BY DEF Finish, Terminalize, Ret, NoEffects

LEMMA PendingStays ==
  ASSUME NEW r, NEW n, NEW K, NEW run, NEW rep, Placed(r, K, run, rep, {}),
         Placed(n, K, run, rep, {}), Gentle(r, n), Shrinks(r, n, {}),
         NEW m, m = [n EXCEPT !.pending = r.pending]
  PROVE  Placed(m, K, run, rep, {}) /\ Gentle(r, m) /\ m.core = n.core
<1>1. n \in [core : CoreType, pending : Seq(Ticket), lane : [Kind -> Seq(Ticket)],
             hole : SUBSET Kind]
  BY DEF Placed, Fields
<1>2. r.pending \in Seq(Ticket) /\ NoDuplicates(r.pending)
  BY DEF Placed, Fields
<1>3. /\ m.core = n.core /\ m.lane = n.lane /\ m.hole = n.hole /\ m.pending = r.pending
      /\ m \in [core : CoreType, pending : Seq(Ticket), lane : [Kind -> Seq(Ticket)],
                hole : SUBSET Kind]
  BY <1>1, <1>2
<1>4. \A t : Queued(m.pending, t) <=> Queued(n.pending, t)
  BY <1>3 DEF Shrinks
<1>5. Fields(m)
  BY <1>2, <1>3 DEF Placed, Fields
<1>6. Kinds(m, K)
  BY <1>3 DEF Placed, Kinds
<1>7. Places(m, run, rep, {})
  BY <1>3, <1>4 DEF Placed, Places
<1>8. Gentle(r, m)
  BY <1>3, <1>4 DEF Gentle
<1> QED
  BY <1>3, <1>5, <1>6, <1>7, <1>8 DEF Placed

LEMMA StopSessionStepRuntime == RuntimeInv /\ StopSession => RuntimeInv'
<1> SUFFICES ASSUME RuntimeInv, StopSession PROVE RuntimeInv'
  OBVIOUS
<1> DEFINE s == cursor
           r == IF stopMode = "Cancel" THEN Apply(Here, Cancel(core, s)) ELSE Here
           e == Apply(r, Finish(r.core, s))
           n == [e EXCEPT !.pending = r.pending]
<1>1. /\ TicketsPlaced /\ Watched /\ Placed(Here, kind, running, reports, {})
      /\ Here.core = core /\ Here.pending = pending /\ Good(core) /\ pending \in Seq(Ticket)
      /\ ControlTyped /\ ShutdownPath
  BY HereFields DEF RuntimeInv, TicketsPlaced
<1>2. /\ phase = "stopping" /\ s < core.nextSession /\ cursor' = s + 1
      /\ kind' = kind /\ phase' = phase /\ offers' = offers /\ draining' = draining
      /\ stopMode' = stopMode /\ running' = running /\ reports' = reports
      /\ closed' = closed
  BY DEF StopSession, lanes
<1>3. Becomes(n)
  BY DEF StopSession
<1>4. s \in SessionId /\ core.state[s] # "Absent" /\ s \in Nat
  <2>1. s \in Nat /\ core.nextSession \in 0 .. MaxSessions
    BY <1>1 DEF ControlTyped, Good, CoreType
  <2>2. s \in SessionId /\ ~ (s >= core.nextSession)
    BY <1>2, <2>1, CoreConstants DEF SessionId
  <2> QED
    BY <1>1, <2>1, <2>2 DEF Good, CoreInv, IdsFresh
<1>5. /\ Placed(r, kind, running, reports, {}) /\ Gentle(Here, r)
      /\ r.core.state[s] # "Absent"
      /\ \A x \in SessionId : x # s => r.core.state[x] = core.state[x]
      /\ Live(r.core) \subseteq Live(core)
      /\ r.core.owned[s] = {}
  <2>1. CASE stopMode = "Cancel"
    <3>1. r = Apply(Here, Cancel(Here.core, s)) /\ Here.core.state[s] # "Absent"
      BY <1>1, <1>4, <2>1
    <3> HIDE DEF r, s
    <3>2. /\ Placed(r, kind, running, reports, {}) /\ Gentle(Here, r)
          /\ r.core.state[s] # "Absent"
          /\ \A x \in SessionId : x # s => r.core.state[x] = Here.core.state[x]
          /\ Live(r.core) \subseteq Live(Here.core)
          /\ r.core.state[s] \notin {"Runnable", "Blocked"}
      <4>1. Placed(Here, kind, running, reports, {}) /\ s \in SessionId
        BY <1>1, <1>4
      <4> QED
        BY ONLY <3>1, <4>1, StopSessionPlaced, SMTT(40)
    <3>3. r.core.owned[s] = {}
      BY <1>4, <3>2 DEF Placed, Fields, CoreInv, TicketsConsistent
    <3> QED
      BY <1>1, <3>2, <3>3
  <2>2. CASE stopMode # "Cancel"
    <3>1. Live(core) = {}
      BY <1>1, <1>2, <2>2 DEF ShutdownPath, ControlTyped
    <3>2. core.owned[s] = {}
      <4> SUFFICES ASSUME NEW t \in core.owned[s] PROVE FALSE
        OBVIOUS
      <4>1. core.owned \in [SessionId -> SUBSET Ticket] /\ TicketsConsistent(core)
        BY <1>1 DEF Good, CoreType, CoreInv
      <4>2. t \in Ticket /\ core.inflight[t] = s
        BY <1>4, <4>1 DEF TicketsConsistent
      <4>3. s # NoOwner
        BY <1>4 DEF NoOwner
      <4> QED
        BY <3>1, <4>2, <4>3 DEF Live
    <3>3. r = Here
      BY <2>2
    <3> QED
      BY <1>1, <1>4, <3>2, <3>3, GentleHere
  <2> QED
    BY <2>1, <2>2
<1>6. e = Apply(r, Finish(r.core, s)) /\ n = [e EXCEPT !.pending = r.pending]
  OBVIOUS
<1> HIDE DEF n, e, r, s
<1>17. /\ Placed(e, kind, running, reports, {}) /\ Gentle(r, e)
       /\ \A x \in SessionId : x # s => e.core.state[x] = r.core.state[x]
       /\ Live(e.core) \subseteq Live(r.core)
       /\ e.core.state[s] \in Terminal
       /\ Shrinks(r, e, Finish(r.core, s).cancel)
  <2>1. /\ s \in SessionId /\ Placed(r, kind, running, reports, {})
        /\ r.core.state[s] # "Absent"
    BY <1>4, <1>5
  <2> DEFINE ret == Finish(r.core, s)
  <2>2. /\ e = Apply(r, ret) /\ ret = Finish(r.core, s)
        /\ ret \in {Cancel(r.core, s), Finish(r.core, s)}
    BY <1>6
  <2> HIDE DEF ret
  <2>3. /\ Placed(e, kind, running, reports, {}) /\ Gentle(r, e)
        /\ \A x \in SessionId : x # s => e.core.state[x] = r.core.state[x]
        /\ Live(e.core) \subseteq Live(r.core)
        /\ ret = Finish(r.core, s) => e.core.state[s] \in Terminal
        /\ Shrinks(r, e, ret.cancel)
    BY ONLY <2>1, <2>2, StopSessionPlaced, SMTT(40)
  <2> QED
    BY ONLY <2>2, <2>3, Zenon
<1>18. Shrinks(r, e, {})
  <2>1. Finish(r.core, s).cancel = {}
    BY <1>4, <1>5, NothingRevoked
  <2> QED
    BY <1>17, <2>1
<1>19. Placed(n, kind, running, reports, {}) /\ Gentle(r, n) /\ n.core = e.core
  <2>1. Placed(r, kind, running, reports, {}) /\ n = [e EXCEPT !.pending = r.pending]
    BY <1>5, <1>6
  <2>2. Placed(e, kind, running, reports, {}) /\ Gentle(r, e)
    BY <1>17
  <2> QED
    BY ONLY <1>18, <2>1, <2>2, PendingStays
<1>7. /\ Placed(n, kind, running, reports, {}) /\ Gentle(r, n)
      /\ \A x \in SessionId : x # s => n.core.state[x] = r.core.state[x]
      /\ Live(n.core) \subseteq Live(r.core)
      /\ n.core.state[s] \in Terminal
  BY <1>17, <1>19, Zenon
<1>8. Gentle(Here, n) /\ Fields(n)
  BY <1>5, <1>7, GentleTwice DEF Placed
<1>9. TicketsPlaced'
  BY <1>2, <1>3, <1>7, PlacedAfter
<1>10. Watched'
  BY <1>1, <1>2, <1>3, <1>8, WatchedAfter
<1>11. ControlTyped'
  BY <1>1, <1>2, <1>4 DEF ControlTyped
<1>12. RetryCursor'
  BY <1>2 DEF RetryCursor
<1>13. core' = n.core /\ pending' = n.pending
  BY <1>3 DEF Becomes
<1>14. stopMode' = "Drain" => Live(core') = {} /\ pending' = << >>
  <2> SUFFICES ASSUME stopMode = "Drain" PROVE Live(core') = {} /\ pending' = << >>
    BY <1>2
  <2>1. Live(core) = {} /\ pending = << >>
    BY <1>1 DEF ShutdownPath
  <2>2. Live(core') = {}
    BY <1>5, <1>7, <1>13, <2>1
  <2>3. \A x \in Ticket : ~ Queued(n.pending, x)
    <3>1. \A x \in Ticket : ~ Queued(pending, x)
      BY <2>1 DEF Queued
    <3> QED
      BY <1>1, <1>8, <3>1 DEF Gentle
  <2>4. n.pending \in Seq(Ticket)
    BY <1>8 DEF Fields
  <2>5. n.pending = << >>
    <3> SUFFICES ASSUME n.pending # << >> PROVE FALSE
      OBVIOUS
    <3>1. n.pending[1] \in Ticket /\ 1 \in 1 .. Len(n.pending)
      BY <2>4
    <3> QED
      BY <2>3, <3>1 DEF Queued
  <2> QED
    BY <1>13, <2>2, <2>5
<1>15. \A x \in SessionId : x < cursor' => core'.state[x] \in Terminal
  <2> SUFFICES ASSUME NEW x \in SessionId, x < s + 1 PROVE n.core.state[x] \in Terminal
    BY <1>2, <1>13
  <2>1. CASE x = s
    BY <1>7, <2>1
  <2>2. CASE x # s
    <3>1. x < cursor
      BY <1>4, <2>2 DEF SessionId, s
    <3> QED
      BY <1>1, <1>2, <1>5, <1>7, <2>2, <3>1 DEF ShutdownPath
  <2> QED
    BY <2>1, <2>2
<1>16. ShutdownPath'
  BY <1>1, <1>2, <1>14, <1>15 DEF ShutdownPath
<1> QED
  BY <1>9, <1>10, <1>11, <1>12, <1>16 DEF RuntimeInv

\* Nothing waits once no ticket is live.
LEMMA NothingWaits ==
  ASSUME TicketsPlaced, Live(core) = {}
  PROVE  pending = << >> /\ \A k \in Kind : lane[k] = << >>
<1>1. /\ pending \in Seq(Ticket) /\ lane \in [Kind -> Seq(Ticket)]
      /\ Places(Here, running, reports, {})
      /\ Here.core = core /\ Here.pending = pending /\ Here.lane = lane
  BY HereFields
<1>2. \A q \in Seq(Ticket) : q # << >> => \E t \in Ticket : Queued(q, t)
  <2> SUFFICES ASSUME NEW q \in Seq(Ticket), q # << >> PROVE \E t \in Ticket : Queued(q, t)
    OBVIOUS
  <2>1. q[1] \in Ticket /\ 1 \in 1 .. Len(q)
    OBVIOUS
  <2> QED
    BY <2>1 DEF Queued
<1>3. \A t \in Ticket : ~ Queued(pending, t) /\ \A k \in Kind : ~ Queued(lane[k], t)
  BY <1>1 DEF Places
<1> QED
  BY <1>1, <1>2, <1>3

LEMMA ClearStepRuntime == RuntimeInv /\ ClearPending => RuntimeInv'
<1> SUFFICES ASSUME RuntimeInv, ClearPending PROVE RuntimeInv'
  OBVIOUS
<1>1. /\ TicketsPlaced /\ Watched /\ Good(core) /\ ControlTyped /\ ShutdownPath
  BY HereFields DEF RuntimeInv
<1>2. /\ phase = "stopping" /\ cursor >= core.nextSession /\ phase' = "joining"
      /\ core' = core /\ kind' = kind /\ lane' = lane /\ hole' = hole
      /\ draining' = draining /\ offers' = offers /\ cursor' = cursor
      /\ stopMode' = stopMode /\ running' = running /\ reports' = reports
      /\ closed' = closed /\ pending' = << >>
  BY DEF ClearPending, control, lanes
<1>3. \A s \in SessionId : core.state[s] \in Terminal \cup {"Absent"}
  <2> SUFFICES ASSUME NEW s \in SessionId PROVE core.state[s] \in Terminal \cup {"Absent"}
    OBVIOUS
  <2>1. CASE s < cursor
    BY <1>1, <1>2, <2>1 DEF ShutdownPath
  <2>2. CASE ~ (s < cursor)
    <3>1. core.nextSession \in Nat /\ cursor \in Nat /\ s \in Int
      BY <1>1, CoreConstants DEF Good, CoreType, ControlTyped, SessionId
    <3>2. s >= core.nextSession
      BY <1>2, <2>2, <3>1
    <3> QED
      BY <1>1, <3>2 DEF Good, CoreInv, IdsFresh
  <2> QED
    BY <2>1, <2>2
<1>4. pending = << >>
  <2>1. Live(core) = {}
    BY <1>1, <1>3, EndedOwnsNothing
  <2> QED
    BY <1>1, <2>1, NothingWaits
<1>5. TicketsPlaced' /\ Watched'
  BY <1>1, <1>2, <1>4, StillPlaced
<1>6. ControlTyped' /\ RetryCursor'
  BY <1>1, <1>2 DEF ControlTyped, RetryCursor
<1>7. ShutdownPath'
  BY <1>1, <1>2, <1>3 DEF ShutdownPath
<1> QED
  BY <1>5, <1>6, <1>7 DEF RuntimeInv

LEMMA JoinStepRuntime == RuntimeInv /\ Joined => RuntimeInv'
<1> SUFFICES ASSUME RuntimeInv, Joined PROVE RuntimeInv'
  OBVIOUS
<1>1. TicketsPlaced /\ Watched /\ ControlTyped /\ ShutdownPath
  BY DEF RuntimeInv
<1>2. /\ phase = "joining" /\ running = {} /\ phase' = "stopped"
      /\ core' = core /\ kind' = kind /\ lane' = lane /\ hole' = hole
      /\ draining' = draining /\ offers' = offers /\ cursor' = cursor
      /\ stopMode' = stopMode /\ running' = running /\ reports' = reports
      /\ closed' = closed /\ pending' = pending
  BY DEF Joined, control, lanes
<1>3. TicketsPlaced' /\ Watched'
  BY <1>1, <1>2, StillPlaced
<1>4. ControlTyped' /\ RetryCursor'
  BY <1>1, <1>2 DEF ControlTyped, RetryCursor
<1>5. ShutdownPath'
  BY <1>1, <1>2 DEF ShutdownPath
<1> QED
  BY <1>3, <1>4, <1>5 DEF RuntimeInv

LEMMA CloseStepRuntime ==
  ASSUME RuntimeInv, NEW k \in Kind, LaneCloses(k)
  PROVE  RuntimeInv'
<1>1. TicketsPlaced /\ Watched /\ ControlTyped /\ ShutdownPath /\ RetryCursor
  BY DEF RuntimeInv
<1>2. /\ k \in MayClose /\ closed' = closed \cup {k}
      /\ core' = core /\ kind' = kind /\ lane' = lane /\ hole' = hole /\ phase' = phase
      /\ draining' = draining /\ offers' = offers /\ cursor' = cursor
      /\ stopMode' = stopMode /\ running' = running /\ reports' = reports
      /\ pending' = pending
  BY DEF LaneCloses, control
<1>3. TicketsPlaced' /\ Watched'
  BY <1>1, <1>2, StillPlaced
<1>4. ControlTyped' /\ RetryCursor'
  BY <1>1, <1>2 DEF ControlTyped, RetryCursor
<1>5. ShutdownPath'
  BY <1>1, <1>2 DEF ShutdownPath
<1> QED
  BY <1>3, <1>4, <1>5 DEF RuntimeInv

\* A worker reports what it ran.
LEMMA FinishStepRuntime ==
  ASSUME RuntimeInv, NEW t \in Ticket, LaneFinish(t)
  PROVE  RuntimeInv'
<1>1. /\ TicketsPlaced /\ Watched /\ ControlTyped /\ ShutdownPath /\ RetryCursor
      /\ Fields(Here) /\ Kinds(Here, kind) /\ Places(Here, running, reports, {})
      /\ running \in SUBSET Ticket
  BY HereFields DEF RuntimeInv
<1>2. /\ t \in running /\ running' = running \ {t} /\ reports' = reports \cup {t}
      /\ core' = core /\ kind' = kind /\ lane' = lane /\ hole' = hole /\ phase' = phase
      /\ draining' = draining /\ offers' = offers /\ cursor' = cursor
      /\ stopMode' = stopMode /\ closed' = closed /\ pending' = pending
  BY DEF LaneFinish, control
<1>3. Becomes(Here)
  BY <1>2 DEF Becomes, Here
<1>4. Places(Here, running', reports', {})
  <2>1. running' \cup reports' = running \cup reports /\ running' \cap reports' = {}
    BY <1>1, <1>2 DEF Places
  <2>2. running' \in SUBSET Ticket /\ reports' \in SUBSET Ticket
    BY <1>1, <1>2 DEF Places
  <2> QED
    BY <1>1, <2>1, <2>2 DEF Places
<1>5. TicketsPlaced'
  BY <1>1, <1>2, <1>3, <1>4, PlacedAfter DEF Placed
<1>6. Watched'
  BY <1>1, <1>2, <1>3, GentleHere, WatchedAfter
<1>7. ControlTyped' /\ RetryCursor'
  BY <1>1, <1>2 DEF ControlTyped, RetryCursor
<1>8. ShutdownPath'
  BY <1>1, <1>2 DEF ShutdownPath
<1> QED
  BY <1>5, <1>6, <1>7, <1>8 DEF RuntimeInv

\* A worker takes the head of its lane.
Starts(r, k, t, n) ==
  r.lane[k] # << >> /\ t = Head(r.lane[k]) /\ n = [r EXCEPT !.lane[k] = Tail(@)]

OnlyLane(r, k, n) ==
  /\ n.core = r.core /\ n.hole = r.hole /\ n.pending = r.pending
  /\ \A j \in Kind : j # k => n.lane[j] = r.lane[j]

LEMMA StartPlaced ==
  ASSUME NEW r, NEW K, NEW run, NEW rep, NEW k \in Kind,
         Placed(r, K, run, rep, {}), NEW t, NEW n, Starts(r, k, t, n)
  PROVE  /\ Placed(n, K, run \cup {t}, rep, {}) /\ K[t] = k
         /\ OnlyLane(r, k, n) /\ t \in Live(r.core)
<1> DEFINE q == r.lane[k]
           d == Tail(q)
<1>1. /\ r \in [core : CoreType, pending : Seq(Ticket), lane : [Kind -> Seq(Ticket)],
                hole : SUBSET Kind]
      /\ CoreInv(r.core) /\ NoDuplicates(r.pending)
      /\ \A j \in Kind : NoDuplicates(r.lane[j]) /\ Len(r.lane[j]) <= LaneCapacity
  BY DEF Placed, Fields
<1>2. Kinds(r, K) /\ Places(r, run, rep, {})
  BY DEF Placed
<1>3. q \in Seq(Ticket) /\ NoDuplicates(q) /\ Len(q) <= LaneCapacity /\ q # << >>
  BY <1>1 DEF Starts
<1> HIDE DEF q
<1>4. /\ t = q[1] /\ Len(q) \in Nat \ {0} /\ d \in Seq(Ticket) /\ Len(d) = Len(q) - 1
      /\ \A i \in 1 .. Len(d) : d[i] = q[i + 1] /\ i + 1 \in 1 .. Len(q)
      /\ t \in Ticket
  <2>1. t = Head(q)
    BY DEF Starts, q
  <2> QED
    BY <1>3, <2>1
<1>5. /\ NoDuplicates(d) /\ Len(d) <= LaneCapacity
      /\ \A x \in Ticket : Queued(q, x) <=> Queued(d, x) \/ x = t
      /\ ~ Queued(d, t)
  <2> HIDE DEF d
  <2>1. NoDuplicates(d)
    BY <1>3, <1>4 DEF NoDuplicates
  <2>2. ~ Queued(d, t)
    BY <1>3, <1>4 DEF NoDuplicates, Queued
  <2>3. ASSUME NEW x \in Ticket, Queued(q, x), x # t PROVE Queued(d, x)
    <3>1. PICK i \in 1 .. Len(q) : q[i] = x
      BY <2>3 DEF Queued
    <3>2. i - 1 \in 1 .. Len(d) /\ (i - 1) + 1 = i
      BY <1>4, <2>3, <3>1
    <3>3. d[i - 1] = x
      BY <1>4, <3>1, <3>2
    <3> QED
      BY <3>2, <3>3 DEF Queued
  <2>4. ASSUME NEW x \in Ticket, Queued(d, x) \/ x = t PROVE Queued(q, x)
    BY <1>4, <2>4 DEF Queued
  <2>5. Len(d) <= LaneCapacity
    BY <1>3, <1>4, RuntimeConstants
  <2> QED
    BY <2>1, <2>2, <2>3, <2>4, <2>5
<1>6. n.lane = [r.lane EXCEPT ![k] = d]
  BY <1>1 DEF Starts, q
<1>7. n.core = r.core /\ n.pending = r.pending /\ n.hole = r.hole
  BY <1>1 DEF Starts
<1>8. n.lane[k] = d /\ \A j \in Kind : j # k => n.lane[j] = r.lane[j]
  BY <1>1, <1>6
<1>9. n \in [core : CoreType, pending : Seq(Ticket), lane : [Kind -> Seq(Ticket)],
             hole : SUBSET Kind]
  BY <1>1, <1>4 DEF Starts, q
<1> HIDE DEF d
<1>10. Fields(n)
  BY <1>1, <1>5, <1>7, <1>8, <1>9 DEF Fields
<1>11. \A j \in Kind, x \in Ticket : Queued(n.lane[j], x) <=>
         Queued(r.lane[j], x) /\ ~ (j = k /\ x = t)
  BY <1>5, <1>8 DEF q
<1>12. Kinds(n, K) /\ K[t] = k
  <2>1. Queued(r.lane[k], t)
    BY <1>4, <1>5 DEF q
  <2> QED
    BY <1>2, <1>4, <1>7, <1>11, <2>1 DEF Kinds
<1>13. /\ t \in Live(r.core) /\ t \notin run \cup rep /\ ~ Queued(r.pending, t)
       /\ \A j \in Kind : ~ Queued(n.lane[j], t)
  <2>1. Queued(r.lane[k], t)
    BY <1>4, <1>5 DEF q
  <2>2. t \in Live(r.core) /\ t \notin run \cup rep
    BY <1>2, <1>4, <2>1 DEF Places
  <2>3. ~ Queued(r.pending, t)
    BY <1>2, <1>4, <2>1 DEF Places
  <2>4. ASSUME NEW j \in Kind, Queued(n.lane[j], t) PROVE FALSE
    <3>1. Queued(r.lane[j], t) /\ j # k
      BY <1>4, <1>11, <2>4
    <3> QED
      BY <1>2, <1>4, <2>1, <3>1 DEF Kinds
  <2> QED
    BY <2>2, <2>3, <2>4
<1>14. t < r.core.nextTicket
  <2>1. r.core.nextTicket \in Nat
    BY <1>1, CoreConstants DEF CoreType
  <2> QED
    BY <1>1, <1>13, <2>1 DEF CoreInv, IdsFresh, Live, Ticket
<1>15. Places(n, run \cup {t}, rep, {})
  <2>1. /\ run \cup {t} \in SUBSET Ticket /\ rep \in SUBSET Ticket
        /\ (run \cup {t}) \cap rep = {}
        /\ {} \cap ((run \cup {t}) \cup rep) = {}
        /\ \A x \in (run \cup {t}) \cup rep \cup {} : x < n.core.nextTicket
    BY <1>2, <1>4, <1>7, <1>13, <1>14 DEF Places
  <2>2. ASSUME NEW x \in Ticket, Queued(n.pending, x)
        PROVE  /\ x \in Live(n.core) /\ x \notin (run \cup {t}) \cup rep \cup {}
               /\ \A j \in Kind : ~ Queued(n.lane[j], x)
    BY <1>2, <1>7, <1>11, <1>13, <2>2 DEF Places
  <2>3. ASSUME NEW j \in Kind, NEW x \in Ticket, Queued(n.lane[j], x)
        PROVE  x \in Live(n.core) /\ x \notin (run \cup {t}) \cup rep \cup {}
    BY <1>2, <1>7, <1>11, <1>13, <2>3 DEF Places
  <2>4. ASSUME NEW x \in Live(n.core)
        PROVE  \/ Queued(n.pending, x) \/ \E j \in Kind : Queued(n.lane[j], x)
               \/ x \in (run \cup {t}) \cup rep \cup {}
    <3>1. x \in Ticket /\ x \in Live(r.core)
      BY <1>7, <2>4 DEF Live
    <3> QED
      BY <1>2, <1>7, <1>11, <3>1 DEF Places
  <2> QED
    BY <2>1, <2>2, <2>3, <2>4 DEF Places
<1> QED
  BY <1>7, <1>8, <1>10, <1>12, <1>13, <1>15 DEF Placed, OnlyLane

LEMMA StartStepRuntime ==
  ASSUME RuntimeInv, NEW k \in Kind, LaneStart(k)
  PROVE  RuntimeInv'
<1> DEFINE t == Head(lane[k])
           n == [Here EXCEPT !.lane[k] = Tail(@)]
<1>1. /\ TicketsPlaced /\ Watched /\ ControlTyped /\ ShutdownPath /\ RetryCursor
      /\ Here.core = core /\ Here.pending = pending /\ Here.lane = lane /\ Here.hole = hole
      /\ Placed(Here, kind, running, reports, {}) /\ lane \in [Kind -> Seq(Ticket)]
      /\ Good(core)
  BY HereFields DEF RuntimeInv, TicketsPlaced
<1>2. /\ lane[k] # << >> /\ running' = running \cup {t}
      /\ lane' = [lane EXCEPT ![k] = Tail(@)]
      /\ core' = core /\ kind' = kind /\ hole' = hole /\ phase' = phase
      /\ draining' = draining /\ offers' = offers /\ cursor' = cursor
      /\ stopMode' = stopMode /\ closed' = closed /\ pending' = pending
      /\ reports' = reports
  BY DEF LaneStart, control
<1>3. Becomes(n)
  BY <1>2 DEF Becomes, Here
<1>4. /\ Placed(n, kind, running \cup {t}, reports, {}) /\ kind[t] = k
      /\ OnlyLane(Here, k, n) /\ t \in Live(Here.core)
  <2>1. Starts(Here, k, t, n)
    BY <1>1, <1>2 DEF Starts
  <2>2. Placed(Here, kind, running, reports, {})
    BY <1>1
  <2> HIDE DEF n, t
  <2> QED
    BY ONLY <2>1, <2>2, k \in Kind, StartPlaced
<1> HIDE DEF n, t
<1>5. TicketsPlaced'
  BY <1>2, <1>3, <1>4, PlacedAfter
<1>6. Watched'
  <2>1. /\ \A x \in Ticket : Queued(n.pending, x) =>
             Queued(pending, x) \/ n.lane[kind'[x]] # << >>
        /\ hole \subseteq n.hole
    BY <1>1, <1>4 DEF OnlyLane
  <2>2. \A j \in Kind : j \notin n.hole /\ lane[j] # << >> =>
          n.lane[j] # << >> \/ \E u \in running' \cup reports' : kind'[u] = j
    BY <1>1, <1>2, <1>4 DEF OnlyLane
  <2>3. Fields(n)
    BY <1>4 DEF Placed
  <2> QED
    BY <1>1, <1>2, <1>3, <2>1, <2>2, <2>3, WatchedStep
<1>7. ControlTyped' /\ RetryCursor'
  BY <1>1, <1>2 DEF ControlTyped, RetryCursor
<1>8. ShutdownPath'
  <2>1. phase # "stopped"
    <3> SUFFICES ASSUME phase = "stopped" PROVE FALSE
      OBVIOUS
    <3>1. \A s \in SessionId : core.state[s] \in Terminal \cup {"Absent"}
      BY <1>1 DEF ShutdownPath
    <3>2. Live(core) = {}
      BY <1>1, <3>1, EndedOwnsNothing
    <3> QED
      BY <1>1, <1>4, <3>2
  <2> QED
    BY <1>1, <1>2, <2>1 DEF ShutdownPath
<1> QED
  BY <1>5, <1>6, <1>7, <1>8 DEF RuntimeInv

LEMMA RuntimeInvStep == RuntimeInv /\ [RuntimeNext]_runtimeVars => RuntimeInv'
<1> SUFFICES ASSUME RuntimeInv, [RuntimeNext]_runtimeVars PROVE RuntimeInv'
  OBVIOUS
<1>1. CASE EndBurst \/ \E mode \in {"Cancel", "Drain"} : HandleShutdown(mode)
  BY <1>1, ShutdownStepRuntime
<1>2. CASE RetryOne
  BY <1>2, RetryStepRuntime
<1>3. CASE RetryEnds
  BY <1>3, RetryEndsStepRuntime
<1>4. CASE StopSession
  BY <1>4, StopSessionStepRuntime
<1>5. CASE ClearPending
  BY <1>5, ClearStepRuntime
<1>6. CASE Joined
  BY <1>6, JoinStepRuntime
<1>7. CASE HandleCreate
  BY <1>7, CreateStepRuntime
<1>8. CASE \E s \in SessionId : HandleLifecycle(s) \/ \E k \in Kind : HandleSubmit(s, k)
  BY <1>8, LifecycleStepRuntime, SubmitStepRuntime
<1>9. CASE \E t \in Ticket : LaneFinish(t) \/ \E ok \in BOOLEAN : HandleComplete(t, ok)
  BY <1>9, FinishStepRuntime, CompleteStepRuntime
<1>10. CASE \E k \in Kind : ExecutorReady(k) \/ LaneStart(k) \/ LaneCloses(k)
  BY <1>10, ReadyStepRuntime, StartStepRuntime, CloseStepRuntime
<1>11. CASE UNCHANGED runtimeVars
  <2>1. /\ core' = core /\ kind' = kind /\ lane' = lane /\ hole' = hole /\ phase' = phase
        /\ draining' = draining /\ offers' = offers /\ cursor' = cursor
        /\ stopMode' = stopMode /\ closed' = closed /\ pending' = pending
        /\ reports' = reports /\ running' = running
    BY <1>11 DEF runtimeVars
  <2>2. TicketsPlaced' /\ Watched'
    BY <2>1, StillPlaced DEF RuntimeInv
  <2>3. ControlTyped' /\ RetryCursor'
    BY <2>1 DEF RuntimeInv, ControlTyped, RetryCursor
  <2>4. ShutdownPath'
    BY <2>1 DEF RuntimeInv, ShutdownPath
  <2> QED
    BY <2>2, <2>3, <2>4 DEF RuntimeInv
<1> QED
  BY <1>1, <1>2, <1>3, <1>4, <1>5, <1>6, <1>7, <1>8, <1>9, <1>10, <1>11 DEF RuntimeNext

LEMMA PlacedHeld ==
  ASSUME TicketsPlaced
  PROVE  LiveTicketsHeld
<1>1. /\ Here.core = core /\ Here.pending = pending /\ Here.lane = lane
      /\ Places(Here, running, reports, {})
  BY HereFields
<1> SUFFICES ASSUME NEW t \in Ticket
             PROVE  /\ t \in Live(core) =>
                         Cardinality({p \in {"pending", "lane", "running", "reports"} :
                           \/ p = "pending" /\ Queued(pending, t)
                           \/ p = "lane" /\ InLane(t)
                           \/ p = "running" /\ t \in running
                           \/ p = "reports" /\ t \in reports}) = 1
                    /\ Queued(pending, t) \/ InLane(t) => t \in Live(core)
  BY DEF LiveTicketsHeld
<1> DEFINE P == {p \in {"pending", "lane", "running", "reports"} :
                   \/ p = "pending" /\ Queued(pending, t)
                   \/ p = "lane" /\ InLane(t)
                   \/ p = "running" /\ t \in running
                   \/ p = "reports" /\ t \in reports}
<1>2. /\ Queued(pending, t) => t \in Live(core) /\ t \notin running \cup reports /\ ~ InLane(t)
      /\ InLane(t) => t \in Live(core) /\ t \notin running \cup reports
      /\ running \cap reports = {}
      /\ t \in Live(core) => Queued(pending, t) \/ InLane(t) \/ t \in running \cup reports
  BY <1>1 DEF Places, InLane
<1>3. ASSUME t \in Live(core) PROVE Cardinality(P) = 1
  <2>1. CASE Queued(pending, t)
    <3>1. P = {"pending"}
      BY <1>2, <2>1
    <3> QED
      BY <3>1, FS_Singleton
  <2>2. CASE InLane(t)
    <3>1. P = {"lane"}
      BY <1>2, <2>2
    <3> QED
      BY <3>1, FS_Singleton
  <2>3. CASE t \in running
    <3>1. P = {"running"}
      BY <1>2, <2>3
    <3> QED
      BY <3>1, FS_Singleton
  <2>4. CASE t \in reports
    <3>1. P = {"reports"}
      BY <1>2, <2>4
    <3> QED
      BY <3>1, FS_Singleton
  <2> QED
    BY <1>2, <1>3, <2>1, <2>2, <2>3, <2>4
<1> QED
  BY <1>2, <1>3

\* Only reports that have not arrived are parked.
LEMMA ParkedStep ==
  ASSUME parked \subseteq reports, [RuntimeNext]_runtimeVars
  PROVE  parked' \subseteq reports'
<1>1. ASSUME NEW t \in Ticket, LaneFinish(t) PROVE parked' \subseteq reports'
  BY <1>1 DEF LaneFinish
<1>2. ASSUME NEW t \in Ticket, NEW ok \in BOOLEAN, HandleComplete(t, ok)
      PROVE  parked' \subseteq reports'
  BY <1>2 DEF HandleComplete
<1>3. ASSUME \/ EndBurst \/ RetryOne \/ RetryEnds \/ StopSession \/ ClearPending \/ Joined
             \/ HandleCreate
             \/ \E s \in SessionId : HandleLifecycle(s) \/ \E k \in Kind : HandleSubmit(s, k)
             \/ \E k \in Kind : ExecutorReady(k) \/ LaneStart(k) \/ LaneCloses(k)
             \/ \E mode \in {"Cancel", "Drain"} : HandleShutdown(mode)
             \/ UNCHANGED runtimeVars
      PROVE  parked' = parked /\ reports' = reports
  BY <1>3, Zenon DEF EndBurst, RetryOne, RetryEnds, StopSession, ClearPending, Joined,
    HandleCreate, HandleLifecycle, HandleSubmit, ExecutorReady, LaneStart, LaneCloses,
    HandleShutdown, lanes, runtimeVars
<1> QED
  BY <1>1, <1>2, <1>3 DEF RuntimeNext

LEMMA InvTyped == RuntimeInv /\ parked \subseteq reports => RuntimeTypeOK
<1> SUFFICES ASSUME RuntimeInv, parked \subseteq reports PROVE RuntimeTypeOK
  OBVIOUS
<1>1. /\ Good(core) /\ pending \in Seq(Ticket) /\ lane \in [Kind -> Seq(Ticket)]
      /\ hole \in SUBSET Kind /\ kind \in [Ticket -> Kind \cup {NoKind}]
      /\ running \in SUBSET Ticket /\ reports \in SUBSET Ticket
      /\ Fields(Here) /\ Here.lane = lane
  BY HereFields DEF RuntimeInv
<1>2. \A k \in Kind : Len(lane[k]) <= LaneCapacity
  BY <1>1 DEF Fields
<1>3. ControlTyped
  BY DEF RuntimeInv
<1> QED
  BY <1>1, <1>2, <1>3 DEF RuntimeTypeOK, ControlTyped, Good

LEMMA InvShutdown == RuntimeInv => ShutdownClean
<1> SUFFICES ASSUME RuntimeInv PROVE ShutdownClean
  OBVIOUS
<1>1. TicketsPlaced /\ Good(core) /\ ShutdownPath
  BY HereFields DEF RuntimeInv
<1>2. ASSUME phase = "stopped"
      PROVE  Live(core) = {} /\ \A k \in Kind : lane[k] = << >>
  <2>1. Live(core) = {}
    BY <1>1, <1>2, EndedOwnsNothing DEF ShutdownPath
  <2> QED
    BY <1>1, <2>1, NothingWaits
<1> QED
  BY <1>1, <1>2 DEF ShutdownClean, ShutdownPath

-----------------------------------------------------------------------------
\* The inductive invariant of RuntimeLoop with its lanes: where every ticket
\* is, who will make the runtime retry what waits, how far retry_pending and a
\* shutdown have come.
THEOREM RuntimeInductive == RuntimeSpec => []RuntimeInv
<1>1. RuntimeInit => RuntimeInv
  BY InitRuntimeInv
<1>2. RuntimeInv /\ [RuntimeNext]_runtimeVars => RuntimeInv'
  BY RuntimeInvStep
<1> QED
  BY <1>1, <1>2, PTL DEF RuntimeSpec

\* RuntimeLoop's fields keep their types, and no lane's queue exceeds its
\* capacity, whatever the frontends send and the executors do.
THEOREM RuntimeTypes == RuntimeSpec => []RuntimeTypeOK
<1> DEFINE P == parked \subseteq reports
<1>1. RuntimeInit => P
  BY DEF RuntimeInit
<1>2. P /\ [RuntimeNext]_runtimeVars => P'
  BY ParkedStep
<1>3. RuntimeSpec => []P
  BY <1>1, <1>2, PTL DEF RuntimeSpec
<1>4. RuntimeInv /\ P => RuntimeTypeOK
  BY InvTyped
<1> QED
  BY <1>3, <1>4, RuntimeInductive, PTL

\* RuntimeLoop with any number of lanes, sessions and tickets: a live ticket is
\* in exactly one of pending, a lane, a worker's hands and the completions on
\* their way, and remove_cancelled leaves nothing dead to be dispatched.
THEOREM TicketsHeld == RuntimeSpec => []LiveTicketsHeld
<1>1. RuntimeInv => LiveTicketsHeld
  BY PlacedHeld DEF RuntimeInv
<1> QED
  BY <1>1, RuntimeInductive, PTL

\* retry_pending strands nothing: what a full lane handed back always has a job
\* of that lane, a report in the channel or a retry under way in front of it,
\* unless try_cancel took the queued job, the lane closed, or its workers went
\* idle with a report parked.
THEOREM Backpressure == RuntimeSpec => []BackpressureWatched
<1>1. RuntimeInv => BackpressureWatched
  <2> SUFFICES ASSUME Watched, NEW k \in Kind \ (hole \cup closed \cup Stranded),
                      \E i \in 1 .. Len(pending) : kind[pending[i]] = k, ~ Busy(k)
               PROVE  \/ \E t \in reports \ parked : kind[t] = k
                      \/ phase = "retry" /\ Queued(offers, k)
    BY DEF RuntimeInv, BackpressureWatched
  <2>1. \A t \in parked : kind[t] # k
    BY DEF Stranded
  <2> QED
    BY <2>1 DEF Watched, Busy
<1> QED
  BY <1>1, RuntimeInductive, PTL

\* RuntimeLoop::shutdown: a drain revokes no live ticket, and when the thread
\* has stopped nothing is live, waits or runs.
THEOREM ShutdownIsClean == RuntimeSpec => []ShutdownClean
BY RuntimeInductive, InvShutdown, PTL
=============================================================================
