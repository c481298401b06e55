-------------------------- MODULE CpuExecutorProofs --------------------------
(***************************************************************************)
(* The CPU executor, for any number of workers, jobs and channel slots:    *)
(* every job is reported once, leases come back once, and the threads      *)
(* implement the lane the runtime relies on.                               *)
(***************************************************************************)
EXTENDS CpuExecutor, HelperProofs

(***************************************************************************)
(* The invariant.                                                          *)
(***************************************************************************)
\* The places a ticket can be in besides InHand, BeingResent, Parked and
\* InChannel.
Waiting == {t \in Ticket : Queued(queue, t)}
Got == {t \in Ticket : delivered[t] > 0}

\* No ticket occurs twice in the queue q.
Distinct(q) ==
  \A i, j \in 1 .. Len(q) : q[i] = q[j] /\ q[i] \in Ticket => i = j

\* The reports that workers took out to send again are different ones.
ResentApart(r) ==
  /\ \A w \in Worker : Distinct(r[w])
  /\ \A w, v \in Worker : \A t \in Ticket :
       Queued(r[w], t) /\ Queued(r[v], t) => w = v

\* No place holds a ticket twice.
Unique ==
  /\ Distinct(queue) /\ Distinct(parked) /\ Distinct(chan)
  /\ ResentApart(retried)
  /\ \A w, v \in Worker : job[w] = job[v] /\ job[w] \in Ticket => w = v
  /\ \A t \in Ticket : delivered[t] <= 1

\* A ticket is in at most one of six places, and in one only after it was
\* accepted and as long as it is not cancelled.
Apart(Q, H, R, P, C, G, A) ==
  /\ Q \cap H = {} /\ (Q \cup H) \cap R = {} /\ (Q \cup H \cup R) \cap P = {}
  /\ (Q \cup H \cup R \cup P) \cap C = {}
  /\ (Q \cup H \cup R \cup P \cup C) \cap G = {}
  /\ Q \cup H \cup R \cup P \cup C \cup G \subseteq A

Placed == Apart(Waiting, InHand, BeingResent, Parked, InChannel, Got,
                accepted \ cancelled)

\* What the position of a worker says of what it holds; the queue is empty
\* once a worker has exited.
Threads ==
  \A w \in Worker :
    /\ job[w] \in Ticket <=> pc[w] \in {"run", "report"}
    /\ retried[w] # << >> => pc[w] = "resend"
    /\ pc[w] = "exited" => shuttingDown /\ queue = << >>

\* Jobs whose handler is running, and jobs whose handler has returned or that
\* were cancelled.
Running == {t \in Ticket : \E w \in Worker : job[w] = t /\ pc[w] = "run"}
Over == accepted \ (Waiting \cup Running)

Landings == \A t \in Retained : Landed(t) = (IF t \in Over THEN 1 ELSE 0)

ExecutorInv == TypeOK /\ Unique /\ Placed /\ Threads /\ Landings

\* Where a step moves the tickets.
Moved(Q, H, R, P, C, G) ==
  /\ Waiting' = Q /\ InHand' = H /\ BeingResent' = R
  /\ Parked' = P /\ InChannel' = C /\ Got' = G

Stays == Moved(Waiting, InHand, BeingResent, Parked, InChannel, Got)
-----------------------------------------------------------------------------
(***************************************************************************)
(* Queues and records.                                                     *)
(***************************************************************************)
LEMMA Empty ==
  ASSUME NEW q, q = << >>
  PROVE  Distinct(q) /\ \A u : ~ Queued(q, u)
BY DEF Distinct, Queued

LEMMA Push ==
  ASSUME NEW S, NEW q \in Seq(S), NEW t \in S, Distinct(q),
         t \in Ticket => ~ Queued(q, t)
  PROVE  /\ Append(q, t) \in Seq(S) /\ Len(Append(q, t)) = Len(q) + 1
         /\ Distinct(Append(q, t))
         /\ \A u : Queued(Append(q, t), u) <=> Queued(q, u) \/ u = t
<1>. DEFINE r == Append(q, t)
            n == Len(q)
<1>1. /\ r \in Seq(S) /\ Len(r) = n + 1 /\ n \in Nat
      /\ r[n + 1] = t /\ \A i \in 1 .. n : r[i] = q[i]
  OBVIOUS
<1>. HIDE DEF r
<1>2. ASSUME NEW i \in 1 .. n + 1, NEW j \in 1 .. n + 1,
             r[i] = r[j], r[i] \in Ticket
      PROVE  i = j
  <2>. HIDE DEF n
  <2>1. CASE i \in 1 .. n /\ j \in 1 .. n
    BY <1>1, <1>2, <2>1 DEF Distinct, n
  <2>2. CASE i = n + 1 /\ j = n + 1
    BY <2>2
  <2>3. CASE i = n + 1 /\ j \in 1 .. n
    BY <1>1, <1>2, <2>3 DEF Queued, n
  <2>4. CASE j = n + 1 /\ i \in 1 .. n
    BY <1>1, <1>2, <2>4 DEF Queued, n
  <2>. QED  BY <1>1, <2>1, <2>2, <2>3, <2>4
<1>3. Distinct(r)
  BY <1>1, <1>2 DEF Distinct
<1>4. ASSUME NEW u
      PROVE  Queued(r, u) <=> Queued(q, u) \/ u = t
  <2>1. ASSUME Queued(r, u) PROVE Queued(q, u) \/ u = t
    BY <1>1, <2>1 DEF Queued
  <2>2. ASSUME Queued(q, u) PROVE Queued(r, u)
    BY <1>1, <2>2 DEF Queued
  <2>3. Queued(r, t)
    <3>1. n + 1 \in 1 .. Len(r)
      BY <1>1
    <3>. QED  BY <1>1, <3>1 DEF Queued
  <2>. QED  BY <2>1, <2>2, <2>3
<1>. QED  BY <1>1, <1>3, <1>4 DEF r

LEMMA Pop ==
  ASSUME NEW S, NEW q \in Seq(S), q # << >>, Distinct(q)
  PROVE  /\ Head(q) \in S /\ Queued(q, Head(q))
         /\ Tail(q) \in Seq(S) /\ Len(Tail(q)) = Len(q) - 1
         /\ Distinct(Tail(q))
         /\ \A u \in Ticket : Queued(Tail(q), u) <=> Queued(q, u) /\ u # Head(q)
<1>. DEFINE r == Tail(q)
            n == Len(q)
<1>1. n \in Nat /\ n >= 1 /\ Head(q) = q[1] /\ q[1] \in S
  OBVIOUS
<1>2. r \in Seq(S) /\ Len(r) = n - 1 /\ \A i \in 1 .. n - 1 : r[i] = q[i + 1]
  BY <1>1
<1>. HIDE DEF r
<1>3. Queued(q, Head(q))
  BY <1>1 DEF Queued
<1>4. ASSUME NEW i \in 1 .. n - 1, NEW j \in 1 .. n - 1,
             r[i] = r[j], r[i] \in Ticket
      PROVE  i = j
  <2>1. i + 1 \in 1 .. n /\ j + 1 \in 1 .. n
    BY <1>1
  <2>2. q[i + 1] = q[j + 1] /\ q[i + 1] \in Ticket
    BY <1>2, <1>4
  <2>3. i + 1 = j + 1
    BY <2>1, <2>2 DEF Distinct
  <2>. QED  BY <1>1, <2>3
<1>5. Distinct(r)
  BY <1>2, <1>4 DEF Distinct
<1>6. ASSUME NEW u \in Ticket
      PROVE  Queued(r, u) <=> Queued(q, u) /\ u # Head(q)
  <2>1. ASSUME Queued(r, u) PROVE Queued(q, u) /\ u # Head(q)
    <3>1. PICK i \in 1 .. n - 1 : r[i] = u
      BY <1>2, <2>1 DEF Queued
    <3>2. i + 1 \in 1 .. n /\ 1 \in 1 .. n /\ i + 1 # 1 /\ q[i + 1] = u
      BY <1>1, <1>2, <3>1
    <3>. QED  BY <1>1, <3>2 DEF Queued, Distinct
  <2>2. ASSUME Queued(q, u), u # Head(q) PROVE Queued(r, u)
    <3>1. PICK i \in 1 .. n : q[i] = u
      BY <2>2 DEF Queued
    <3>2. i # 1
      BY <1>1, <2>2, <3>1
    <3>3. i - 1 \in 1 .. n - 1 /\ (i - 1) + 1 = i
      BY <1>1, <3>2
    <3>. QED  BY <1>2, <3>1, <3>3 DEF Queued
  <2>. QED  BY <2>1, <2>2
<1>. QED  BY <1>1, <1>2, <1>3, <1>5, <1>6 DEF r

LEMMA Remove ==
  ASSUME NEW q \in Seq(Ticket), NEW t \in Ticket, Queued(q, t), Distinct(q)
  PROVE  /\ Retain(q, t) \in Seq(Ticket) /\ Len(Retain(q, t)) <= Len(q)
         /\ Distinct(Retain(q, t))
         /\ \A u \in Ticket : Queued(Retain(q, t), u) <=> Queued(q, u) /\ u # t
<1>1. NoDuplicates(q)
  BY DEF Distinct, NoDuplicates
<1>2. /\ Retain(q, t) \in Seq(Ticket) /\ NoDuplicates(Retain(q, t))
      /\ \A u \in Ticket : Queued(Retain(q, t), u) <=> u # t /\ Queued(q, u)
  BY <1>1, RetainQueue
<1>3. Distinct(Retain(q, t))
  BY <1>2 DEF Distinct, NoDuplicates
<1>4. Len(Retain(q, t)) <= Len(q)
  <2>1. PICK p \in 1 .. Len(q) : q[p] = t
    BY DEF Queued
  <2>. DEFINE r == [k \in 1 .. (Len(q) - 1) |-> IF k < p THEN q[k] ELSE q[k + 1]]
  <2>2. Retain(q, t) = r
    BY <1>1, <2>1, RetainAt
  <2>3. Len(q) \in Nat /\ Len(q) - 1 \in Nat
    BY <2>1
  <2>4. r \in Seq(Ticket) /\ DOMAIN r = 1 .. (Len(q) - 1)
    BY <1>2, <2>2
  <2>5. Len(r) = Len(q) - 1
    BY <2>3, <2>4
  <2>. QED  BY <2>2, <2>3, <2>5
<1>. QED  BY <1>2, <1>3, <1>4

\* How often a record of t is in the queue c.
Records(c, t) == Cardinality({i \in DOMAIN c : c[i] = t})

LEMMA NoRecords ==
  ASSUME NEW t
  PROVE  Records(<< >>, t) = 0
<1>1. {i \in DOMAIN << >> : << >>[i] = t} = {}
  OBVIOUS
<1>. QED  BY <1>1, FS_EmptySet DEF Records

LEMMA OneRecordMore ==
  ASSUME NEW c \in Seq(Ticket), NEW x \in Ticket, NEW t
  PROVE  /\ Records(c, t) \in Nat
         /\ Records(Append(c, x), t) = Records(c, t) + (IF x = t THEN 1 ELSE 0)
<1>. DEFINE n == Len(c)
            r == Append(c, x)
            A == {i \in DOMAIN c : c[i] = t}
            B == {i \in DOMAIN r : r[i] = t}
<1>1. /\ n \in Nat /\ DOMAIN c = 1 .. n /\ DOMAIN r = 1 .. n + 1
      /\ r[n + 1] = x /\ \A i \in 1 .. n : r[i] = c[i]
  OBVIOUS
<1>. HIDE DEF r
<1>2. IsFiniteSet(1 .. n) /\ A \subseteq 1 .. n /\ n + 1 \notin A
  BY <1>1, FS_Interval
<1>3. IsFiniteSet(A) /\ Cardinality(A) \in Nat
  BY <1>2, FS_Subset, FS_CardinalityType
<1>4. Records(c, t) = Cardinality(A) /\ Records(Append(c, x), t) = Cardinality(B)
  BY DEF Records, r
<1>5. CASE x = t
  <2>1. B = A \cup {n + 1}
    BY <1>1, <1>5
  <2>. HIDE DEF A, B
  <2>2. Cardinality(A \cup {n + 1}) = Cardinality(A) + 1
    BY <1>2, <1>3, FS_AddElement
  <2>. QED  BY <1>3, <1>4, <1>5, <2>1, <2>2
<1>6. CASE x # t
  <2>1. B = A
    BY <1>1, <1>6
  <2>. HIDE DEF A, B
  <2>2. Records(Append(c, x), t) = Cardinality(A) + 0
    BY <1>3, <1>4, <2>1
  <2>. QED  BY <1>3, <1>4, <1>6, <2>2
<1>. QED  BY <1>5, <1>6

\* report_to_sink sends the report, parks it, or gives it up.
LEMMA Reporting ==
  ASSUME TypeOK, Distinct(chan), Distinct(parked), NEW t \in Ticket,
         t \notin InChannel, t \notin Parked, ReportToSink(t)
  PROVE  /\ chan' \in Seq(Ticket \cup {Other}) /\ Len(chan') <= ChanCapacity
         /\ parked' \in Seq(Ticket)
         /\ Distinct(chan') /\ Distinct(parked')
         /\ \/ InChannel' = InChannel \cup {t} /\ Parked' = Parked
            \/ InChannel' = InChannel /\ Parked' = Parked \cup {t}
            \/ InChannel' = InChannel /\ Parked' = Parked
<1>1. /\ chan \in Seq(Ticket \cup {Other}) /\ Len(chan) <= ChanCapacity
      /\ parked \in Seq(Ticket) /\ Len(chan) \in Nat /\ ChanCapacity \in Nat
  BY ExecutorConstants DEF TypeOK
<1>2. ~ Queued(chan, t) /\ ~ Queued(parked, t) /\ t \in Ticket \cup {Other}
  BY DEF InChannel, Parked
<1>3. CASE ~ closed /\ Len(chan) < ChanCapacity /\ chan' = Append(chan, t) /\ parked' = parked
  <2>1. /\ chan' \in Seq(Ticket \cup {Other}) /\ Len(chan') = Len(chan) + 1
        /\ Distinct(chan')
        /\ \A u : Queued(chan', u) <=> Queued(chan, u) \/ u = t
    BY <1>1, <1>2, <1>3, Push
  <2>2. InChannel' = InChannel \cup {t} /\ Parked' = Parked
    BY <1>3, <2>1 DEF InChannel, Parked
  <2>. QED  BY <1>1, <1>3, <2>1, <2>2
<1>4. CASE parked' = Append(parked, t) /\ chan' = chan
  <2>1. /\ parked' \in Seq(Ticket)
        /\ Distinct(parked')
        /\ \A u : Queued(parked', u) <=> Queued(parked, u) \/ u = t
    BY <1>1, <1>2, <1>4, Push
  <2>2. InChannel' = InChannel /\ Parked' = Parked \cup {t}
    BY <1>4, <2>1 DEF InChannel, Parked
  <2>. QED  BY <1>1, <1>4, <2>1, <2>2
<1>5. CASE chan' = chan /\ parked' = parked
  BY <1>1, <1>5 DEF InChannel, Parked
<1>. QED  BY <1>3, <1>4, <1>5 DEF ReportToSink
-----------------------------------------------------------------------------
(***************************************************************************)
(* The steps.                                                              *)
(***************************************************************************)
LEMMA LandingsKept ==
  ASSUME Landings, collected' = collected, completed' = completed, Over' = Over
  PROVE  Landings'
BY DEF Landings, Landed

\* A worker that holds nothing moves on, the owner goes on with its call.
LEMMA Idles ==
  ASSUME ExecutorInv,
         UNCHANGED << queue, job, retried, parked, chan, delivered, completed,
                      collected, accepted, cancelled >>,
         pc' \in [Worker -> {"retry", "resend", "take", "willWait", "waiting",
                             "run", "report", "exited"}],
         shuttingDown' \in BOOLEAN, shuttingDown => shuttingDown',
         owner' \in {"idle", "notify", "notifyAll", "joining", "down"},
         closed' \in BOOLEAN,
         \A v \in Worker :
           \/ pc'[v] = pc[v]
           \/ /\ pc[v] \notin {"run", "report"} /\ retried[v] = << >>
              /\ pc'[v] \in {"take", "willWait", "waiting", "exited"}
              /\ pc'[v] = "exited" => shuttingDown /\ queue = << >>
  PROVE  ExecutorInv' /\ Stays
<1>1. TypeOK'
  BY DEF ExecutorInv, TypeOK
<1>2. Unique'
  BY DEF ExecutorInv, Unique, Distinct, ResentApart
<1>3. Stays
  BY DEF Stays, Moved, Waiting, InHand, BeingResent, Parked, InChannel, Got
<1>4. Placed'
  BY <1>3 DEF ExecutorInv, Stays, Moved, Placed
<1>5. Threads'
  BY DEF ExecutorInv, Threads
<1>6. Running' = Running
  <2>1. \A v \in Worker : pc'[v] = "run" <=> pc[v] = "run"
    OBVIOUS
  <2>. QED  BY <2>1 DEF Running
<1>7. Over' = Over
  BY <1>3, <1>6 DEF Over, Stays, Moved
<1>8. Landings'
  BY <1>7, LandingsKept DEF ExecutorInv
<1>. QED  BY <1>1, <1>2, <1>3, <1>4, <1>5, <1>8 DEF ExecutorInv

\* Steps that only move idle workers or the owner's call.
LEMMA IdleSteps ==
  ASSUME ExecutorInv,
         \/ \E w \in Worker : Wait(w) \/ SpuriousWakeup(w)
         \/ NotifyOne \/ NotifyAll \/ Joined \/ Shutdown \/ DropReceiver
  PROVE  ExecutorInv' /\ Stays
<1>1. /\ pc \in [Worker -> {"retry", "resend", "take", "willWait", "waiting",
                            "run", "report", "exited"}]
      /\ shuttingDown \in BOOLEAN /\ closed \in BOOLEAN
      /\ owner \in {"idle", "notify", "notifyAll", "joining", "down"}
  BY DEF ExecutorInv, TypeOK
<1>2. \A v \in Worker : pc[v] # "resend" => retried[v] = << >>
  BY DEF ExecutorInv, Threads
<1>3. UNCHANGED << queue, job, retried, parked, chan, delivered, completed,
                   collected, accepted, cancelled >>
  BY DEF Wait, SpuriousWakeup, NotifyOne, NotifyAll, Joined, Shutdown, DropReceiver
<1>4. /\ shuttingDown' \in BOOLEAN /\ (shuttingDown => shuttingDown')
      /\ closed' \in BOOLEAN
      /\ owner' \in {"idle", "notify", "notifyAll", "joining", "down"}
  BY <1>1 DEF Wait, SpuriousWakeup, NotifyOne, NotifyAll, Joined, Shutdown, DropReceiver
<1>5. /\ pc' \in [Worker -> {"retry", "resend", "take", "willWait", "waiting",
                             "run", "report", "exited"}]
      /\ \A v \in Worker :
           \/ pc'[v] = pc[v]
           \/ pc[v] \in {"willWait", "waiting"} /\ pc'[v] \in {"take", "waiting"}
  <2>1. CASE \E w \in Worker : Wait(w) \/ SpuriousWakeup(w)
    BY <1>1, <2>1 DEF Wait, SpuriousWakeup
  <2>2. CASE NotifyOne
    BY <1>1, <2>2 DEF NotifyOne
  <2>3. CASE NotifyAll
    BY <1>1, <2>3 DEF NotifyAll
  <2>4. CASE Joined \/ Shutdown \/ DropReceiver
    BY <1>1, <2>4 DEF Joined, Shutdown, DropReceiver
  <2>. QED  BY <2>1, <2>2, <2>3, <2>4
<1>6. \A v \in Worker :
        \/ pc'[v] = pc[v]
        \/ /\ pc[v] \notin {"run", "report"} /\ retried[v] = << >>
           /\ pc'[v] \in {"take", "willWait", "waiting", "exited"}
           /\ pc'[v] = "exited" => shuttingDown /\ queue = << >>
  BY <1>2, <1>5
<1>. QED  BY <1>3, <1>4, <1>5, <1>6, Idles

LEMMA RetryParkedKeeps ==
  ASSUME ExecutorInv, NEW w \in Worker, RetryParked(w)
  PROVE  /\ ExecutorInv'
         /\ Moved(Waiting, InHand, BeingResent \cup Parked, {}, InChannel, Got)
<1>1. TypeOK /\ Unique /\ Placed /\ Threads /\ Landings
  BY DEF ExecutorInv
<1>2. /\ pc[w] = "retry" /\ retried[w] = << >>
      /\ retried' = [retried EXCEPT ![w] = parked] /\ parked' = << >>
      /\ pc' = [pc EXCEPT ![w] = "resend"]
      /\ UNCHANGED << queue, job, shuttingDown, owner, chan, closed, delivered,
                      completed, collected, accepted, cancelled >>
  BY <1>1 DEF RetryParked, Threads
<1>3. /\ retried \in [Worker -> Seq(Ticket)] /\ parked \in Seq(Ticket)
      /\ << >> \in Seq(Ticket)
  BY <1>1 DEF TypeOK
<1>4. TypeOK'
  BY <1>1, <1>2, <1>3 DEF TypeOK
<1>5. /\ retried'[w] = parked
      /\ \A v \in Worker : v # w => retried'[v] = retried[v]
  BY <1>2, <1>3
<1>6. \A u : ~ Queued(retried[w], u) /\ ~ Queued(parked', u)
  BY <1>2, Empty
<1>7. BeingResent' = BeingResent \cup Parked
  <2>1. ASSUME NEW t \in Ticket
        PROVE  (\E v \in Worker : Queued(retried'[v], t))
                 <=> (\E v \in Worker : Queued(retried[v], t)) \/ Queued(parked, t)
    BY <1>5, <1>6
  <2>. QED  BY <2>1 DEF BeingResent, Parked
<1>8. Moved(Waiting, InHand, BeingResent \cup Parked, {}, InChannel, Got)
  BY <1>2, <1>6, <1>7 DEF Moved, Waiting, InHand, Parked, InChannel, Got
<1>9. ResentApart(retried')
  <2>1. \A v \in Worker : Distinct(retried'[v])
    BY <1>1, <1>5 DEF Unique, ResentApart
  <2>2. ASSUME NEW x \in Worker, NEW y \in Worker, NEW t \in Ticket,
               Queued(retried'[x], t), Queued(retried'[y], t)
        PROVE  x = y
    <3>1. BeingResent \cap Parked = {}
      BY <1>1 DEF Placed, Apart
    <3>2. CASE x # w /\ y # w
      BY <1>1, <1>5, <2>2, <3>2 DEF Unique, ResentApart
    <3>3. CASE x = w /\ y # w
      BY <1>5, <2>2, <3>1, <3>3 DEF BeingResent, Parked
    <3>4. CASE x # w /\ y = w
      BY <1>5, <2>2, <3>1, <3>4 DEF BeingResent, Parked
    <3>. QED  BY <3>2, <3>3, <3>4
  <2>. QED  BY <2>1, <2>2 DEF ResentApart
<1>10. Unique'
  BY <1>1, <1>2, <1>9, Empty DEF Unique
<1>11. Placed'
  BY <1>1, <1>2, <1>8 DEF Placed, Moved, Apart
<1>12. Threads'
  BY <1>1, <1>2, <1>5 DEF Threads, TypeOK
<1>13. Running' = Running
  BY <1>1, <1>2 DEF Running, TypeOK
<1>14. Over' = Over
  BY <1>2, <1>8, <1>13 DEF Over, Moved
<1>15. Landings'
  BY <1>1, <1>2, <1>14, LandingsKept
<1>. QED  BY <1>4, <1>8, <1>10, <1>11, <1>12, <1>15 DEF ExecutorInv

\* The report t leaves its place: it is sent, parked or given up.
Handed(H, R, t) ==
  \/ Moved(Waiting, H, R, Parked, InChannel \cup {t}, Got)
  \/ Moved(Waiting, H, R, Parked \cup {t}, InChannel, Got)
  \/ Moved(Waiting, H, R, Parked, InChannel, Got)

LEMMA ResendKeeps ==
  ASSUME ExecutorInv, NEW w \in Worker, Resend(w)
  PROVE  /\ ExecutorInv'
         /\ \/ Stays
            \/ \E t \in BeingResent : Handed(InHand, BeingResent \ {t}, t)
<1>1. TypeOK /\ Unique /\ Placed /\ Threads /\ Landings
  BY DEF ExecutorInv
<1>2. /\ pc[w] = "resend"
      /\ UNCHANGED << queue, job, shuttingDown, owner, closed, delivered,
                      completed, collected, accepted, cancelled >>
  BY DEF Resend
<1>3. CASE retried[w] = << >>
  <2>1. pc' = [pc EXCEPT ![w] = "take"] /\ UNCHANGED << retried, chan, parked >>
    BY <1>3 DEF Resend
  <2>2. /\ pc \in [Worker -> {"retry", "resend", "take", "willWait", "waiting",
                              "run", "report", "exited"}]
        /\ shuttingDown \in BOOLEAN /\ closed \in BOOLEAN
        /\ owner \in {"idle", "notify", "notifyAll", "joining", "down"}
    BY <1>1 DEF TypeOK
  <2>3. /\ pc' \in [Worker -> {"retry", "resend", "take", "willWait", "waiting",
                               "run", "report", "exited"}]
        /\ \A v \in Worker :
             \/ pc'[v] = pc[v]
             \/ /\ pc[v] \notin {"run", "report"} /\ retried[v] = << >>
                /\ pc'[v] \in {"take", "willWait", "waiting", "exited"}
                /\ pc'[v] = "exited" => shuttingDown /\ queue = << >>
    BY <1>2, <1>3, <2>1, <2>2
  <2>. QED  BY <1>2, <2>1, <2>2, <2>3, Idles
<1>4. CASE retried[w] # << >>
  <2>. DEFINE h == Head(retried[w])
  <2>1. /\ ReportToSink(h) /\ pc' = pc
        /\ retried' = [retried EXCEPT ![w] = Tail(@)]
    BY <1>4 DEF Resend
  <2>2. retried \in [Worker -> Seq(Ticket)] /\ retried[w] \in Seq(Ticket)
        /\ Distinct(retried[w])
    BY <1>1 DEF TypeOK, Unique, ResentApart
  <2>3. /\ h \in Ticket /\ Queued(retried[w], h)
        /\ Tail(retried[w]) \in Seq(Ticket) /\ Distinct(Tail(retried[w]))
        /\ \A u \in Ticket : Queued(Tail(retried[w]), u) <=> Queued(retried[w], u) /\ u # h
    BY <1>4, <2>2, Pop
  <2>. HIDE DEF h
  <2>4. /\ retried'[w] = Tail(retried[w])
        /\ \A v \in Worker : v # w => retried'[v] = retried[v]
        /\ retried' \in [Worker -> Seq(Ticket)]
    BY <2>1, <2>2, <2>3
  <2>5. h \in BeingResent
    BY <2>3 DEF BeingResent
  <2>6. h \notin InChannel /\ h \notin Parked
    BY <1>1, <2>5 DEF Placed, Apart
  <2>7. /\ chan' \in Seq(Ticket \cup {Other}) /\ Len(chan') <= ChanCapacity
        /\ parked' \in Seq(Ticket)
        /\ Distinct(chan') /\ Distinct(parked')
        /\ \/ InChannel' = InChannel \cup {h} /\ Parked' = Parked
           \/ InChannel' = InChannel /\ Parked' = Parked \cup {h}
           \/ InChannel' = InChannel /\ Parked' = Parked
    BY <1>1, <2>1, <2>3, <2>6, Reporting DEF Unique
  <2>8. BeingResent' = BeingResent \ {h}
    <3>1. ASSUME NEW t \in Ticket
          PROVE  (\E v \in Worker : Queued(retried'[v], t))
                   <=> (\E v \in Worker : Queued(retried[v], t)) /\ t # h
      <4>1. \A v \in Worker : Queued(retried[v], h) => v = w
        BY <1>1, <2>3 DEF Unique, ResentApart
      <4>. QED  BY <2>3, <2>4, <4>1
    <3>. QED  BY <3>1 DEF BeingResent
  <2>9. Handed(InHand, BeingResent \ {h}, h)
    BY <1>2, <2>7, <2>8 DEF Handed, Moved, Waiting, InHand, Got
  <2>10. TypeOK'
    BY <1>1, <1>2, <2>1, <2>4, <2>7 DEF TypeOK
  <2>11. ResentApart(retried')
    <3>1. \A v \in Worker : Distinct(retried'[v])
      BY <1>1, <2>3, <2>4 DEF Unique, ResentApart
    <3>2. \A v \in Worker : \A t \in Ticket : Queued(retried'[v], t) => Queued(retried[v], t)
      BY <2>3, <2>4
    <3>. QED  BY <1>1, <3>1, <3>2 DEF Unique, ResentApart
  <2>12. Unique'
    BY <1>1, <1>2, <2>7, <2>11 DEF Unique
  <2>13. Placed'
    BY <1>1, <1>2, <2>5, <2>9 DEF Placed, Handed, Moved, Apart
  <2>14. Threads'
    BY <1>1, <1>2, <2>1, <2>4 DEF Threads
  <2>15. Running' = Running
    BY <1>2, <2>1 DEF Running
  <2>16. Over' = Over
    BY <1>2, <2>15 DEF Over, Waiting
  <2>17. Landings'
    BY <1>1, <1>2, <2>16, LandingsKept
  <2>. QED  BY <2>5, <2>9, <2>10, <2>12, <2>13, <2>14, <2>17 DEF ExecutorInv
<1>. QED  BY <1>3, <1>4

LEMMA TakeKeeps ==
  ASSUME ExecutorInv, NEW w \in Worker, Take(w)
  PROVE  /\ ExecutorInv'
         /\ \/ Stays /\ queue' = queue
            \/ /\ queue # << >> /\ queue' = Tail(queue) /\ Head(queue) \in Waiting
               /\ Moved(Waiting \ {Head(queue)}, InHand \cup {Head(queue)},
                        BeingResent, Parked, InChannel, Got)
<1>1. TypeOK /\ Unique /\ Placed /\ Threads /\ Landings
  BY DEF ExecutorInv
<1>2. /\ pc[w] = "take"
      /\ UNCHANGED << retried, parked, shuttingDown, owner, chan, closed,
                      delivered, completed, collected, accepted, cancelled >>
  BY DEF Take
<1>3. CASE queue = << >>
  <2>1. /\ pc' = [pc EXCEPT ![w] = IF shuttingDown THEN "exited" ELSE "willWait"]
        /\ UNCHANGED << job, queue >>
    BY <1>3 DEF Take
  <2>2. /\ pc \in [Worker -> {"retry", "resend", "take", "willWait", "waiting",
                              "run", "report", "exited"}]
        /\ shuttingDown \in BOOLEAN /\ closed \in BOOLEAN
        /\ owner \in {"idle", "notify", "notifyAll", "joining", "down"}
        /\ retried[w] = << >>
    BY <1>1, <1>2 DEF TypeOK, Threads
  <2>3. /\ pc' \in [Worker -> {"retry", "resend", "take", "willWait", "waiting",
                               "run", "report", "exited"}]
        /\ \A v \in Worker :
             \/ pc'[v] = pc[v]
             \/ /\ pc[v] \notin {"run", "report"} /\ retried[v] = << >>
                /\ pc'[v] \in {"take", "willWait", "waiting", "exited"}
                /\ pc'[v] = "exited" => shuttingDown /\ queue = << >>
    BY <1>2, <1>3, <2>1, <2>2
  <2>. QED  BY <1>2, <2>1, <2>2, <2>3, Idles
<1>4. CASE queue # << >>
  <2>. DEFINE h == Head(queue)
  <2>1. /\ job' = [job EXCEPT ![w] = h] /\ queue' = Tail(queue)
        /\ pc' = [pc EXCEPT ![w] = "run"]
    BY <1>4 DEF Take
  <2>2. /\ queue \in Seq(Ticket) /\ Len(queue) <= QueueCapacity /\ Len(queue) \in Nat
        /\ Distinct(queue) /\ QueueCapacity \in Nat
        /\ job \in [Worker -> Ticket \cup {NoJob}]
        /\ pc \in [Worker -> {"retry", "resend", "take", "willWait", "waiting",
                              "run", "report", "exited"}]
    BY <1>1, ExecutorConstants DEF TypeOK, Unique
  <2>3. /\ h \in Ticket /\ Queued(queue, h)
        /\ Tail(queue) \in Seq(Ticket) /\ Len(Tail(queue)) = Len(queue) - 1
        /\ Distinct(Tail(queue))
        /\ \A u \in Ticket : Queued(Tail(queue), u) <=> Queued(queue, u) /\ u # h
    BY <1>4, <2>2, Pop
  <2>. HIDE DEF h
  <2>4. /\ job'[w] = h /\ pc'[w] = "run"
        /\ \A v \in Worker : v # w => job'[v] = job[v] /\ pc'[v] = pc[v]
    BY <2>1, <2>2
  <2>5. job[w] \notin Ticket /\ retried[w] = << >>
    BY <1>1, <1>2 DEF Threads
  <2>6. h \in Waiting /\ h \notin InHand /\ h \in accepted
    BY <1>1, <2>3 DEF Waiting, Placed, Apart
  <2>7. Waiting' = Waiting \ {h}
    BY <2>1, <2>3 DEF Waiting
  <2>8. InHand' = InHand \cup {h}
    BY <2>3, <2>4, <2>5 DEF InHand
  <2>9. Moved(Waiting \ {h}, InHand \cup {h}, BeingResent, Parked, InChannel, Got)
    BY <1>2, <2>7, <2>8 DEF Moved, BeingResent, Parked, InChannel, Got
  <2>10. TypeOK'
    BY SMTT(30), <1>1, <1>2, <2>1, <2>2, <2>3 DEF TypeOK
  <2>11. Unique'
    <3>1. \A x, y \in Worker : job'[x] = job'[y] /\ job'[x] \in Ticket => x = y
      <4>1. \A v \in Worker : job[v] # h
        BY <2>3, <2>6 DEF InHand
      <4>. QED  BY <1>1, <2>4, <4>1 DEF Unique
    <3>. QED  BY <1>1, <1>2, <2>1, <2>3, <3>1 DEF Unique
  <2>12. Placed'
    BY <1>1, <1>2, <2>6, <2>9 DEF Placed, Moved, Apart
  <2>13. Threads'
    <3>1. \A v \in Worker : pc[v] # "exited"
      BY <1>1, <1>4 DEF Threads
    <3>. QED  BY <1>1, <1>2, <2>3, <2>4, <2>5, <3>1 DEF Threads
  <2>14. Running' = Running \cup {h}
    BY <1>2, <2>3, <2>4 DEF Running
  <2>15. Over' = Over
    BY <1>2, <2>6, <2>7, <2>14 DEF Over
  <2>16. Landings'
    BY <1>1, <1>2, <2>15, LandingsKept
  <2>. QED  BY <1>4, <2>1, <2>6, <2>9, <2>10, <2>11, <2>12, <2>13, <2>16
            DEF ExecutorInv, h
<1>. QED  BY <1>3, <1>4

\* One more record of a job that is over now, if it retains leases.
LEMMA LandingsGrow ==
  ASSUME TypeOK, Landings, NEW t \in Ticket, t \notin Over, Over' = Over \cup {t},
         collected' = collected,
         \/ completed' = Append(completed, t)
         \/ t \notin Retained /\ completed' = completed
  PROVE  Landings'
<1>1. completed \in Seq(Ticket) /\ collected \in [Ticket -> Nat] /\ Retained \subseteq Ticket
  BY ExecutorConstants DEF TypeOK
<1>2. ASSUME NEW u \in Retained
      PROVE  Landed(u)' = (IF u \in Over' THEN 1 ELSE 0)
  <2>1. collected[u] + Records(completed, u) = (IF u \in Over THEN 1 ELSE 0)
    BY DEF Landings, Landed, Records
  <2>2. Landed(u)' = collected[u] + Records(completed', u)
    BY DEF Landed, Records
  <2>3. collected[u] \in Nat
    BY <1>1
  <2>4. CASE completed' = Append(completed, t)
    <3>1. /\ Records(completed, u) \in Nat
          /\ Records(completed', u) = Records(completed, u) + (IF t = u THEN 1 ELSE 0)
      BY <1>1, <2>4, OneRecordMore
    <3>2. CASE t = u
      BY <2>1, <2>2, <2>3, <3>1, <3>2
    <3>3. CASE t # u
      BY <2>1, <2>2, <2>3, <3>1, <3>3
    <3>. QED  BY <3>2, <3>3
  <2>5. CASE t \notin Retained /\ completed' = completed
    BY <2>1, <2>2, <2>5
  <2>. QED  BY <2>4, <2>5
<1>. QED  BY <1>2 DEF Landings

LEMMA RunKeeps ==
  ASSUME ExecutorInv, NEW w \in Worker, Run(w)
  PROVE  ExecutorInv' /\ Stays
<1>. DEFINE t == job[w]
<1>1. TypeOK /\ Unique /\ Placed /\ Threads /\ Landings
  BY DEF ExecutorInv
<1>2. /\ pc[w] = "run" /\ pc' = [pc EXCEPT ![w] = "report"]
      /\ completed' = IF t \notin Sink \/ t \in Retained
                      THEN Append(completed, t) ELSE completed
      /\ UNCHANGED << queue, job, retried, parked, shuttingDown, owner, chan,
                      closed, delivered, collected, accepted, cancelled >>
  BY DEF Run
<1>3. t \in Ticket
  BY <1>1, <1>2 DEF Threads
<1>4. /\ pc \in [Worker -> {"retry", "resend", "take", "willWait", "waiting",
                            "run", "report", "exited"}]
      /\ completed \in Seq(Ticket)
  BY <1>1 DEF TypeOK
<1>5. pc'[w] = "report" /\ \A v \in Worker : v # w => pc'[v] = pc[v]
  BY <1>2, <1>4
<1>6. \A v \in Worker : job[v] = t => v = w
  BY <1>1, <1>3 DEF Unique
<1>7. t \in InHand
  BY <1>3 DEF InHand
<1>8. TypeOK'
  <2>1. completed' \in Seq(Ticket)
    BY <1>2, <1>3, <1>4
  <2>. HIDE DEF t
  <2>. QED  BY <1>1, <1>2, <1>4, <2>1 DEF TypeOK
<1>9. Stays
  BY <1>2 DEF Stays, Moved, Waiting, InHand, BeingResent, Parked, InChannel, Got
<1>10. Unique'
  BY <1>1, <1>2 DEF Unique
<1>11. Placed'
  BY <1>1, <1>2, <1>9 DEF Placed, Stays, Moved
<1>12. Threads'
  BY <1>1, <1>2, <1>3, <1>5 DEF Threads
<1>13. t \in Running /\ Running' = Running \ {t}
  <2>1. t \in Running
    BY <1>2, <1>3 DEF Running
  <2>2. \A u \in Ticket :
          (\E v \in Worker : job[v] = u /\ pc'[v] = "run")
            <=> (\E v \in Worker : job[v] = u /\ pc[v] = "run") /\ u # t
    BY <1>5, <1>6
  <2>. QED  BY <1>2, <2>1, <2>2 DEF Running
<1>14. t \in accepted /\ t \notin Waiting
  BY <1>1, <1>7 DEF Placed, Apart
<1>15. t \notin Over /\ Over' = Over \cup {t}
  BY <1>2, <1>9, <1>13, <1>14 DEF Over, Stays, Moved
<1>. HIDE DEF t
<1>16. Landings'
  BY <1>1, <1>2, <1>3, <1>15, LandingsGrow
<1>. QED  BY <1>8, <1>9, <1>10, <1>11, <1>12, <1>16 DEF ExecutorInv

LEMMA ReportKeeps ==
  ASSUME ExecutorInv, NEW w \in Worker, Report(w)
  PROVE  /\ ExecutorInv'
         /\ \E t \in InHand : Handed(InHand \ {t}, BeingResent, t)
<1>. DEFINE t == job[w]
<1>1. TypeOK /\ Unique /\ Placed /\ Threads /\ Landings
  BY DEF ExecutorInv
<1>2. /\ pc[w] = "report" /\ pc' = [pc EXCEPT ![w] = "retry"]
      /\ job' = [job EXCEPT ![w] = NoJob]
      /\ ReportToSink(t) \/ (chan' = chan /\ parked' = parked)
      /\ UNCHANGED << queue, retried, shuttingDown, owner, closed, delivered,
                      completed, collected, accepted, cancelled >>
  BY DEF Report
<1>3. t \in Ticket /\ NoJob \notin Ticket
  BY <1>1, <1>2, ExecutorConstants DEF Threads, NoJob
<1>4. /\ pc \in [Worker -> {"retry", "resend", "take", "willWait", "waiting",
                            "run", "report", "exited"}]
      /\ job \in [Worker -> Ticket \cup {NoJob}]
  BY <1>1 DEF TypeOK
<1>5. /\ pc'[w] = "retry" /\ job'[w] = NoJob
      /\ \A v \in Worker : v # w => pc'[v] = pc[v] /\ job'[v] = job[v]
  BY <1>2, <1>4
<1>6. \A v \in Worker : job[v] = t => v = w
  BY <1>1, <1>3 DEF Unique
<1>7. t \in InHand
  BY <1>3 DEF InHand
<1>8. t \notin InChannel /\ t \notin Parked
  BY <1>1, <1>7 DEF Placed, Apart
<1>9. /\ chan' \in Seq(Ticket \cup {Other}) /\ Len(chan') <= ChanCapacity
      /\ parked' \in Seq(Ticket)
      /\ Distinct(chan') /\ Distinct(parked')
      /\ \/ InChannel' = InChannel \cup {t} /\ Parked' = Parked
         \/ InChannel' = InChannel /\ Parked' = Parked \cup {t}
         \/ InChannel' = InChannel /\ Parked' = Parked
  <2>. HIDE DEF t
  <2>1. CASE ReportToSink(t)
    BY <1>1, <1>3, <1>8, <2>1, Reporting DEF Unique
  <2>2. CASE chan' = chan /\ parked' = parked
    BY <1>1, <2>2 DEF TypeOK, Unique, InChannel, Parked
  <2>. QED  BY <1>2, <2>1, <2>2
<1>10. InHand' = InHand \ {t}
  <2>1. \A u \in Ticket :
          (\E v \in Worker : job'[v] = u) <=> (\E v \in Worker : job[v] = u) /\ u # t
    BY <1>3, <1>5, <1>6
  <2>. QED  BY <2>1 DEF InHand
<1>11. Running' = Running
  <2>1. \A u \in Ticket : \A v \in Worker :
          (job'[v] = u /\ pc'[v] = "run") <=> (job[v] = u /\ pc[v] = "run")
    BY <1>2, <1>5
  <2>. QED  BY <2>1 DEF Running
<1>. HIDE DEF t
<1>12. Handed(InHand \ {t}, BeingResent, t)
  BY <1>2, <1>9, <1>10 DEF Handed, Moved, Waiting, BeingResent, Got
<1>13. TypeOK'
  BY <1>1, <1>2, <1>4, <1>9 DEF TypeOK
<1>14. Unique'
  <2>1. \A x, y \in Worker : job'[x] = job'[y] /\ job'[x] \in Ticket => x = y
    BY <1>1, <1>3, <1>5 DEF Unique
  <2>. QED  BY <1>1, <1>2, <1>9, <2>1 DEF Unique
<1>15. Placed'
  BY <1>1, <1>2, <1>7, <1>12 DEF Placed, Handed, Moved, Apart
<1>16. Threads'
  BY <1>1, <1>2, <1>3, <1>5 DEF Threads
<1>17. Over' = Over
  BY <1>2, <1>11 DEF Over, Waiting
<1>18. Landings'
  BY <1>1, <1>2, <1>17, LandingsKept
<1>. QED  BY <1>7, <1>12, <1>13, <1>14, <1>15, <1>16, <1>18 DEF ExecutorInv

LEMMA TrySubmitKeeps ==
  ASSUME ExecutorInv, NEW t \in Ticket, TrySubmit(t)
  PROVE  /\ ExecutorInv'
         /\ Moved(Waiting \cup {t}, InHand, BeingResent, Parked, InChannel, Got)
<1>1. TypeOK /\ Unique /\ Placed /\ Threads /\ Landings
  BY DEF ExecutorInv
<1>2. /\ ~ shuttingDown /\ t \notin accepted /\ Len(queue) < QueueCapacity
      /\ queue' = Append(queue, t) /\ accepted' = accepted \cup {t}
      /\ owner' = "notify"
      /\ UNCHANGED << pc, job, retried, parked, shuttingDown, chan, closed,
                      delivered, completed, collected, cancelled >>
  BY DEF TrySubmit
<1>3. /\ t \notin Waiting /\ t \notin InHand /\ t \notin BeingResent
      /\ t \notin Parked /\ t \notin InChannel /\ t \notin Got
      /\ t \notin cancelled /\ ~ Queued(queue, t)
  BY <1>1, <1>2 DEF Placed, Apart, Waiting, TypeOK
<1>4. queue \in Seq(Ticket) /\ Len(queue) \in Nat /\ QueueCapacity \in Nat /\ Distinct(queue)
  BY <1>1, ExecutorConstants DEF TypeOK, Unique
<1>5. /\ queue' \in Seq(Ticket) /\ Len(queue') = Len(queue) + 1 /\ Distinct(queue')
      /\ \A u : Queued(queue', u) <=> Queued(queue, u) \/ u = t
  BY <1>2, <1>3, <1>4, Push
<1>6. Waiting' = Waiting \cup {t}
  BY <1>5 DEF Waiting
<1>7. Moved(Waiting \cup {t}, InHand, BeingResent, Parked, InChannel, Got)
  BY <1>2, <1>6 DEF Moved, InHand, BeingResent, Parked, InChannel, Got
<1>8. TypeOK'
  BY <1>1, <1>2, <1>4, <1>5 DEF TypeOK
<1>9. Unique'
  BY <1>1, <1>2, <1>5 DEF Unique
<1>10. Placed'
  BY <1>1, <1>2, <1>3, <1>7 DEF Placed, Moved, Apart
<1>11. Threads'
  BY <1>1, <1>2 DEF Threads
<1>12. Running' = Running
  BY <1>2 DEF Running
<1>13. Over' = Over
  BY <1>2, <1>6, <1>12 DEF Over
<1>14. Landings'
  BY <1>1, <1>2, <1>13, LandingsKept
<1>. QED  BY <1>7, <1>8, <1>9, <1>10, <1>11, <1>14 DEF ExecutorInv

LEMMA CancelTicketKeeps ==
  ASSUME ExecutorInv, NEW t \in Ticket, CancelTicket(t)
  PROVE  /\ ExecutorInv' /\ t \in Waiting
         /\ Moved(Waiting \ {t}, InHand, BeingResent, Parked, InChannel, Got)
<1>1. TypeOK /\ Unique /\ Placed /\ Threads /\ Landings
  BY DEF ExecutorInv
<1>2. /\ Queued(queue, t) /\ queue' = Retain(queue, t)
      /\ completed' = IF t \in Retained THEN Append(completed, t) ELSE completed
      /\ cancelled' = cancelled \cup {t}
      /\ UNCHANGED << pc, job, retried, parked, shuttingDown, owner, chan,
                      closed, delivered, collected, accepted >>
  BY DEF CancelTicket
<1>3. /\ queue \in Seq(Ticket) /\ Len(queue) \in Nat /\ Len(queue) <= QueueCapacity
      /\ QueueCapacity \in Nat /\ Distinct(queue) /\ completed \in Seq(Ticket)
  BY <1>1, ExecutorConstants DEF TypeOK, Unique
<1>4. /\ queue' \in Seq(Ticket) /\ Len(queue') <= Len(queue) /\ Distinct(queue')
      /\ \A u \in Ticket : Queued(queue', u) <=> Queued(queue, u) /\ u # t
  BY <1>2, <1>3, Remove
<1>5. t \in Waiting /\ t \in accepted /\ t \notin InHand
  BY <1>1, <1>2 DEF Waiting, Placed, Apart
<1>6. Waiting' = Waiting \ {t}
  BY <1>4 DEF Waiting
<1>7. Moved(Waiting \ {t}, InHand, BeingResent, Parked, InChannel, Got)
  BY <1>2, <1>6 DEF Moved, InHand, BeingResent, Parked, InChannel, Got
<1>8. TypeOK'
  <2>1. completed' \in Seq(Ticket)
    BY <1>2, <1>3
  <2>2. Len(queue') <= QueueCapacity
    BY <1>3, <1>4
  <2>. QED  BY <1>1, <1>2, <1>4, <1>5, <2>1, <2>2 DEF TypeOK
<1>9. Unique'
  BY <1>1, <1>2, <1>4 DEF Unique
<1>10. Placed'
  BY <1>1, <1>2, <1>5, <1>7 DEF Placed, Moved, Apart
<1>11. Threads'
  <2>1. queue # << >>
    BY <1>2, Empty
  <2>2. \A v \in Worker : pc[v] # "exited"
    BY <1>1, <2>1 DEF Threads
  <2>. QED  BY <1>1, <1>2, <2>2 DEF Threads
<1>12. Running' = Running /\ Running \subseteq InHand
  BY <1>2 DEF Running, InHand
<1>13. t \notin Over /\ Over' = Over \cup {t}
  BY <1>2, <1>5, <1>6, <1>12 DEF Over
<1>14. Landings'
  BY <1>1, <1>2, <1>13, LandingsGrow
<1>. QED  BY <1>5, <1>7, <1>8, <1>9, <1>10, <1>11, <1>14 DEF ExecutorInv

LEMMA DrainCompletedKeeps ==
  ASSUME ExecutorInv, DrainCompleted
  PROVE  ExecutorInv' /\ Stays
<1>1. TypeOK /\ Unique /\ Placed /\ Threads /\ Landings
  BY DEF ExecutorInv
<1>2. /\ collected' = [t \in Ticket |-> Landed(t)] /\ completed' = << >>
      /\ UNCHANGED << queue, pc, job, retried, parked, shuttingDown, owner,
                      chan, closed, delivered, accepted, cancelled >>
  BY DEF DrainCompleted
<1>3. completed \in Seq(Ticket) /\ collected \in [Ticket -> Nat]
  BY <1>1 DEF TypeOK
<1>4. ASSUME NEW t \in Ticket
      PROVE  Landed(t) \in Nat /\ Landed(t)' = Landed(t)
  <2>1. Records(completed, t) \in Nat /\ Records(<< >>, t) = 0
    BY <1>3, OneRecordMore, NoRecords
  <2>2. Landed(t) = collected[t] + Records(completed, t) /\ collected[t] \in Nat
    BY <1>3 DEF Landed, Records
  <2>3. Landed(t)' = collected'[t] + Records(completed', t)
    BY DEF Landed, Records
  <2>4. collected'[t] = Landed(t)
    BY <1>2
  <2>5. Landed(t) \in Nat
    BY <2>1, <2>2
  <2>6. Landed(t)' = Landed(t) + 0
    BY <1>2, <2>1, <2>3, <2>4
  <2>. QED  BY <2>5, <2>6
<1>5. TypeOK'
  <2>1. collected' \in [Ticket -> Nat] /\ completed' \in Seq(Ticket)
    BY <1>2, <1>4
  <2>. QED  BY <1>1, <1>2, <2>1 DEF TypeOK
<1>6. Stays
  BY <1>2 DEF Stays, Moved, Waiting, InHand, BeingResent, Parked, InChannel, Got
<1>7. Unique' /\ Placed' /\ Threads'
  BY <1>1, <1>2, <1>6 DEF Unique, Placed, Threads, Stays, Moved
<1>8. Over' = Over
  BY <1>2 DEF Over, Waiting, Running
<1>9. Landings'
  <2>1. \A t \in Retained : t \in Ticket
    BY ExecutorConstants
  <2>2. \A t \in Retained : Landed(t)' = Landed(t)
    BY <1>4, <2>1
  <2>. QED  BY <1>1, <1>8, <2>2 DEF Landings
<1>. QED  BY <1>5, <1>6, <1>7, <1>9 DEF ExecutorInv

LEMMA ReceiveKeeps ==
  ASSUME ExecutorInv, Receive
  PROVE  /\ ExecutorInv'
         /\ \/ Stays
            \/ \E t \in InChannel :
                 Moved(Waiting, InHand, BeingResent, Parked, InChannel \ {t},
                       Got \cup {t})
<1>. DEFINE h == Head(chan)
<1>1. TypeOK /\ Unique /\ Placed /\ Threads /\ Landings
  BY DEF ExecutorInv
<1>2. /\ chan # << >> /\ chan' = Tail(chan)
      /\ delivered' = IF h \in Ticket THEN [delivered EXCEPT ![h] = @ + 1]
                      ELSE delivered
      /\ UNCHANGED << queue, pc, job, retried, parked, shuttingDown, owner,
                      closed, completed, collected, accepted, cancelled >>
  BY DEF Receive
<1>3. /\ chan \in Seq(Ticket \cup {Other}) /\ Len(chan) \in Nat
      /\ Len(chan) <= ChanCapacity /\ ChanCapacity \in Nat
      /\ Distinct(chan) /\ delivered \in [Ticket -> Nat]
  BY <1>1, ExecutorConstants DEF TypeOK, Unique
<1>4. /\ h \in Ticket \cup {Other} /\ Queued(chan, h)
      /\ chan' \in Seq(Ticket \cup {Other}) /\ Len(chan') = Len(chan) - 1
      /\ Distinct(chan')
      /\ \A u \in Ticket : Queued(chan', u) <=> Queued(chan, u) /\ u # h
  BY <1>2, <1>3, Pop
<1>. HIDE DEF h
<1>5. InChannel' = InChannel \ {h}
  BY <1>4 DEF InChannel
<1>6. Len(chan') <= ChanCapacity
  BY <1>3, <1>4
<1>7. CASE h \notin Ticket
  <2>1. delivered' = delivered /\ InChannel' = InChannel
    BY <1>2, <1>5, <1>7 DEF InChannel
  <2>2. Stays
    BY <1>2, <2>1 DEF Stays, Moved, Waiting, InHand, BeingResent, Parked, Got
  <2>3. TypeOK'
    BY <1>1, <1>2, <1>4, <1>6, <2>1 DEF TypeOK
  <2>4. Unique' /\ Placed' /\ Threads'
    BY <1>1, <1>2, <1>4, <2>1, <2>2 DEF Unique, Placed, Threads, Stays, Moved
  <2>5. Over' = Over
    BY <1>2 DEF Over, Waiting, Running
  <2>6. Landings'
    BY <1>1, <1>2, <2>5, LandingsKept
  <2>. QED  BY <2>2, <2>3, <2>4, <2>6 DEF ExecutorInv
<1>8. CASE h \in Ticket
  <2>1. h \in InChannel
    BY <1>4, <1>8 DEF InChannel
  <2>2. h \notin Got
    BY <1>1, <2>1 DEF Placed, Apart
  <2>3. delivered[h] = 0
    BY <1>3, <1>8, <2>2 DEF Got
  <2>4. /\ delivered' \in [Ticket -> Nat] /\ delivered'[h] = 1
        /\ \A u \in Ticket : u # h => delivered'[u] = delivered[u]
    BY <1>2, <1>3, <1>8, <2>3
  <2>5. Got' = Got \cup {h}
    BY <1>8, <2>4 DEF Got
  <2>6. Moved(Waiting, InHand, BeingResent, Parked, InChannel \ {h}, Got \cup {h})
    BY <1>2, <1>5, <2>5 DEF Moved, Waiting, InHand, BeingResent, Parked
  <2>7. TypeOK'
    BY <1>1, <1>2, <1>4, <1>6, <2>4 DEF TypeOK
  <2>8. Unique'
    <3>1. \A u \in Ticket : delivered'[u] <= 1
      BY <1>1, <2>4 DEF Unique
    <3>. QED  BY <1>1, <1>2, <1>4, <3>1 DEF Unique
  <2>9. Placed'
    BY <1>1, <1>2, <2>1, <2>6 DEF Placed, Moved, Apart
  <2>10. Threads'
    BY <1>1, <1>2 DEF Threads
  <2>11. Over' = Over
    BY <1>2 DEF Over, Waiting, Running
  <2>12. Landings'
    BY <1>1, <1>2, <2>11, LandingsKept
  <2>. QED  BY <2>1, <2>6, <2>7, <2>8, <2>9, <2>10, <2>12 DEF ExecutorInv
<1>. QED  BY <1>7, <1>8

LEMMA OtherCommandKeeps ==
  ASSUME ExecutorInv, OtherCommand
  PROVE  ExecutorInv' /\ Stays
<1>1. TypeOK /\ Unique /\ Placed /\ Threads /\ Landings
  BY DEF ExecutorInv
<1>2. /\ Len(chan) < ChanCapacity /\ chan' = Append(chan, Other)
      /\ UNCHANGED << queue, pc, job, retried, parked, shuttingDown, owner,
                      closed, delivered, completed, collected, accepted,
                      cancelled >>
  BY DEF OtherCommand
<1>3. /\ chan \in Seq(Ticket \cup {Other}) /\ Len(chan) \in Nat
      /\ ChanCapacity \in Nat /\ Distinct(chan) /\ Other \notin Ticket
      /\ Other \in Ticket \cup {Other}
  BY <1>1, ExecutorConstants DEF TypeOK, Unique
<1>4. /\ chan' \in Seq(Ticket \cup {Other}) /\ Len(chan') = Len(chan) + 1
      /\ Distinct(chan')
      /\ \A u : Queued(chan', u) <=> Queued(chan, u) \/ u = Other
  BY <1>2, <1>3, Push
<1>5. Len(chan') <= ChanCapacity
  BY <1>2, <1>3, <1>4
<1>6. InChannel' = InChannel
  BY <1>3, <1>4 DEF InChannel
<1>7. Stays
  BY <1>2, <1>6 DEF Stays, Moved, Waiting, InHand, BeingResent, Parked, Got
<1>8. TypeOK'
  BY <1>1, <1>2, <1>4, <1>5 DEF TypeOK
<1>9. Unique' /\ Placed' /\ Threads'
  BY <1>1, <1>2, <1>4, <1>7 DEF Unique, Placed, Threads, Stays, Moved
<1>10. Over' = Over
  BY <1>2 DEF Over, Waiting, Running
<1>11. Landings'
  BY <1>1, <1>2, <1>10, LandingsKept
<1>. QED  BY <1>7, <1>8, <1>9, <1>11 DEF ExecutorInv
-----------------------------------------------------------------------------
(***************************************************************************)
(* The theorems.                                                           *)
(***************************************************************************)
LEMMA ExecutorInit == Init => ExecutorInv
<1>. SUFFICES ASSUME Init PROVE ExecutorInv
  OBVIOUS
<1>1. /\ Other \notin Ticket /\ ChanCapacity \in Nat /\ QueueCapacity \in Nat
      /\ Retained \subseteq Ticket
  BY ExecutorConstants
<1>2. TypeOK
  <2>1. /\ << >> \in Seq(Ticket) /\ << >> \in Seq(Ticket \cup {Other})
        /\ Len(<< >>) = 0 /\ 0 <= ChanCapacity /\ 0 <= QueueCapacity
    BY <1>1
  <2>2. /\ [w \in Worker |-> << >>] \in [Worker -> Seq(Ticket)]
        /\ [t \in Ticket |-> 0] \in [Ticket -> Nat]
        /\ [w \in Worker |-> NoJob] \in [Worker -> Ticket \cup {NoJob}]
        /\ [w \in Worker |-> "retry"] \in
             [Worker -> {"retry", "resend", "take", "willWait", "waiting",
                         "run", "report", "exited"}]
    BY <2>1
  <2>. QED  BY <2>1, <2>2 DEF Init, TypeOK
<1>3. /\ Waiting = {} /\ InHand = {} /\ BeingResent = {} /\ Parked = {}
      /\ InChannel = {} /\ Got = {}
  BY <1>1, Empty DEF Init, Waiting, InHand, BeingResent, Parked, InChannel, Got, NoJob
<1>4. Unique
  <2>1. ResentApart(retried)
    BY Empty DEF Init, ResentApart
  <2>. QED  BY <1>1, <2>1, Empty DEF Init, Unique, NoJob
<1>5. Placed
  BY <1>3 DEF Placed, Apart
<1>6. Threads
  BY <1>1 DEF Init, Threads, NoJob
<1>7. Landings
  <2>1. ASSUME NEW t \in Retained PROVE Landed(t) = 0
    <3>1. Landed(t) = collected[t] + Records(completed, t)
      BY DEF Landed, Records
    <3>2. collected[t] = 0 /\ Records(completed, t) = 0
      BY <1>1, NoRecords DEF Init
    <3>. QED  BY <3>1, <3>2
  <2>2. Over = {}
    BY DEF Init, Over
  <2>. QED  BY <2>1, <2>2 DEF Landings
<1>. QED  BY <1>2, <1>4, <1>5, <1>6, <1>7 DEF ExecutorInv

LEMMA ExecutorStep ==
  ASSUME ExecutorInv, [Next]_vars
  PROVE  ExecutorInv'
<1>1. CASE \/ \E w \in Worker : Wait(w) \/ SpuriousWakeup(w)
           \/ NotifyOne \/ NotifyAll \/ Joined \/ Shutdown \/ DropReceiver
  BY <1>1, IdleSteps
<1>2. CASE \E w \in Worker : RetryParked(w)
  BY <1>2, RetryParkedKeeps
<1>3. CASE \E w \in Worker : Resend(w)
  BY <1>3, ResendKeeps
<1>4. CASE \E w \in Worker : Take(w)
  BY <1>4, TakeKeeps
<1>5. CASE \E w \in Worker : Run(w)
  BY <1>5, RunKeeps
<1>6. CASE \E w \in Worker : Report(w)
  BY <1>6, ReportKeeps
<1>7. CASE \E t \in Ticket : TrySubmit(t)
  BY <1>7, TrySubmitKeeps
<1>8. CASE \E t \in Ticket : CancelTicket(t)
  BY <1>8, CancelTicketKeeps
<1>9. CASE DrainCompleted
  BY <1>9, DrainCompletedKeeps
<1>10. CASE Receive
  BY <1>10, ReceiveKeeps
<1>11. CASE OtherCommand
  BY <1>11, OtherCommandKeeps
<1>12. CASE UNCHANGED vars
  <2>1. TypeOK' /\ Unique' /\ Threads'
    BY <1>12 DEF vars, ExecutorInv, TypeOK, Unique, Threads
  <2>2. Placed'
    BY <1>12 DEF vars, ExecutorInv, Placed, Waiting, Got, InHand, BeingResent,
                 Parked, InChannel
  <2>3. Over' = Over
    BY <1>12 DEF vars, Over, Waiting, Running
  <2>4. Landings'
    BY <1>12, <2>3, LandingsKept DEF vars, ExecutorInv
  <2>. QED  BY <2>1, <2>2, <2>4 DEF ExecutorInv
<1>. QED  BY <1>1, <1>2, <1>3, <1>4, <1>5, <1>6, <1>7, <1>8, <1>9, <1>10,
             <1>11, <1>12 DEF Next, WorkerStep

\* The invariant is inductive: a ticket is in one place at a time, whichever
\* way the threads interleave and however full the channel is.
THEOREM ExecutorInvariant == Spec => []ExecutorInv
<1>. QED  BY ExecutorInit, ExecutorStep, PTL DEF Spec

\* A job is in one place at a time and its completion reaches the scheduler at
\* most once; a cancelled one is nowhere, and exited workers leave nothing.
THEOREM Reported == Spec => []ReportedOnce
<1>1. ASSUME ExecutorInv PROVE ReportedOnce
  <2>1. TypeOK /\ Unique /\ Placed /\ Threads
    BY <1>1 DEF ExecutorInv
  <2>2. ASSUME NEW t \in Ticket
        PROVE  Cardinality({p \in {"queue", "hand", "resent", "parked", "channel", "got"} :
                 \/ p = "queue" /\ Queued(queue, t)
                 \/ p = "hand" /\ t \in InHand
                 \/ p = "resent" /\ t \in BeingResent
                 \/ p = "parked" /\ t \in Parked
                 \/ p = "channel" /\ t \in InChannel
                 \/ p = "got" /\ delivered[t] > 0}) <= (IF t \in cancelled THEN 0 ELSE 1)
    <3>. DEFINE S == {p \in {"queue", "hand", "resent", "parked", "channel", "got"} :
                       \/ p = "queue" /\ Queued(queue, t)
                       \/ p = "hand" /\ t \in InHand
                       \/ p = "resent" /\ t \in BeingResent
                       \/ p = "parked" /\ t \in Parked
                       \/ p = "channel" /\ t \in InChannel
                       \/ p = "got" /\ delivered[t] > 0}
    <3>1. /\ Queued(queue, t) <=> t \in Waiting
          /\ delivered[t] > 0 <=> t \in Got
      BY DEF Waiting, Got
    <3>2. ASSUME NEW p \in S, NEW r \in S PROVE p = r
      BY <2>1, <3>1 DEF Placed, Apart
    <3>3. t \in cancelled => S = {}
      BY <2>1, <3>1 DEF Placed, Apart
    <3>. HIDE DEF S
    <3>4. CASE S = {}
      BY <3>4, FS_EmptySet DEF S
    <3>5. CASE S # {}
      <4>1. PICK p : S = {p}
        BY <3>2, <3>5
      <4>2. Cardinality(S) = 1
        BY <4>1, FS_Singleton
      <4>. QED  BY <3>3, <3>5, <4>2 DEF S
    <3>. QED  BY <3>4, <3>5
  <2>3. (\A w \in Worker : pc[w] = "exited") =>
          queue = << >> /\ InHand = {} /\ BeingResent = {}
    <3>. SUFFICES ASSUME \A w \in Worker : pc[w] = "exited"
                  PROVE  queue = << >> /\ InHand = {} /\ BeingResent = {}
      OBVIOUS
    <3>1. queue = << >>
      BY <2>1, ExecutorConstants DEF Threads
    <3>2. \A w \in Worker : job[w] \notin Ticket /\ retried[w] = << >>
      BY <2>1 DEF Threads
    <3>. QED  BY <3>1, <3>2, Empty DEF InHand, BeingResent
  <2>. QED  BY <2>1, <2>2, <2>3 DEF ReportedOnce, Unique
<1>. QED  BY <1>1, ExecutorInvariant, PTL

\* A job with leases that is neither queued nor in a worker's hands has handed
\* them back exactly once, also when it was cancelled before dispatch.
THEOREM LeasesBack == Spec => []LeasesHandedBackOnce
<1>1. ASSUME ExecutorInv PROVE LeasesHandedBackOnce
  <2>. SUFFICES ASSUME NEW t \in Retained
                PROVE  /\ Landed(t) <= 1
                       /\ t \in accepted /\ ~ Queued(queue, t) /\ t \notin InHand
                            => Landed(t) = 1
    BY DEF LeasesHandedBackOnce
  <2>1. Landed(t) = (IF t \in Over THEN 1 ELSE 0)
    BY <1>1 DEF ExecutorInv, Landings
  <2>2. t \in accepted /\ ~ Queued(queue, t) /\ t \notin InHand => t \in Over
    BY DEF Over, Waiting, Running, InHand
  <2>. QED  BY <2>1, <2>2
<1>. QED  BY <1>1, ExecutorInvariant, PTL
-----------------------------------------------------------------------------
(***************************************************************************)
(* The threads implement the lane.                                         *)
(***************************************************************************)
LEMMA LaneDroppedIs ==
  ASSUME TypeOK
  PROVE  LaneDropped = accepted \ (Waiting \cup LaneStarted \cup LaneSent)
BY DEF LaneDropped, Waiting, TypeOK

\* A step that moves no ticket, or only within a part of the lane.
LEMMA LaneStutters ==
  ASSUME ExecutorInv, ExecutorInv', queue' = queue, accepted' = accepted,
         InHand' \cup BeingResent' \cup Parked' = InHand \cup BeingResent \cup Parked,
         InChannel' \cup Got' = InChannel \cup Got
  PROVE  UNCHANGED Lane!vars
<1>1. LaneStarted' = LaneStarted /\ LaneSent' = LaneSent
  BY DEF LaneStarted, LaneSent, Got
<1>2. LaneDropped' = LaneDropped
  BY <1>1 DEF LaneDropped
<1>. QED  BY <1>1, <1>2 DEF Lane!vars

\* A report that is sent or given up ends what the lane has started.
LEMMA LaneSends ==
  ASSUME ExecutorInv, ExecutorInv', queue' = queue, accepted' = accepted,
         NEW t,
         \/ t \in InHand /\ Handed(InHand \ {t}, BeingResent, t)
         \/ t \in BeingResent /\ Handed(InHand, BeingResent \ {t}, t)
  PROVE  [Lane!Next]_(Lane!vars)
<1>1. TypeOK /\ Placed /\ TypeOK' /\ t \in Ticket
  BY DEF ExecutorInv, InHand, BeingResent
<1>2. /\ t \in LaneStarted /\ t \notin Waiting /\ t \notin Parked
      /\ t \notin LaneSent /\ t \in accepted
  BY <1>1 DEF LaneStarted, LaneSent, Placed, Apart, Got
<1>3. InHand \cap BeingResent = {}
  BY <1>1 DEF Placed, Apart
<1>4. /\ LaneDropped = accepted \ (Waiting \cup LaneStarted \cup LaneSent)
      /\ LaneDropped' = accepted' \ (Waiting' \cup LaneStarted' \cup LaneSent')
  <2>1. TypeOK' => LaneDropped' = accepted' \ (Waiting' \cup LaneStarted' \cup LaneSent')
    BY DEF LaneDropped, Waiting, TypeOK
  <2>. QED  BY <1>1, <2>1, LaneDroppedIs
<1>5. CASE Parked' = Parked \cup {t} /\ InChannel' = InChannel /\ Got' = Got
           /\ InHand' \cup BeingResent' = (InHand \cup BeingResent) \ {t}
  <2>1. InHand' \cup BeingResent' \cup Parked' = InHand \cup BeingResent \cup Parked
    BY <1>5
  <2>2. InChannel' \cup Got' = InChannel \cup Got
    BY <1>5
  <2>. QED  BY <2>1, <2>2, LaneStutters
<1>6. CASE /\ Waiting' = Waiting /\ Parked' = Parked /\ Got' = Got
           /\ InHand' \cup BeingResent' = (InHand \cup BeingResent) \ {t}
           /\ InChannel' = InChannel \cup {t}
  <2>1. LaneStarted' = LaneStarted \ {t} /\ LaneSent' = LaneSent \cup {t}
    BY <1>2, <1>6 DEF LaneStarted, LaneSent, Got
  <2>2. LaneDropped' = LaneDropped
    BY <1>2, <1>4, <1>6, <2>1
  <2>3. Lane!Send(t)
    BY <1>2, <2>1, <2>2 DEF Lane!Send
  <2>. QED  BY <1>1, <2>3 DEF Lane!Next
<1>7. CASE /\ Waiting' = Waiting /\ Parked' = Parked /\ Got' = Got
           /\ InHand' \cup BeingResent' = (InHand \cup BeingResent) \ {t}
           /\ InChannel' = InChannel
  <2>1. LaneStarted' = LaneStarted \ {t} /\ LaneSent' = LaneSent
    BY <1>2, <1>7 DEF LaneStarted, LaneSent, Got
  <2>2. LaneDropped' = LaneDropped \cup {t}
    BY <1>2, <1>4, <1>7, <2>1
  <2>3. Lane!Send(t)
    BY <1>2, <2>1, <2>2 DEF Lane!Send
  <2>. QED  BY <1>1, <2>3 DEF Lane!Next
<1>8. /\ Waiting' = Waiting /\ Got' = Got
      /\ InHand' \cup BeingResent' = (InHand \cup BeingResent) \ {t}
      /\ \/ Parked' = Parked \cup {t} /\ InChannel' = InChannel
         \/ Parked' = Parked /\ InChannel' = InChannel \cup {t}
         \/ Parked' = Parked /\ InChannel' = InChannel
  BY <1>3 DEF Handed, Moved
<1>. QED  BY <1>5, <1>6, <1>7, <1>8

LEMMA LaneStep ==
  ASSUME ExecutorInv, ExecutorInv', [Next]_vars
  PROVE  [Lane!Next]_(Lane!vars)
<1>1. TypeOK /\ Placed /\ TypeOK'
  BY DEF ExecutorInv
<1>2. /\ LaneDropped = accepted \ (Waiting \cup LaneStarted \cup LaneSent)
      /\ LaneDropped' = accepted' \ (Waiting' \cup LaneStarted' \cup LaneSent')
  <2>1. TypeOK' => LaneDropped' = accepted' \ (Waiting' \cup LaneStarted' \cup LaneSent')
    BY DEF LaneDropped, Waiting, TypeOK
  <2>. QED  BY <1>1, <2>1, LaneDroppedIs
<1>3. ASSUME Stays, queue' = queue, accepted' = accepted
      PROVE  [Lane!Next]_(Lane!vars)
  <2>1. /\ InHand' \cup BeingResent' \cup Parked' = InHand \cup BeingResent \cup Parked
        /\ InChannel' \cup Got' = InChannel \cup Got
    BY <1>3 DEF Stays, Moved
  <2>. QED  BY <1>3, <2>1, LaneStutters
<1>4. CASE \/ \E w \in Worker : Wait(w) \/ SpuriousWakeup(w)
           \/ NotifyOne \/ NotifyAll \/ Joined \/ Shutdown \/ DropReceiver
  <2>1. Stays
    BY <1>4, IdleSteps
  <2>2. queue' = queue /\ accepted' = accepted
    BY <1>4 DEF Wait, SpuriousWakeup, NotifyOne, NotifyAll, Joined, Shutdown, DropReceiver
  <2>. QED  BY <1>3, <2>1, <2>2
<1>5. ASSUME NEW w \in Worker, RetryParked(w)
      PROVE  [Lane!Next]_(Lane!vars)
  <2>1. Moved(Waiting, InHand, BeingResent \cup Parked, {}, InChannel, Got)
    BY <1>5, RetryParkedKeeps
  <2>2. /\ InHand' \cup BeingResent' \cup Parked' = InHand \cup BeingResent \cup Parked
        /\ InChannel' \cup Got' = InChannel \cup Got
    BY <2>1 DEF Moved
  <2>3. queue' = queue /\ accepted' = accepted
    BY <1>5 DEF RetryParked
  <2>. QED  BY <2>2, <2>3, LaneStutters
<1>6. ASSUME NEW w \in Worker, Resend(w)
      PROVE  [Lane!Next]_(Lane!vars)
  <2>1. Stays \/ \E t \in BeingResent : Handed(InHand, BeingResent \ {t}, t)
    BY <1>6, ResendKeeps
  <2>2. queue' = queue /\ accepted' = accepted
    BY <1>6 DEF Resend
  <2>. QED  BY <1>3, <2>1, <2>2, LaneSends
<1>7. ASSUME NEW w \in Worker, Take(w)
      PROVE  [Lane!Next]_(Lane!vars)
  <2>1. accepted' = accepted
    BY <1>7 DEF Take
  <2>2. CASE Stays /\ queue' = queue
    BY <1>3, <2>1, <2>2
  <2>3. CASE /\ queue # << >> /\ queue' = Tail(queue) /\ Head(queue) \in Waiting
             /\ Moved(Waiting \ {Head(queue)}, InHand \cup {Head(queue)},
                      BeingResent, Parked, InChannel, Got)
    <3>. DEFINE h == Head(queue)
    <3>1. LaneStarted' = LaneStarted \cup {h} /\ LaneSent' = LaneSent
      BY <2>3 DEF Moved, LaneStarted, LaneSent, Got
    <3>2. LaneDropped' = LaneDropped
      BY <1>2, <2>1, <2>3, <3>1 DEF Moved
    <3>3. Lane!Start
      BY <2>3, <3>1, <3>2 DEF Lane!Start
    <3>. QED  BY <3>3 DEF Lane!Next
  <2>. QED  BY <1>7, <2>2, <2>3, TakeKeeps
<1>8. ASSUME NEW w \in Worker, Run(w)
      PROVE  [Lane!Next]_(Lane!vars)
  <2>1. queue' = queue /\ accepted' = accepted
    BY <1>8 DEF Run
  <2>. QED  BY <1>3, <1>8, <2>1, RunKeeps
<1>9. ASSUME NEW w \in Worker, Report(w)
      PROVE  [Lane!Next]_(Lane!vars)
  <2>1. queue' = queue /\ accepted' = accepted
    BY <1>9 DEF Report
  <2>2. \E t \in InHand : Handed(InHand \ {t}, BeingResent, t)
    BY <1>9, ReportKeeps
  <2>. QED  BY <2>1, <2>2, LaneSends
<1>10. ASSUME NEW t \in Ticket, TrySubmit(t)
       PROVE  [Lane!Next]_(Lane!vars)
  <2>1. Moved(Waiting \cup {t}, InHand, BeingResent, Parked, InChannel, Got)
    BY <1>10, TrySubmitKeeps
  <2>2. /\ t \notin accepted /\ accepted' = accepted \cup {t}
        /\ queue' = Append(queue, t) /\ Len(queue) < QueueCapacity
    BY <1>10 DEF TrySubmit
  <2>3. /\ t \notin Waiting /\ t \notin LaneStarted /\ t \notin LaneSent
        /\ t \notin LaneDropped
    BY <1>1, <1>2, <2>2 DEF Placed, Apart, LaneStarted, LaneSent, Got
  <2>4. LaneStarted' = LaneStarted /\ LaneSent' = LaneSent
    BY <2>1 DEF Moved, LaneStarted, LaneSent, Got
  <2>5. LaneDropped' = LaneDropped
    BY <1>2, <2>1, <2>2, <2>4 DEF Moved
  <2>6. Lane!Fresh(t)
    BY <2>3 DEF Lane!Fresh, Lane!Queued, Waiting, Queued
  <2>7. Lane!Accept(t)
    BY <2>2, <2>4, <2>5, <2>6 DEF Lane!Accept
  <2>. QED  BY <2>7 DEF Lane!Next
<1>11. ASSUME NEW t \in Ticket, CancelTicket(t)
       PROVE  [Lane!Next]_(Lane!vars)
  <2>1. /\ t \in Waiting
        /\ Moved(Waiting \ {t}, InHand, BeingResent, Parked, InChannel, Got)
    BY <1>11, CancelTicketKeeps
  <2>2. /\ Queued(queue, t) /\ queue' = Retain(queue, t) /\ accepted' = accepted
    BY <1>11 DEF CancelTicket
  <2>3. LaneStarted' = LaneStarted /\ LaneSent' = LaneSent
    BY <2>1 DEF Moved, LaneStarted, LaneSent, Got
  <2>4. t \in accepted /\ t \notin LaneStarted /\ t \notin LaneSent
    BY <1>1, <2>1 DEF Placed, Apart, LaneStarted, LaneSent, Got
  <2>5. LaneDropped' = LaneDropped \cup {t}
    BY <1>2, <2>1, <2>2, <2>3, <2>4 DEF Moved
  <2>6. Lane!Queued(queue, t) /\ queue' = Lane!Retain(queue, t)
    BY <2>2 DEF Lane!Queued, Queued, Lane!Retain, Retain
  <2>7. Lane!Revoke(t)
    BY <2>3, <2>5, <2>6 DEF Lane!Revoke
  <2>. QED  BY <2>7 DEF Lane!Next
<1>12. CASE DrainCompleted
  <2>1. queue' = queue /\ accepted' = accepted
    BY <1>12 DEF DrainCompleted
  <2>. QED  BY <1>3, <1>12, <2>1, DrainCompletedKeeps
<1>13. CASE Receive
  <2>1. queue' = queue /\ accepted' = accepted
    BY <1>13 DEF Receive
  <2>2. CASE Stays
    BY <1>3, <2>1, <2>2
  <2>3. CASE \E t \in InChannel :
               Moved(Waiting, InHand, BeingResent, Parked, InChannel \ {t}, Got \cup {t})
    <3>1. /\ InHand' \cup BeingResent' \cup Parked' = InHand \cup BeingResent \cup Parked
          /\ InChannel' \cup Got' = InChannel \cup Got
      BY <2>3 DEF Moved
    <3>. QED  BY <2>1, <3>1, LaneStutters
  <2>. QED  BY <1>13, <2>2, <2>3, ReceiveKeeps
<1>14. CASE OtherCommand
  <2>1. queue' = queue /\ accepted' = accepted
    BY <1>14 DEF OtherCommand
  <2>. QED  BY <1>3, <1>14, <2>1, OtherCommandKeeps
<1>15. CASE UNCHANGED vars
  <2>1. Stays /\ queue' = queue /\ accepted' = accepted
    BY <1>15 DEF vars, Stays, Moved, Waiting, InHand, BeingResent, Parked, InChannel, Got
  <2>. QED  BY <1>3, <2>1
<1>. QED  BY <1>4, <1>5, <1>6, <1>7, <1>8, <1>9, <1>10, <1>11, <1>12, <1>13,
             <1>14, <1>15 DEF Next, WorkerStep

\* Every step of the threads is a step of the abstract lane or leaves it as it
\* is: the queue is first in first out and bounded, a ticket enters it once,
\* leaves it by a worker or a cancellation, and is reported at most once.
THEOREM Implements == Spec => ImplementsLane
<1>1. Init => Lane!Init
  <2>. SUFFICES ASSUME Init PROVE Lane!Init
    OBVIOUS
  <2>1. Other \notin Ticket
    BY ExecutorConstants
  <2>2. LaneStarted = {} /\ LaneSent = {}
    BY <2>1, Empty DEF Init, LaneStarted, LaneSent, InHand, BeingResent, Parked,
                       InChannel, NoJob
  <2>3. LaneDropped = {}
    BY DEF Init, LaneDropped
  <2>. QED  BY <2>2, <2>3 DEF Init, Lane!Init
<1>2. ExecutorInv /\ ExecutorInv' /\ [Next]_vars => [Lane!Next]_(Lane!vars)
  BY LaneStep
<1>. QED  BY <1>1, <1>2, ExecutorInvariant, PTL DEF Spec, ImplementsLane, Lane!Spec
=============================================================================
