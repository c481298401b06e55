------------------------------- MODULE Accel --------------------------------
(***************************************************************************)
(* Accel (logan-core/src/sched/accel.rs) with the two state machines it    *)
(* composes: a submission pins every expert generation its action refers   *)
(* to before the core issues a ticket, and only the backend's native       *)
(* completion unpins them.  Around it are the sessions' lifecycle calls,   *)
(* the loader, evictions, and a backend that reports each ticket once or   *)
(* more, long after its session may have been cancelled.                   *)
(*                                                                         *)
(* Target validation against the DeviceRegistry has no effect when it      *)
(* fails; a submission here is one that passed it.                         *)
(***************************************************************************)
EXTENDS SchedCoreOps, ResidencyOps

CONSTANTS References   \* AccelAction::references: sequences of keys

ASSUME AccelConstants == References \subseteq Seq(Key)

VARIABLES
  inflight,  \* Accel::inflight: the leases retained by each ticket
  native,    \* tickets whose native completion has not been processed
  reads,     \* the generations the backend was given with each ticket
  borrowed   \* leases that loads handed to the sessions waiting for them

accelVars == << core, mgr, inflight, native, reads, borrowed >>

\* The ticket has no record in the inflight map.
None == << NoGen >>

AccelInit ==
  /\ core = NewCore
  /\ mgr = NewManager
  /\ inflight = [t \in Ticket |-> None]
  /\ native = {}
  /\ reads = [t \in Ticket |-> {}]
  /\ borrowed = {}
-----------------------------------------------------------------------------
\* How many references acquire pins before it meets one that is not resident.
Pinnable(ks) ==
  Cardinality({n \in 1 .. Len(ks) : \A i \in 1 .. n : mgr.st[ks[i]] = "Resident"})

\* The manager after the first n references were acquired, for each n.
Acquires(m, ks) ==
  LET F[n \in 0 .. Len(ks)] == IF n = 0 THEN m ELSE Acquire(F[n - 1], ks[n])
  IN  F

LeasesOf(m, n) == [i \in 1 .. n |-> m.nextLease + i - 1]

\* The manager after the first n leases were released, for each n.
Releases(m, ls) ==
  LET F[n \in 0 .. Len(ls)] == IF n = 0 THEN m ELSE Release(F[n - 1], ls[n])
  IN  F

\* Mutant: a rejected submission keeps the leases it had acquired.
Rollback_MLeak(m, ls) == m

\* Every lease is released, whatever became of the ones before it.
Rollback(m, ls) == Releases(m, ls)[Len(ls)]

\* The leases that can be released before one that cannot ends the loop.
Retired(m, ls) ==
  Cardinality({n \in 1 .. Len(ls) :
                 \A i \in 1 .. n : Releasable(Releases(m, ls)[i - 1], ls[i])})

\* Accel::submit.  A missing reference or a rejection by the core rolls the
\* pins back; their touches and the lease ids they used up remain.
Submission(s, ks) ==
  LET pins == Pinnable(ks)
      leases == LeasesOf(mgr, pins)
      m == Acquires(mgr, ks)[pins]
      t == core.nextTicket
  IN  /\ core.state[s] # "Absent"
      /\ t < MaxTickets
      /\ mgr.nextLease + pins <= MaxLeases
      /\ IF pins < Len(ks) \/ ~ SubmitAllowed(core, s)
         THEN /\ mgr' = Rollback(m, leases)
              /\ UNCHANGED << core, inflight, native, reads >>
         ELSE /\ core' = Submit(core, s)
              /\ mgr' = m
              /\ inflight' = [inflight EXCEPT ![t] = leases]
              /\ native' = native \cup {t}
              /\ reads' = [reads EXCEPT ![t] =
                            {<< ks[i], mgr.gen[ks[i]] >> : i \in 1 .. Len(ks)}]
      /\ UNCHANGED borrowed

\* Accel::complete: the retained leases go back and the core is told, unless a
\* lease could not be released.  Duplicate reports find no record.
Completion(t, ok) ==
  LET leases == IF inflight[t] = None THEN << >> ELSE inflight[t]
      n == Retired(mgr, leases)
  IN  /\ t < core.nextTicket
      /\ native' = native \ {t}
      /\ mgr' = Releases(mgr, leases)[n]
      /\ inflight' = [inflight EXCEPT ![t] = None]
      /\ core' = IF n = Len(leases) THEN Complete(core, t, ok).core ELSE core
      /\ UNCHANGED << reads, borrowed >>

\* Mutant: cancel_ticket hands the leases back.
Lifecycle_MCancelReleases(s) ==
  /\ core.state[s] # "Absent"
  /\ core' = Cancel(core, s).core
  /\ core' # core
  /\ LET S == core.owned[s]
         F[n \in 0 .. MaxTickets] ==
           IF n = 0 THEN mgr
           ELSE IF n - 1 \in S THEN Rollback(F[n - 1], inflight[n - 1])
           ELSE F[n - 1]
     IN  /\ mgr' = F[MaxTickets]
         /\ inflight' = [t \in Ticket |-> IF t \in S THEN None ELSE inflight[t]]
  /\ UNCHANGED << native, reads, borrowed >>

\* The session's lifecycle calls.  For every ticket they revoke the driver
\* calls cancel_ticket, which deliberately leaves the leases alone.
Lifecycle(s) ==
  /\ core.state[s] # "Absent"
  /\ core' \in {Block(core, s).core, Wake(core, s).core, Cancel(core, s).core,
                Finish(core, s).core, Fail(core, s).core}
  /\ UNCHANGED << mgr, inflight, native, reads, borrowed >>
-----------------------------------------------------------------------------
(***************************************************************************)
(* What else happens to the core and to the residency manager.             *)
(***************************************************************************)
NewSession ==
  /\ core.nextSession < MaxSessions
  /\ core' = CreateSession(core)
  /\ UNCHANGED << mgr, inflight, native, reads, borrowed >>

BeginLoad(k, w) ==
  /\ mgr.st[k] \in {"Absent", "Failed"}
  /\ mgr.nextLoad < MaxLoads
  /\ mgr' = BeginStart(mgr, k, 1, w)
  /\ UNCHANGED << core, inflight, native, reads, borrowed >>

\* A waiter withdraws; the load goes on and may publish without a lease.
Withdraw(l, w) ==
  /\ mgr.loads[l] # NoKey
  /\ mgr' = CancelWaiter(mgr, l, w)
  /\ UNCHANGED << core, inflight, native, reads, borrowed >>

EndLoad(l, ok) ==
  LET wakes == IF Accepted(mgr, l) THEN mgr.waiters[mgr.loads[l]] ELSE {}
      leases == IF ok THEN FreshLeases(mgr, Cardinality(wakes)) ELSE {}
  IN  /\ mgr.loads[l] # NoKey
      /\ leases \subseteq LeaseId
      /\ mgr' = CompleteLoad(mgr, l, ok)
      /\ borrowed' = borrowed \cup leases
      /\ UNCHANGED << core, inflight, native, reads >>

GiveBack(l) ==
  /\ l \in borrowed
  /\ mgr' = Release(mgr, l)
  /\ borrowed' = borrowed \ {l}
  /\ UNCHANGED << core, inflight, native, reads >>

EvictOne(p) ==
  /\ LruVictim(mgr, p) # {}
  /\ mgr' = Evict(mgr, p, LruVictim(mgr, p))
  /\ UNCHANGED << core, inflight, native, reads, borrowed >>

AccelNext ==
  \/ NewSession
  \/ \E s \in SessionId : Lifecycle(s) \/ \E ks \in References : Submission(s, ks)
  \/ \E t \in Ticket, ok \in BOOLEAN : Completion(t, ok)
  \/ \E k \in Key, w \in Waiter : BeginLoad(k, w)
  \/ \E l \in LoadId, w \in Waiter : Withdraw(l, w)
  \/ \E l \in LoadId, ok \in BOOLEAN : EndLoad(l, ok)
  \/ \E l \in LeaseId : GiveBack(l)
  \/ \E p \in Pool : EvictOne(p)

AccelSpec == AccelInit /\ [][AccelNext]_accelVars
-----------------------------------------------------------------------------
Recorded == {t \in Ticket : inflight[t] # None}

\* Every variable holds a value of its type.
AccelTypeOK ==
  /\ core \in CoreType
  /\ mgr \in ManagerType
  /\ inflight \in [Ticket -> Seq(LeaseId) \cup {None}]
  /\ native \in SUBSET Ticket
  /\ reads \in [Ticket -> SUBSET (Key \X Nat)]
  /\ borrowed \in SUBSET LeaseId

\* "the backend may still be reading that generation until its command
\* buffer/event actually completes": as long as a ticket's native completion
\* is outstanding, every expert generation it was given stays resident, also
\* after its session was cancelled, finished or failed by another ticket, and
\* under whatever pressure loads and evictions put on the pool.
BackendReadsPinned ==
  \A t \in native : \A r \in reads[t] :
    mgr.st[r[1]] = "Resident" /\ mgr.gen[r[1]] = r[2]

\* "a rejected submission can never leak a ticket or a lease" and leases are
\* "released exactly once": an expert's pin count is the number of leases that
\* a ticket's record or a waiter still holds on it.  The record lives exactly
\* as long as the ticket's native work, whether or not the core still owns the
\* ticket, and the core never has a live ticket without one.
PinsAccounted ==
  /\ \A k \in Key :
       mgr.pins[k] =
         Cardinality({l \in LeaseId :
           /\ mgr.leaseKey[l] = k
           /\ l \in borrowed \/ \E t \in Recorded :
                                 \E i \in 1 .. Len(inflight[t]) : inflight[t][i] = l})
  /\ Recorded = native
  /\ \A t \in Ticket : core.inflight[t] # NoOwner => t \in native
=============================================================================
