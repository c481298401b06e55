---------------------------- MODULE ResidencyOps ----------------------------
(***************************************************************************)
(* The operations of ResidencyManager (logan-core/src/sched/residency.rs)  *)
(* as operators on a record that holds the fields of the Rust struct.      *)
(*                                                                         *)
(* Abstractions.  An ExpertKey is a value whose only readable part is its  *)
(* pool.  last_touch is used only to find the entry touched longest ago,   *)
(* and every touch takes a fresh clock value, so the clock is replaced by  *)
(* the order of the touches (recency, oldest first).  A lease's owner and  *)
(* an entry's order of waiters are never read.  The event counters of      *)
(* PoolStats (hits, misses, transfers ...) are telemetry and left out.     *)
(* Pools and their budgets are registered at start-up (add_pool).          *)
(*                                                                         *)
(* Definitions whose name contains _M are mutants (see SchedCoreOps).      *)
(***************************************************************************)
EXTENDS Integers, Sequences, FiniteSets, Tally, Queues

CONSTANTS
  Key,        \* expert keys
  NoKey,      \* stands for "no key"
  Pool,       \* memory pools
  PoolOf,     \* ExpertKey::pool
  Budget,     \* budget_bytes of each pool
  Waiter,     \* sessions that ask for experts
  MaxLoads,   \* bound on the loads ever started
  MaxLeases   \* bound on the leases ever granted

ASSUME ResidencyConstants ==
  /\ IsFiniteSet(Key) /\ IsFiniteSet(Waiter)
  /\ NoKey \notin Key
  /\ PoolOf \in [Key -> Pool]
  /\ Budget \in [Pool -> Nat]
  /\ MaxLoads \in Nat
  /\ MaxLeases \in Nat

\* The manager, held by the one component that extends this module.
VARIABLE mgr

LoadId == 0 .. (MaxLoads - 1)
LeaseId == 0 .. (MaxLeases - 1)

NoLoad == -1
NoGen == -1

\* "Absent" is a key without an entry.
EntryState == {"Absent", "Loading", "Resident", "Failed"}

ManagerType ==
  [st        : [Key -> EntryState],
   load      : [Key -> LoadId \cup {NoLoad}],
   gen       : [Key -> Nat \cup {NoGen}],
   bytes     : [Key -> Nat],
   waiters   : [Key -> SUBSET Waiter],
   pins      : [Key -> Nat],
   recency   : Seq(Key),
   loads     : [LoadId -> Key \cup {NoKey}],
   leaseKey  : [LeaseId -> Key \cup {NoKey}],
   leaseGen  : [LeaseId -> Nat \cup {NoGen}],
   nextLoad  : 0 .. MaxLoads,
   nextGen   : [Key -> Nat],
   nextLease : 0 .. MaxLeases,
   resident  : [Pool -> Nat],
   reserved  : [Pool -> Nat],
   pinned    : [Pool -> Nat]]

NewManager ==
  [st        |-> [k \in Key |-> "Absent"],
   load      |-> [k \in Key |-> NoLoad],
   gen       |-> [k \in Key |-> NoGen],
   bytes     |-> [k \in Key |-> 0],
   waiters   |-> [k \in Key |-> {}],
   pins      |-> [k \in Key |-> 0],
   recency   |-> << >>,
   loads     |-> [l \in LoadId |-> NoKey],
   leaseKey  |-> [l \in LeaseId |-> NoKey],
   leaseGen  |-> [l \in LeaseId |-> NoGen],
   nextLoad  |-> 0,
   nextGen   |-> [k \in Key |-> 0],
   nextLease |-> 0,
   resident  |-> [p \in Pool |-> 0],
   reserved  |-> [p \in Pool |-> 0],
   pinned    |-> [p \in Pool |-> 0]]
-----------------------------------------------------------------------------
SatSub(a, b) == IF a >= b THEN a - b ELSE 0

\* The bytes of the entries of S.
SumBytes(m, S) == Tally(m.bytes, S)

InPool(m, p, state) == {k \in Key : PoolOf[k] = p /\ m.st[k] = state}

\* The key takes the newest clock value: it becomes the most recent.
Touch(m, k) == [m EXCEPT !.recency = Append(Without(@, {k}), k)]

RefreshPinned(m, p) ==
  [m EXCEPT !.pinned[p] =
     SumBytes(m, {k \in InPool(m, p, "Resident") : m.pins[k] > 0})]

\* The ids the next n calls of new_lease return.
FreshLeases(m, n) == m.nextLease .. (m.nextLease + n - 1)

\* n calls of new_lease for key k, on the generation it has now.
NewLeases(m, k, n) ==
  LET fresh == FreshLeases(m, n)
  IN  [m EXCEPT
         !.leaseKey = [l \in LeaseId |-> IF l \in fresh THEN k ELSE @[l]],
         !.leaseGen = [l \in LeaseId |-> IF l \in fresh THEN m.gen[k] ELSE @[l]],
         !.nextLease = @ + n]
-----------------------------------------------------------------------------
\* Mutant: leased entries can be evicted.
Evictable_MLeased(m, p) == InPool(m, p, "Resident")

\* What evict may remove: unpinned resident entries of the pool.
Evictable(m, p) == {k \in InPool(m, p, "Resident") : m.pins[k] = 0}

\* Mutant: the generation counter lives in the entry and dies with it.
Evict_MForgetsGeneration(m, p, V) ==
  IF V = {} THEN m
  ELSE [m EXCEPT
          !.st       = [k \in Key |-> IF k \in V THEN "Absent" ELSE @[k]],
          !.gen      = [k \in Key |-> IF k \in V THEN NoGen ELSE @[k]],
          !.nextGen  = [k \in Key |-> IF k \in V THEN 0 ELSE @[k]],
          !.bytes    = [k \in Key |-> IF k \in V THEN 0 ELSE @[k]],
          !.recency  = Without(@, V),
          !.resident[p] = SatSub(@, SumBytes(m, V))]

\* Evict the entries of V.
Evict(m, p, V) ==
  IF V = {} THEN m
  ELSE RefreshPinned(
         [m EXCEPT
            !.st       = [k \in Key |-> IF k \in V THEN "Absent" ELSE @[k]],
            !.load     = [k \in Key |-> IF k \in V THEN NoLoad ELSE @[k]],
            !.gen      = [k \in Key |-> IF k \in V THEN NoGen ELSE @[k]],
            !.bytes    = [k \in Key |-> IF k \in V THEN 0 ELSE @[k]],
            !.recency  = Without(@, V),
            !.resident[p] = SatSub(@, SumBytes(m, V))], p)

\* Mutant: max_by_key for min_by_key.
NoLaterThan_MMostRecent(m, p, k) ==
  LET at(x) == CHOOSE i \in 1 .. Len(m.recency) : m.recency[i] = x
  IN  {x \in Evictable(m, p) : at(x) >= at(k)}

\* Evictable entries touched no later than k: what evict, called again and
\* again, has removed once it removes k.
NoLaterThan(m, p, k) ==
  LET at(x) == CHOOSE i \in 1 .. Len(m.recency) : m.recency[i] = x
  IN  {x \in Evictable(m, p) : at(x) <= at(k)}

Fits(m, p, bytes, V) ==
  SatSub(m.resident[p], SumBytes(m, V)) + m.reserved[p] + bytes <= Budget[p]

\* evict: the least recently used evictable entry, if there is one.
LruVictim(m, p) ==
  {k \in Evictable(m, p) : NoLaterThan(m, p, k) = {k}}

\* The entries the loop of ensure_space evicts: the least recently used ones,
\* no more than it takes, and all of them if even that is not enough.  A
\* request larger than the whole budget is refused before the loop.
Victims(m, p, bytes) ==
  LET enough == {k \in Evictable(m, p) : Fits(m, p, bytes, NoLaterThan(m, p, k))}
  IN  IF bytes > Budget[p] \/ Fits(m, p, bytes, {}) THEN {}
      ELSE IF enough = {} THEN Evictable(m, p)
      ELSE {x \in Evictable(m, p) : \A k \in enough : x \in NoLaterThan(m, p, k)}

SpaceFound(m, p, bytes) ==
  bytes <= Budget[p] /\ Fits(m, p, bytes, Victims(m, p, bytes))
-----------------------------------------------------------------------------
\* begin_load on a resident key is a hit: it is touched and nothing is leased.
BeginHit(m, k) == Touch(m, k)

\* Mutant: the second waiter is not recorded.
BeginJoin_MWaiterDropped(m, k, w) == m

\* begin_load on a loading key of the same size joins the load.
BeginJoin(m, k, w) == [m EXCEPT !.waiters[k] = @ \cup {w}]

\* begin_load on an absent or failed key: make room, then start a load.  The
\* evictions stay done when the room is not found (BudgetExceeded).
BeginStart(m, k, bytes, w) ==
  LET p == PoolOf[k]
      e == Evict(m, p, Victims(m, p, bytes))
      l == m.nextLoad
  IN  IF ~ SpaceFound(m, p, bytes) THEN e
      ELSE Touch([e EXCEPT !.st[k] = "Loading",
                           !.load[k] = l,
                           !.bytes[k] = bytes,
                           !.waiters[k] = {w},
                           !.pins[k] = 0,
                           !.loads[l] = k,
                           !.nextLoad = @ + 1,
                           !.reserved[p] = @ + bytes], k)

\* A completion is accepted when its load is still the one the entry waits for.
Accepted(m, l) ==
  /\ m.loads[l] # NoKey
  /\ m.st[m.loads[l]] = "Loading"
  /\ m.load[m.loads[l]] = l

\* complete_load with LoadResult::Success: publish a generation and hand every
\* waiter a lease on it.
Publish(m, l) ==
  LET k == m.loads[l]
      p == PoolOf[k]
      n == Cardinality(m.waiters[k])
      e == [m EXCEPT !.loads[l] = NoKey,
                     !.reserved[p] = SatSub(@, m.bytes[k]),
                     !.st[k] = "Resident",
                     !.load[k] = NoLoad,
                     !.gen[k] = m.nextGen[k],
                     !.nextGen[k] = @ + 1,
                     !.waiters[k] = {},
                     !.pins[k] = n,
                     !.resident[p] = @ + m.bytes[k]]
  IN  RefreshPinned(NewLeases(Touch(e, k), k, n), p)

\* Mutant: a failed load keeps its reservation.
LoadFails_MReservationKept(m, l) ==
  LET k == m.loads[l]
  IN  [m EXCEPT !.loads[l] = NoKey,
                !.st[k] = "Failed",
                !.load[k] = NoLoad,
                !.waiters[k] = {}]

\* complete_load with Failed, Partial or Cancelled.
LoadFails(m, l) ==
  LET k == m.loads[l]
  IN  [m EXCEPT !.loads[l] = NoKey,
                !.reserved[PoolOf[k]] = SatSub(@, m.bytes[k]),
                !.st[k] = "Failed",
                !.load[k] = NoLoad,
                !.waiters[k] = {}]

\* A stale completion only forgets its load id.
CompleteLoad(m, l, ok) ==
  IF ~ Accepted(m, l) THEN [m EXCEPT !.loads[l] = NoKey]
  ELSE IF ok THEN Publish(m, l) ELSE LoadFails(m, l)

CancelWaiter(m, l, w) ==
  IF m.loads[l] = NoKey THEN m ELSE [m EXCEPT !.waiters[m.loads[l]] = @ \ {w}]

\* acquire on a resident key.
Acquire(m, k) ==
  LET e == Touch(NewLeases([m EXCEPT !.pins[k] = @ + 1], k, 1), k)
  IN  RefreshPinned(e, PoolOf[k])

\* release finds the lease, and its generation is still the resident one.
Releasable(m, l) ==
  /\ m.leaseKey[l] # NoKey
  /\ m.st[m.leaseKey[l]] = "Resident"
  /\ m.gen[m.leaseKey[l]] = m.leaseGen[l]

Release(m, l) ==
  IF ~ Releasable(m, l) THEN m
  ELSE LET k == m.leaseKey[l]
       IN  RefreshPinned([m EXCEPT !.pins[k] = SatSub(@, 1),
                                   !.leaseKey[l] = NoKey,
                                   !.leaseGen[l] = NoGen], PoolOf[k])
=============================================================================
