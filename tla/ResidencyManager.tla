-------------------------- MODULE ResidencyManager --------------------------
(***************************************************************************)
(* ResidencyManager with the parties that call it: sessions that ask for   *)
(* experts, hold leases on them and release them, and a loader that        *)
(* reports each load, perhaps more than once and perhaps after every       *)
(* waiter has given up.                                                    *)
(***************************************************************************)
EXTENDS ResidencyOps

CONSTANT Size   \* sizes a load may have

ASSUME SizeAssumption == Size \subseteq Nat

VARIABLES
  waiting,   \* sessions that were answered Started or Joined for a load and
             \* neither were woken nor cancelled
  granted,   \* leases handed out and not yet given back by their holder
  seen       \* the newest generation of each key that was ever published

vars == << mgr, waiting, granted, seen >>

Init ==
  /\ mgr = NewManager
  /\ waiting = [l \in LoadId |-> {}]
  /\ granted = {}
  /\ seen = [k \in Key |-> NoGen]

\* begin_load answers AlreadyResident.
DoBeginHit(k) ==
  /\ mgr.st[k] = "Resident"
  /\ mgr' = BeginHit(mgr, k)
  /\ UNCHANGED << waiting, granted, seen >>

\* begin_load answers Joined; a different size is an error without effect.
DoBeginJoin(k, bytes, w) ==
  /\ mgr.st[k] = "Loading"
  /\ mgr.bytes[k] = bytes
  /\ mgr' = BeginJoin(mgr, k, w)
  /\ waiting' = [waiting EXCEPT ![mgr.load[k]] = @ \cup {w}]
  /\ UNCHANGED << granted, seen >>

\* begin_load answers Started, or BudgetExceeded.
DoBeginStart(k, bytes, w) ==
  /\ mgr.st[k] \in {"Absent", "Failed"}
  /\ mgr.nextLoad < MaxLoads
  /\ mgr' = BeginStart(mgr, k, bytes, w)
  /\ waiting' = IF SpaceFound(mgr, PoolOf[k], bytes)
                THEN [waiting EXCEPT ![mgr.nextLoad] = {w}] ELSE waiting
  /\ UNCHANGED << granted, seen >>

\* The loader reports a load it was given, possibly again.
DoCompleteLoad(l, ok) ==
  LET wakes == IF Accepted(mgr, l) THEN mgr.waiters[mgr.loads[l]] ELSE {}
      leases == IF ok THEN FreshLeases(mgr, Cardinality(wakes)) ELSE {}
  IN  /\ l < mgr.nextLoad
      /\ leases \subseteq LeaseId
      /\ mgr' = CompleteLoad(mgr, l, ok)
      /\ waiting' = [waiting EXCEPT ![l] = @ \ wakes]
      /\ granted' = granted \cup leases
      /\ seen' = IF ok /\ Accepted(mgr, l)
                 THEN [seen EXCEPT ![mgr.loads[l]] = mgr'.gen[mgr.loads[l]]]
                 ELSE seen

DoCancelWaiter(l, w) ==
  /\ l < mgr.nextLoad
  /\ mgr' = CancelWaiter(mgr, l, w)
  /\ waiting' = [waiting EXCEPT ![l] = @ \ {w}]
  /\ UNCHANGED << granted, seen >>

DoAcquire(k) ==
  /\ mgr.st[k] = "Resident"
  /\ mgr.nextLease < MaxLeases
  /\ mgr' = Acquire(mgr, k)
  /\ granted' = granted \cup {mgr.nextLease}
  /\ UNCHANGED << waiting, seen >>

\* A holder gives a lease back; a clone of it may be given back again later.
DoRelease(l) ==
  /\ l < mgr.nextLease
  /\ mgr' = Release(mgr, l)
  /\ granted' = granted \ {l}
  /\ UNCHANGED << waiting, seen >>

DoEvict(p) ==
  /\ mgr' = Evict(mgr, p, LruVictim(mgr, p))
  /\ UNCHANGED << waiting, granted, seen >>

Next ==
  \/ \E k \in Key : DoBeginHit(k) \/ DoAcquire(k)
  \/ \E k \in Key, bytes \in Size, w \in Waiter :
       DoBeginJoin(k, bytes, w) \/ DoBeginStart(k, bytes, w)
  \/ \E l \in LoadId, ok \in BOOLEAN : DoCompleteLoad(l, ok)
  \/ \E l \in LoadId, w \in Waiter : DoCancelWaiter(l, w)
  \/ \E l \in LeaseId : DoRelease(l)
  \/ \E p \in Pool : DoEvict(p)

Spec == Init /\ [][Next]_vars

\* The loader reports every load in the end, whatever became of its waiters.
FairSpec ==
  Spec /\ \A l \in LoadId : WF_vars(\E ok \in BOOLEAN : DoCompleteLoad(l, ok))
-----------------------------------------------------------------------------
\* Every field holds a value of its type.
TypeOK ==
  /\ mgr \in ManagerType
  /\ waiting \in [LoadId -> SUBSET Waiter]
  /\ granted \in SUBSET LeaseId
  /\ seen \in [Key -> Nat \cup {NoGen}]

\* The hard budget of assert_invariants, and why it can be trusted: resident
\* bytes plus the bytes reserved for loads in flight never exceed a pool's
\* budget, and the running counters equal what the entries add up to, so that
\* neither a late completion nor an eviction leaks budget or frees it twice.
AccountingExact ==
  \A p \in Pool :
    /\ mgr.resident[p] + mgr.reserved[p] <= Budget[p]
    /\ mgr.resident[p] = SumBytes(mgr, InPool(mgr, p, "Resident"))
    /\ mgr.reserved[p] = SumBytes(mgr, InPool(mgr, p, "Loading"))
    /\ mgr.pinned[p] =
         SumBytes(mgr, {k \in InPool(mgr, p, "Resident") : mgr.pins[k] > 0})

\* A lease pins its generation: while a holder has not given a lease back, its
\* key stays resident at exactly the generation the lease names, however much
\* room other loads need.  The pin count is the number of leases still held, so
\* one given back twice does not unpin an expert that others still read.
LeasePinsGeneration ==
  /\ \A l \in granted :
       /\ mgr.leaseKey[l] \in Key
       /\ mgr.st[mgr.leaseKey[l]] = "Resident"
       /\ mgr.gen[mgr.leaseKey[l]] = mgr.leaseGen[l]
  /\ \A k \in Key :
       mgr.pins[k] = Cardinality({l \in granted : mgr.leaseKey[l] = k})

\* A generation is never published twice for a key, also when the key was
\* evicted in between, so a lease or a backend that remembers an old generation
\* cannot be taken for a user of a new one.
GenerationsFresh ==
  [][\A k \in Key :
       mgr'.gen[k] \notin {mgr.gen[k], NoGen} => mgr'.gen[k] > seen[k]]_vars

\* Only the least recently used unpinned entries go: whatever a step evicts
\* was touched before every unpinned resident entry of its pool that it keeps.
EvictsLeastRecent ==
  [][\A k, x \in Key, i, j \in 1 .. Len(mgr.recency) :
       /\ k = mgr.recency[i] /\ x = mgr.recency[j]
       /\ PoolOf[k] = PoolOf[x]
       /\ mgr.st[k] = "Resident" /\ mgr'.st[k] # "Resident"
       /\ mgr.st[x] = "Resident" /\ mgr.pins[x] = 0 /\ mgr'.st[x] = "Resident"
       => i < j]_vars

\* Every session that waits for a load is woken or has cancelled in the end.
WaitersWoken == \A l \in LoadId : waiting[l] # {} ~> waiting[l] = {}
=============================================================================
