-------------------------- MODULE ResidencyProofs ---------------------------
(***************************************************************************)
(* The bookkeeping of ResidencyManager, for every number of experts, pools,*)
(* sizes and budgets, and of Accel above it: the leases that tickets keep  *)
(* for the backend, for every number of sessions and tickets.              *)
(***************************************************************************)
EXTENDS ResidencyManager, Accel, HelperProofs

LEMMA KeyFinite == IsFiniteSet(Key)
BY ResidencyConstants

-----------------------------------------------------------------------------
(***************************************************************************)
(* The fields of a manager.  What recency holds is never needed: whichever *)
(* entries it selects for eviction, they are unpinned and resident.        *)
(***************************************************************************)
Typed(m) ==
  m \in [st        : [Key -> EntryState],
         load      : [Key -> LoadId \cup {NoLoad}],
         gen       : [Key -> Nat \cup {NoGen}],
         bytes     : [Key -> Nat],
         waiters   : [Key -> SUBSET Waiter],
         pins      : [Key -> Nat],
         recency   : {m.recency},
         loads     : [LoadId -> Key \cup {NoKey}],
         leaseKey  : [LeaseId -> Key \cup {NoKey}],
         leaseGen  : [LeaseId -> Nat \cup {NoGen}],
         nextLoad  : 0 .. MaxLoads,
         nextGen   : [Key -> Nat],
         nextLease : 0 .. MaxLeases,
         resident  : [Pool -> Nat],
         reserved  : [Pool -> Nat],
         pinned    : [Pool -> Nat]]

\* The resident entries of a pool that are leased.
Held(m, p) == {k \in InPool(m, p, "Resident") : m.pins[k] > 0}

\* AccountingExact for pool p, as a predicate on the manager.
Accounted(m, p) ==
  /\ m.resident[p] + m.reserved[p] <= Budget[p]
  /\ m.resident[p] = Tally(m.bytes, InPool(m, p, "Resident"))
  /\ m.reserved[p] = Tally(m.bytes, InPool(m, p, "Loading"))
  /\ m.pinned[p] = Tally(m.bytes, Held(m, p))

\* A step that leaves the entries of pool p alone leaves its books alone.
LEMMA UntouchedPool ==
  ASSUME NEW m, NEW n, NEW p \in Pool, Accounted(m, p),
         n.resident[p] = m.resident[p],
         n.reserved[p] = m.reserved[p],
         n.pinned[p] = m.pinned[p],
         \A k \in Key : PoolOf[k] = p =>
            n.st[k] = m.st[k] /\ n.bytes[k] = m.bytes[k] /\ n.pins[k] = m.pins[k]
  PROVE  Accounted(n, p)
<1>1. /\ InPool(n, p, "Resident") = InPool(m, p, "Resident")
      /\ InPool(n, p, "Loading") = InPool(m, p, "Loading")
  BY DEF InPool
<1>2. Held(n, p) = Held(m, p)
  BY <1>1 DEF Held, InPool
<1>3. /\ Tally(n.bytes, InPool(n, p, "Resident")) =
           Tally(m.bytes, InPool(n, p, "Resident"))
      /\ Tally(n.bytes, InPool(n, p, "Loading")) =
           Tally(m.bytes, InPool(n, p, "Loading"))
      /\ Tally(n.bytes, Held(n, p)) = Tally(m.bytes, Held(n, p))
  BY TallyAgree DEF InPool, Held
<1>. QED  BY <1>1, <1>2, <1>3 DEF Accounted

LEMMA TouchFields ==
  ASSUME NEW m, Typed(m), NEW k
  PROVE  /\ Typed(Touch(m, k))
         /\ \E r : Touch(m, k) = [m EXCEPT !.recency = r]
BY DEF Touch, Typed

LEMMA RefreshFields ==
  ASSUME NEW m, Typed(m), NEW p \in Pool
  PROVE  LET n == RefreshPinned(m, p)
         IN  /\ Typed(n)
             /\ n = [m EXCEPT !.pinned = [m.pinned EXCEPT ![p] = Tally(m.bytes, Held(m, p))]]
<1>1. Held(m, p) \in SUBSET Key /\ m.bytes \in [Key -> Nat]
  BY DEF Held, InPool, Typed
<1>2. Tally(m.bytes, Held(m, p)) \in Nat
  BY <1>1, KeyFinite, TallyType
<1>3. RefreshPinned(m, p) =
        [m EXCEPT !.pinned = [m.pinned EXCEPT ![p] = Tally(m.bytes, Held(m, p))]]
  BY DEF RefreshPinned, SumBytes, Held, Typed
<1>. DEFINE total == Tally(m.bytes, Held(m, p))
<1>4. total \in Nat /\ RefreshPinned(m, p) =
        [m EXCEPT !.pinned = [m.pinned EXCEPT ![p] = total]]
  BY <1>2, <1>3
<1>5. Typed(RefreshPinned(m, p))
  <2>. DEFINE sums == [m.pinned EXCEPT ![p] = total]
  <2>. HIDE DEF total
  <2>1. sums \in [Pool -> Nat]
    BY <1>4 DEF Typed
  <2>. HIDE DEF sums
  <2>2. Typed([m EXCEPT !.pinned = sums])
    BY <2>1 DEF Typed
  <2>. QED  BY <1>4, <2>2 DEF sums
<1>. QED  BY <1>3, <1>5
-----------------------------------------------------------------------------
(***************************************************************************)
(* Eviction.                                                               *)
(***************************************************************************)
\* What evicting V from pool p makes of m.
Evicted(m, p, V, n) ==
  /\ Typed(n)
  /\ n.st = [k \in Key |-> IF k \in V THEN "Absent" ELSE m.st[k]]
  /\ n.gen = [k \in Key |-> IF k \in V THEN NoGen ELSE m.gen[k]]
  /\ n.bytes = [k \in Key |-> IF k \in V THEN 0 ELSE m.bytes[k]]
  /\ n.resident = [m.resident EXCEPT ![p] = SatSub(m.resident[p], Tally(m.bytes, V))]
  /\ n.pinned = [m.pinned EXCEPT ![p] = Tally(n.bytes, Held(n, p))]
  /\ n.waiters = m.waiters /\ n.pins = m.pins /\ n.loads = m.loads
  /\ n.leaseKey = m.leaseKey /\ n.leaseGen = m.leaseGen
  /\ n.nextLoad = m.nextLoad /\ n.nextGen = m.nextGen
  /\ n.nextLease = m.nextLease /\ n.reserved = m.reserved

LEMMA EvictFields ==
  ASSUME NEW m, Typed(m), NEW p \in Pool, NEW V \in SUBSET Evictable(m, p), V # {}
  PROVE  Evicted(m, p, V, Evict(m, p, V))
<1>. DEFINE left == SatSub(m.resident[p], Tally(m.bytes, V))
            order == Without(m.recency, V)
            e == [m EXCEPT
                    !.st       = [k \in Key |-> IF k \in V THEN "Absent" ELSE @[k]],
                    !.load     = [k \in Key |-> IF k \in V THEN NoLoad ELSE @[k]],
                    !.gen      = [k \in Key |-> IF k \in V THEN NoGen ELSE @[k]],
                    !.bytes    = [k \in Key |-> IF k \in V THEN 0 ELSE @[k]],
                    !.recency  = order,
                    !.resident[p] = left]
            n == Evict(m, p, V)
<1>1. left \in Nat
  <2>1. V \in SUBSET Key /\ m.bytes \in [Key -> Nat] /\ m.resident[p] \in Nat
    BY DEF Evictable, InPool, Typed
  <2>2. Tally(m.bytes, V) \in Nat
    BY <2>1, KeyFinite, TallyType
  <2>. QED  BY <2>1, <2>2 DEF SatSub
<1>2. n = RefreshPinned(e, p)
  BY SMTT(30) DEF Evict, SumBytes
<1>3. /\ Typed(e)
      /\ e.st = [k \in Key |-> IF k \in V THEN "Absent" ELSE m.st[k]]
      /\ e.gen = [k \in Key |-> IF k \in V THEN NoGen ELSE m.gen[k]]
      /\ e.bytes = [k \in Key |-> IF k \in V THEN 0 ELSE m.bytes[k]]
      /\ e.resident = [m.resident EXCEPT ![p] = left]
      /\ e.waiters = m.waiters /\ e.pins = m.pins /\ e.loads = m.loads
      /\ e.leaseKey = m.leaseKey /\ e.leaseGen = m.leaseGen
      /\ e.nextLoad = m.nextLoad /\ e.nextGen = m.nextGen
      /\ e.nextLease = m.nextLease /\ e.reserved = m.reserved
      /\ e.pinned = m.pinned
  <2>. HIDE DEF left, order
  <2>. QED  BY ZenonT(60), <1>1 DEF Typed, EntryState, NoGen, NoLoad
<1>4. /\ Typed(n)
      /\ n = [e EXCEPT !.pinned =
                [e.pinned EXCEPT ![p] = Tally(e.bytes, Held(e, p))]]
  <2>. HIDE DEF e, n
  <2>. QED  BY <1>2, <1>3, RefreshFields
<1>5. Held(n, p) = Held(e, p) /\ n.bytes = e.bytes
  <2>. HIDE DEF e, n
  <2>. QED  BY ZenonT(60), <1>3, <1>4 DEF Held, InPool, Typed
<1>. HIDE DEF e, n, left
<1>6. /\ n.st = e.st /\ n.gen = e.gen /\ n.resident = e.resident
      /\ n.waiters = e.waiters /\ n.pins = e.pins /\ n.loads = e.loads
      /\ n.leaseKey = e.leaseKey /\ n.leaseGen = e.leaseGen
      /\ n.nextLoad = e.nextLoad /\ n.nextGen = e.nextGen
      /\ n.nextLease = e.nextLease /\ n.reserved = e.reserved
      /\ n.pinned = [e.pinned EXCEPT ![p] = Tally(e.bytes, Held(e, p))]
  BY <1>3, <1>4 DEF Typed
<1>. QED  BY <1>3, <1>4, <1>5, <1>6 DEF n, left, Evicted

\* The books stay exact: what leaves the pool is what its counter gives up.
LEMMA EvictAccounts ==
  ASSUME NEW m, Typed(m), NEW p \in Pool, NEW V \in SUBSET Evictable(m, p),
         \A q \in Pool : Accounted(m, q)
  PROVE  \A q \in Pool : Accounted(Evict(m, p, V), q)
<1>1. CASE V = {}
  BY <1>1 DEF Evict
<1>2. CASE V # {}
  <2>. DEFINE n == Evict(m, p, V)
              R == InPool(m, p, "Resident")
              left == SatSub(m.resident[p], Tally(m.bytes, V))
  <2>1. /\ Typed(n)
        /\ n.st = [k \in Key |-> IF k \in V THEN "Absent" ELSE m.st[k]]
        /\ n.bytes = [k \in Key |-> IF k \in V THEN 0 ELSE m.bytes[k]]
        /\ n.resident = [m.resident EXCEPT ![p] = left]
        /\ n.pinned = [m.pinned EXCEPT ![p] = Tally(n.bytes, Held(n, p))]
        /\ n.pins = m.pins /\ n.reserved = m.reserved
    <3>1. Evicted(m, p, V, Evict(m, p, V))
      BY <1>2, EvictFields
    <3>. QED  BY <3>1 DEF Evicted
  <2>. HIDE DEF n
  <2>2. V \subseteq R /\ R \subseteq Key /\ \A k \in R : PoolOf[k] = p
    BY DEF Evictable, InPool
  <2>3. Tally(m.bytes, V) \in Nat /\ Tally(m.bytes, R \ V) \in Nat
    BY <2>2, KeyFinite, TallyType DEF Typed
  <2>4. Tally(m.bytes, R) = Tally(m.bytes, V) + Tally(m.bytes, R \ V)
    <3>1. V \cup (R \ V) = R /\ V \cap (R \ V) = {}
      BY <2>2
    <3>2. m.bytes \in [Key -> Nat] /\ V \in SUBSET Key /\ (R \ V) \in SUBSET Key
      BY <2>2 DEF Typed
    <3>3. Tally(m.bytes, V \cup (R \ V)) = Tally(m.bytes, V) + Tally(m.bytes, R \ V)
      BY <3>1, <3>2, KeyFinite, TallyJoin
    <3>. QED  BY <3>1, <3>3
  <2>5. left = Tally(m.bytes, R \ V)
    BY <2>3, <2>4 DEF Accounted, SatSub
  <2>6. /\ InPool(n, p, "Resident") = R \ V
        /\ InPool(n, p, "Loading") = InPool(m, p, "Loading")
    BY <2>1, <2>2 DEF InPool
  <2>7. /\ Tally(n.bytes, R \ V) = Tally(m.bytes, R \ V)
        /\ Tally(n.bytes, InPool(m, p, "Loading")) =
             Tally(m.bytes, InPool(m, p, "Loading"))
    <3>1. \A k \in R \ V : n.bytes[k] = m.bytes[k]
      BY <2>1, <2>2
    <3>2. \A k \in InPool(m, p, "Loading") : n.bytes[k] = m.bytes[k]
      BY <2>1, <2>2 DEF InPool
    <3>. QED  BY <3>1, <3>2, TallyAgree
  <2>8. /\ n.resident[p] = Tally(m.bytes, R \ V)
        /\ n.pinned[p] = Tally(n.bytes, Held(n, p))
        /\ n.reserved[p] = m.reserved[p]
        /\ n.resident[p] <= m.resident[p]
    <3>. HIDE DEF left, R
    <3>1. m.resident[p] = Tally(m.bytes, R)
      BY DEF Accounted, R
    <3>2. n.resident[p] = left /\ n.pinned[p] = Tally(n.bytes, Held(n, p))
      BY <2>1 DEF Typed
    <3>. QED  BY <2>1, <2>3, <2>4, <2>5, <3>1, <3>2
  <2>9. Accounted(n, p)
    <3>1. n.resident[p] + n.reserved[p] <= Budget[p]
      <4>1. /\ m.resident[p] \in Nat /\ m.reserved[p] \in Nat
            /\ n.resident[p] \in Nat /\ Budget[p] \in Nat
        BY <2>1, ResidencyConstants DEF Typed
      <4>2. m.resident[p] + m.reserved[p] <= Budget[p]
        BY DEF Accounted
      <4>. QED  BY <2>8, <4>1, <4>2
    <3>. HIDE DEF R
    <3>. QED  BY <2>6, <2>7, <2>8, <3>1 DEF Accounted
  <2>10. ASSUME NEW q \in Pool, q # p
         PROVE  Accounted(n, q)
    <3>1. /\ n.resident[q] = m.resident[q]
          /\ n.reserved[q] = m.reserved[q]
          /\ n.pinned[q] = m.pinned[q]
      BY <2>1, <2>10 DEF Typed
    <3>2. \A k \in Key : PoolOf[k] = q =>
            n.st[k] = m.st[k] /\ n.bytes[k] = m.bytes[k] /\ n.pins[k] = m.pins[k]
      BY <2>1, <2>2, <2>10
    <3>. QED  BY <3>1, <3>2, UntouchedPool
  <2>. QED  BY <2>9, <2>10 DEF n
<1>. QED  BY <1>1, <1>2
-----------------------------------------------------------------------------
(***************************************************************************)
(* Leases, and what every operation keeps.                                 *)
(***************************************************************************)
Leases(m, g, k) == {l \in g : m.leaseKey[l] = k}

\* The manager knows exactly the leases g that are out, each on the resident
\* generation of its key, and the pins of a key count them.
Leased(m, g) ==
  /\ g \subseteq LeaseId
  /\ \A l \in g : l < m.nextLease
  /\ \A l \in LeaseId : l \in g <=> m.leaseKey[l] # NoKey
  /\ \A l \in g : /\ m.st[m.leaseKey[l]] = "Resident"
                  /\ m.gen[m.leaseKey[l]] = m.leaseGen[l]
  /\ \A k \in Key : m.pins[k] = Cardinality(Leases(m, g, k))

\* The generation a key gets next is newer than all it ever had.
Fresh(m, s) == s \in [Key -> Nat \cup {NoGen}] /\ \A k \in Key : s[k] < m.nextGen[k]

\* The inductive invariant.
Books(m, g, s) ==
  Typed(m) /\ (\A p \in Pool : Accounted(m, p)) /\ Leased(m, g) /\ Fresh(m, s)

LEMMA LeaseSetsFinite ==
  ASSUME NEW m, NEW g, g \subseteq LeaseId, NEW k
  PROVE  IsFiniteSet(g) /\ IsFiniteSet(Leases(m, g, k))
<1>1. IsFiniteSet(LeaseId)
  BY ResidencyConstants, FS_Interval DEF LeaseId
<1>2. g \in SUBSET LeaseId /\ Leases(m, g, k) \in SUBSET LeaseId
  BY DEF Leases
<1>. QED  BY <1>1, <1>2, FS_Subset

\* A lease that is out pins its key.
LEMMA LeasedIsPinned ==
  ASSUME NEW m, Typed(m), NEW g, Leased(m, g), NEW l \in g
  PROVE  m.leaseKey[l] \in Key /\ m.pins[m.leaseKey[l]] # 0
<1>. DEFINE k == m.leaseKey[l]
<1>1. k \in Key
  BY DEF Leased, Typed
<1>2. l \in Leases(m, g, k)
  BY DEF Leases
<1>3. IsFiniteSet(Leases(m, g, k))
  BY LeaseSetsFinite DEF Leased
<1>4. Cardinality(Leases(m, g, k)) # 0
  BY <1>2, <1>3, FS_EmptySet
<1>. QED  BY <1>1, <1>4 DEF Leased

\* An entry that is not resident has no pins.
LEMMA UnleasedUnpinned ==
  ASSUME NEW m, Typed(m), NEW g, Leased(m, g), NEW k \in Key, m.st[k] # "Resident"
  PROVE  m.pins[k] = 0 /\ Leases(m, g, k) = {}
<1>1. Leases(m, g, k) = {}
  BY DEF Leased, Leases
<1>. QED  BY <1>1, FS_EmptySet DEF Leased

\* Whatever leaves the leases and the leased entries alone keeps Leased.
LEMMA LeasesKept ==
  ASSUME NEW m, Typed(m), NEW g, Leased(m, g), NEW n,
         n.leaseKey = m.leaseKey, n.leaseGen = m.leaseGen,
         n.nextLease = m.nextLease, n.pins = m.pins,
         \A k \in Key : m.st[k] = "Resident" /\ m.pins[k] # 0 =>
                        n.st[k] = "Resident" /\ n.gen[k] = m.gen[k]
  PROVE  Leased(n, g)
<1>1. \A k : Leases(n, g, k) = Leases(m, g, k)
  BY DEF Leases
<1>2. \A l \in g : m.leaseKey[l] \in Key /\ m.pins[m.leaseKey[l]] # 0
  BY LeasedIsPinned
<1>3. \A l \in g : /\ n.st[n.leaseKey[l]] = "Resident"
                   /\ n.gen[n.leaseKey[l]] = n.leaseGen[l]
  BY <1>2 DEF Leased
<1>. QED  BY <1>1, <1>3 DEF Leased

\* An operation that changes neither entries nor leases keeps the books.
LEMMA BooksKept ==
  ASSUME NEW m, NEW g, NEW s, Books(m, g, s), NEW n, Typed(n),
         n.st = m.st, n.gen = m.gen, n.bytes = m.bytes, n.pins = m.pins,
         n.leaseKey = m.leaseKey, n.leaseGen = m.leaseGen,
         n.nextLease = m.nextLease, n.nextGen = m.nextGen,
         n.resident = m.resident, n.reserved = m.reserved, n.pinned = m.pinned
  PROVE  Books(n, g, s)
<1>1. Typed(m) /\ Leased(m, g) /\ Fresh(m, s)
  BY DEF Books
<1>2. Leased(n, g)
  BY <1>1, LeasesKept
<1>3. ASSUME NEW p \in Pool
      PROVE  Accounted(n, p)
  <2>1. Accounted(m, p)
    BY DEF Books
  <2>. QED  BY <2>1, UntouchedPool
<1>4. Fresh(n, s)
  BY <1>1 DEF Fresh
<1>. QED  BY <1>2, <1>3, <1>4 DEF Books
-----------------------------------------------------------------------------
(***************************************************************************)
(* The operations that only note a touch, a waiter or a stale completion.  *)
(***************************************************************************)
LEMMA HitStep ==
  ASSUME NEW m, NEW g, NEW s, Books(m, g, s), NEW k \in Key
  PROVE  Books(BeginHit(m, k), g, s) /\ BeginHit(m, k).gen = m.gen
<1>. DEFINE n == Touch(m, k)
<1>1. Typed(m)
  BY DEF Books
<1>2. Typed(n) /\ \E r : n = [m EXCEPT !.recency = r]
  BY <1>1, TouchFields
<1>. HIDE DEF n
<1>3. /\ n.st = m.st /\ n.gen = m.gen /\ n.bytes = m.bytes /\ n.pins = m.pins
      /\ n.leaseKey = m.leaseKey /\ n.leaseGen = m.leaseGen
      /\ n.nextLease = m.nextLease /\ n.nextGen = m.nextGen
      /\ n.resident = m.resident /\ n.reserved = m.reserved /\ n.pinned = m.pinned
  BY <1>1, <1>2 DEF Typed
<1>4. Books(n, g, s)
  BY <1>2, <1>3, BooksKept
<1>. QED  BY <1>3, <1>4 DEF BeginHit, n

\* Only the waiters of one key change.
LEMMA WaitersStep ==
  ASSUME NEW m, NEW g, NEW s, Books(m, g, s), NEW k \in Key, NEW W \in SUBSET Waiter,
         NEW n, n = [m EXCEPT !.waiters[k] = W]
  PROVE  Books(n, g, s) /\ n.gen = m.gen
<1>1. Typed(m)
  BY DEF Books
<1>2. /\ Typed(n)
      /\ n.st = m.st /\ n.gen = m.gen /\ n.bytes = m.bytes /\ n.pins = m.pins
      /\ n.leaseKey = m.leaseKey /\ n.leaseGen = m.leaseGen
      /\ n.nextLease = m.nextLease /\ n.nextGen = m.nextGen
      /\ n.resident = m.resident /\ n.reserved = m.reserved /\ n.pinned = m.pinned
  BY <1>1 DEF Typed
<1>3. Books(n, g, s)
  BY <1>2, BooksKept
<1>. QED  BY <1>2, <1>3

\* Only a load id is forgotten.
LEMMA ForgetLoadStep ==
  ASSUME NEW m, NEW g, NEW s, Books(m, g, s), NEW l \in LoadId,
         NEW n, n = [m EXCEPT !.loads[l] = NoKey]
  PROVE  Books(n, g, s) /\ n.gen = m.gen
<1>1. Typed(m)
  BY DEF Books
<1>2. /\ Typed(n)
      /\ n.st = m.st /\ n.gen = m.gen /\ n.bytes = m.bytes /\ n.pins = m.pins
      /\ n.leaseKey = m.leaseKey /\ n.leaseGen = m.leaseGen
      /\ n.nextLease = m.nextLease /\ n.nextGen = m.nextGen
      /\ n.resident = m.resident /\ n.reserved = m.reserved /\ n.pinned = m.pinned
  BY <1>1 DEF Typed
<1>3. Books(n, g, s)
  BY <1>2, BooksKept
<1>. QED  BY <1>2, <1>3

\* An eviction keeps the books: what it removes is not leased.
LEMMA EvictStep ==
  ASSUME NEW m, NEW g, NEW s, Books(m, g, s),
         NEW p \in Pool, NEW V \in SUBSET Evictable(m, p)
  PROVE  /\ Books(Evict(m, p, V), g, s)
         /\ \A k \in Key : Evict(m, p, V).gen[k] \in {m.gen[k], NoGen}
<1>. DEFINE n == Evict(m, p, V)
<1>1. Typed(m) /\ Leased(m, g) /\ Fresh(m, s) /\ \A q \in Pool : Accounted(m, q)
  BY DEF Books
<1>2. CASE V = {}
  BY <1>2 DEF Evict
<1>3. CASE V # {}
  <2>1. Evicted(m, p, V, n)
    BY <1>1, <1>3, EvictFields
  <2>2. \A q \in Pool : Accounted(n, q)
    BY <1>1, EvictAccounts
  <2>. HIDE DEF n
  <2>3. \A k \in Key : m.st[k] = "Resident" /\ m.pins[k] # 0 =>
                       n.st[k] = "Resident" /\ n.gen[k] = m.gen[k]
    BY <2>1 DEF Evicted, Evictable
  <2>4. /\ n.leaseKey = m.leaseKey /\ n.leaseGen = m.leaseGen
        /\ n.nextLease = m.nextLease /\ n.pins = m.pins
        /\ n.nextGen = m.nextGen /\ Typed(n)
    BY <2>1 DEF Evicted
  <2>5. Leased(n, g)
    BY <1>1, <2>3, <2>4, LeasesKept
  <2>6. Fresh(n, s)
    BY <1>1, <2>4 DEF Fresh
  <2>7. \A k \in Key : n.gen[k] \in {m.gen[k], NoGen}
    BY <2>1 DEF Evicted
  <2>. QED  BY <2>2, <2>4, <2>5, <2>6, <2>7 DEF Books, n
<1>. QED  BY <1>2, <1>3
-----------------------------------------------------------------------------
(***************************************************************************)
(* Starting a load, and its failure.                                       *)
(***************************************************************************)
\* m once load l of size bytes has been started for key k of pool p.
Started(m, k, size, w, l, p) ==
  Touch([m EXCEPT !.st[k] = "Loading",
                  !.load[k] = l,
                  !.bytes[k] = size,
                  !.waiters[k] = {w},
                  !.pins[k] = 0,
                  !.loads[l] = k,
                  !.nextLoad = @ + 1,
                  !.reserved[p] = @ + size], k)

\* A load started on an entry that is neither resident nor loading reserves
\* the bytes that Fits found to be free.
LEMMA StartStep ==
  ASSUME NEW m, NEW g, NEW s, Books(m, g, s), NEW k \in Key,
         m.st[k] # "Resident", m.st[k] # "Loading",
         NEW size \in Nat, NEW w \in Waiter, NEW l \in LoadId, NEW p, p = PoolOf[k],
         l + 1 \in 0 .. MaxLoads, l = m.nextLoad,
         m.resident[p] + m.reserved[p] + size <= Budget[p]
  PROVE  /\ Books(Started(m, k, size, w, l, p), g, s)
         /\ Started(m, k, size, w, l, p).gen = m.gen
<1>. DEFINE e == [m EXCEPT !.st[k] = "Loading",
                           !.load[k] = l,
                           !.bytes[k] = size,
                           !.waiters[k] = {w},
                           !.pins[k] = 0,
                           !.loads[l] = k,
                           !.nextLoad = @ + 1,
                           !.reserved[p] = @ + size]
            n == Touch(e, k)
<1>1. Typed(m) /\ Leased(m, g) /\ Fresh(m, s) /\ \A q \in Pool : Accounted(m, q)
  BY DEF Books
<1>2. p \in Pool
  BY ResidencyConstants
<1>3. m.pins[k] = 0
  BY <1>1, UnleasedUnpinned
<1>4. m.reserved[p] + size \in Nat /\ m.reserved[p] \in Nat /\ m.resident[p] \in Nat
  BY <1>1, <1>2 DEF Typed
<1>5. /\ Typed(e)
      /\ e.st = [m.st EXCEPT ![k] = "Loading"] /\ e.bytes = [m.bytes EXCEPT ![k] = size]
      /\ e.pins = [m.pins EXCEPT ![k] = 0]
      /\ e.reserved = [m.reserved EXCEPT ![p] = m.reserved[p] + size]
      /\ e.gen = m.gen /\ e.leaseKey = m.leaseKey /\ e.leaseGen = m.leaseGen
      /\ e.nextLease = m.nextLease /\ e.nextGen = m.nextGen
      /\ e.resident = m.resident /\ e.pinned = m.pinned
  <2>. DEFINE st == [m.st EXCEPT ![k] = "Loading"]
              load == [m.load EXCEPT ![k] = l]
              bytes == [m.bytes EXCEPT ![k] = size]
              waiters == [m.waiters EXCEPT ![k] = {w}]
              pins == [m.pins EXCEPT ![k] = 0]
              loads == [m.loads EXCEPT ![l] = k]
              reserved == [m.reserved EXCEPT ![p] = m.reserved[p] + size]
              next == m.nextLoad + 1
  <2>1. st \in [Key -> EntryState] /\ load \in [Key -> LoadId \cup {NoLoad}]
    BY <1>1 DEF Typed, EntryState
  <2>2. bytes \in [Key -> Nat] /\ pins \in [Key -> Nat]
    BY <1>1 DEF Typed
  <2>3. waiters \in [Key -> SUBSET Waiter]
    BY <1>1 DEF Typed
  <2>4. loads \in [LoadId -> Key \cup {NoKey}] /\ next \in 0 .. MaxLoads
    BY <1>1 DEF Typed
  <2>5. reserved \in [Pool -> Nat]
    BY <1>1, <1>4 DEF Typed
  <2>6. e = [m EXCEPT !.st = st, !.load = load, !.bytes = bytes, !.waiters = waiters,
                      !.pins = pins, !.loads = loads, !.nextLoad = next,
                      !.reserved = reserved]
    BY <1>1 DEF Typed
  <2>. HIDE DEF st, load, bytes, waiters, pins, loads, reserved, next, e
  <2>7. /\ Typed(e) /\ e.st = st /\ e.bytes = bytes /\ e.pins = pins
        /\ e.reserved = reserved /\ e.gen = m.gen /\ e.leaseKey = m.leaseKey
        /\ e.leaseGen = m.leaseGen /\ e.nextLease = m.nextLease
        /\ e.nextGen = m.nextGen /\ e.resident = m.resident /\ e.pinned = m.pinned
    BY <1>1, <2>1, <2>2, <2>3, <2>4, <2>5, <2>6 DEF Typed
  <2>. QED  BY <2>7 DEF st, bytes, pins, reserved
<1>. HIDE DEF e
<1>6. Typed(n) /\ \E r : n = [e EXCEPT !.recency = r]
  <2>1. Typed(e)
    BY <1>5
  <2>. QED  BY <2>1, TouchFields
<1>. HIDE DEF n
<1>7. /\ n.st = e.st /\ n.bytes = e.bytes /\ n.pins = e.pins
      /\ n.reserved = e.reserved /\ n.gen = e.gen
      /\ n.leaseKey = e.leaseKey /\ n.leaseGen = e.leaseGen
      /\ n.nextLease = e.nextLease /\ n.nextGen = e.nextGen
      /\ n.resident = e.resident /\ n.pinned = e.pinned
  BY <1>5, <1>6 DEF Typed
<1>8. n.pins = m.pins
  BY <1>1, <1>3, <1>5, <1>7 DEF Typed
<1>9. Leased(n, g)
  <2>1. \A x \in Key : m.st[x] = "Resident" /\ m.pins[x] # 0 =>
                       n.st[x] = "Resident" /\ n.gen[x] = m.gen[x]
    BY <1>1, <1>5, <1>7 DEF Typed
  <2>2. /\ n.leaseKey = m.leaseKey /\ n.leaseGen = m.leaseGen
        /\ n.nextLease = m.nextLease
    BY <1>5, <1>7
  <2>. QED  BY <1>1, <1>8, <2>1, <2>2, LeasesKept
<1>10. Fresh(n, s)
  BY <1>1, <1>5, <1>7 DEF Fresh
<1>11. Accounted(n, p)
  <2>. DEFINE L == InPool(m, p, "Loading")
              R == InPool(m, p, "Resident")
  <2>1. /\ InPool(n, p, "Resident") = R /\ InPool(n, p, "Loading") = L \cup {k}
        /\ Held(n, p) = Held(m, p) /\ k \notin L /\ k \notin R /\ k \notin Held(m, p)
        /\ L \in SUBSET Key
    BY <1>1, <1>5, <1>7, <1>8 DEF Typed, InPool, Held
  <2>2. n.bytes \in [Key -> Nat] /\ n.bytes[k] = size
        /\ \A x \in Key : x # k => n.bytes[x] = m.bytes[x]
    BY <1>1, <1>5, <1>7 DEF Typed
  <2>3. /\ Tally(n.bytes, R) = Tally(m.bytes, R)
        /\ Tally(n.bytes, L) = Tally(m.bytes, L)
        /\ Tally(n.bytes, Held(m, p)) = Tally(m.bytes, Held(m, p))
    <3>1. /\ \A x \in R : n.bytes[x] = m.bytes[x]
          /\ \A x \in L : n.bytes[x] = m.bytes[x]
          /\ \A x \in Held(m, p) : n.bytes[x] = m.bytes[x]
      BY <2>1, <2>2 DEF InPool, Held
    <3>. QED  BY <3>1, TallyAgree
  <2>4. Tally(n.bytes, L \cup {k}) = Tally(n.bytes, L) + size
    BY <2>1, <2>2, KeyFinite, TallyWith
  <2>5. /\ n.resident[p] = m.resident[p] /\ n.pinned[p] = m.pinned[p]
        /\ n.reserved[p] = m.reserved[p] + size
    BY <1>1, <1>2, <1>5, <1>7 DEF Typed
  <2>6. n.resident[p] + n.reserved[p] <= Budget[p]
    BY <1>2, <1>4, <2>5, ResidencyConstants
  <2>7. Accounted(m, p)
    BY <1>1, <1>2
  <2>. HIDE DEF L, R
  <2>8. /\ m.resident[p] = Tally(m.bytes, R) /\ m.reserved[p] = Tally(m.bytes, L)
        /\ m.pinned[p] = Tally(m.bytes, Held(m, p))
    BY <2>7 DEF Accounted, L, R
  <2>9. n.reserved[p] = Tally(n.bytes, InPool(n, p, "Loading"))
    BY <2>1, <2>3, <2>4, <2>5, <2>8
  <2>. QED  BY <2>1, <2>3, <2>5, <2>6, <2>8, <2>9 DEF Accounted
<1>12. ASSUME NEW q \in Pool, q # p
       PROVE  Accounted(n, q)
  <2>1. /\ n.resident[q] = m.resident[q] /\ n.reserved[q] = m.reserved[q]
        /\ n.pinned[q] = m.pinned[q]
    BY <1>1, <1>5, <1>7, <1>12 DEF Typed
  <2>2. \A x \in Key : PoolOf[x] = q =>
          n.st[x] = m.st[x] /\ n.bytes[x] = m.bytes[x] /\ n.pins[x] = m.pins[x]
    BY <1>1, <1>5, <1>7, <1>8, <1>12 DEF Typed
  <2>3. Accounted(m, q)
    BY <1>1
  <2>. QED  BY <2>1, <2>2, <2>3, UntouchedPool
<1>13. \A q \in Pool : Accounted(n, q)
  BY <1>11, <1>12
<1>14. Books(n, g, s) /\ n.gen = m.gen
  BY <1>5, <1>6, <1>7, <1>9, <1>10, <1>13 DEF Books
<1>. QED  BY <1>14 DEF e, n, Started

\* A failed load gives its reservation back, and nothing else.
LEMMA FailedStep ==
  ASSUME NEW m, NEW g, NEW s, Books(m, g, s), NEW l \in LoadId, Accepted(m, l)
  PROVE  Books(LoadFails(m, l), g, s) /\ LoadFails(m, l).gen = m.gen
<1>. DEFINE k == m.loads[l]
            p == PoolOf[k]
            n == LoadFails(m, l)
            left == SatSub(m.reserved[p], m.bytes[k])
            L == InPool(m, p, "Loading")
            R == InPool(m, p, "Resident")
<1>1. Typed(m) /\ Leased(m, g) /\ Fresh(m, s) /\ \A q \in Pool : Accounted(m, q)
  BY DEF Books
<1>2. k \in Key /\ p \in Pool /\ m.st[k] = "Loading"
  BY <1>1, ResidencyConstants DEF Accepted, Typed
<1>3. k \in L /\ L \in SUBSET Key /\ m.bytes \in [Key -> Nat]
  BY <1>1, <1>2 DEF InPool, Typed
<1>4. /\ Tally(m.bytes, L) = Tally(m.bytes, L \ {k}) + m.bytes[k]
      /\ Tally(m.bytes, L \ {k}) \in Nat /\ m.bytes[k] \in Nat
  BY <1>3, KeyFinite, TallyWithout
<1>5. /\ m.reserved[p] = Tally(m.bytes, L) /\ m.resident[p] = Tally(m.bytes, R)
      /\ m.pinned[p] = Tally(m.bytes, Held(m, p))
      /\ m.resident[p] + m.reserved[p] <= Budget[p]
  <2>1. Accounted(m, p)
    BY <1>1, <1>2
  <2>. QED  BY <2>1 DEF Accounted
<1>6. left = Tally(m.bytes, L \ {k}) /\ left \in Nat
  <2>1. \A a, b \in Nat : SatSub(a + b, b) = a
    BY DEF SatSub
  <2>2. m.reserved[p] = Tally(m.bytes, L \ {k}) + m.bytes[k]
    BY <1>4, <1>5
  <2>. HIDE DEF p, k, L
  <2>. QED  BY <1>4, <2>1, <2>2
<1>7. /\ Typed(n)
      /\ n.st = [m.st EXCEPT ![k] = "Failed"] /\ n.bytes = m.bytes
      /\ n.pins = m.pins /\ n.reserved = [m.reserved EXCEPT ![p] = left]
      /\ n.gen = m.gen /\ n.leaseKey = m.leaseKey /\ n.leaseGen = m.leaseGen
      /\ n.nextLease = m.nextLease /\ n.nextGen = m.nextGen
      /\ n.resident = m.resident /\ n.pinned = m.pinned
  <2>1. n = [m EXCEPT !.loads[l] = NoKey,
                      !.reserved[p] = left,
                      !.st[k] = "Failed",
                      !.load[k] = NoLoad,
                      !.waiters[k] = {}]
    BY <1>1 DEF LoadFails, Typed
  <2>. HIDE DEF left, n, p, k, L
  <2>. QED  BY <1>1, <1>2, <1>6, <2>1 DEF Typed, EntryState
<1>. HIDE DEF n, left
<1>8. Leased(n, g)
  <2>1. \A x \in Key : m.st[x] = "Resident" /\ m.pins[x] # 0 =>
                       n.st[x] = "Resident" /\ n.gen[x] = m.gen[x]
    BY <1>1, <1>2, <1>7 DEF Typed
  <2>. QED  BY <1>1, <1>7, <2>1, LeasesKept
<1>9. Fresh(n, s)
  BY <1>1, <1>7 DEF Fresh
<1>10. Accounted(n, p)
  <2>1. /\ InPool(n, p, "Resident") = R /\ InPool(n, p, "Loading") = L \ {k}
        /\ Held(n, p) = Held(m, p)
    BY <1>1, <1>2, <1>7 DEF Typed, InPool, Held
  <2>2. /\ n.resident[p] = m.resident[p] /\ n.pinned[p] = m.pinned[p]
        /\ n.reserved[p] = left
    BY <1>1, <1>2, <1>7 DEF Typed
  <2>3. m.resident[p] \in Nat /\ Budget[p] \in Nat
    BY <1>1, <1>2, ResidencyConstants DEF Typed
  <2>. HIDE DEF L, R, p, k
  <2>4. n.resident[p] + n.reserved[p] <= Budget[p]
    BY <1>4, <1>5, <1>6, <2>2, <2>3
  <2>. QED  BY <1>5, <1>6, <1>7, <2>1, <2>2, <2>4 DEF Accounted
<1>11. ASSUME NEW q \in Pool, q # p
       PROVE  Accounted(n, q)
  <2>1. /\ n.resident[q] = m.resident[q] /\ n.reserved[q] = m.reserved[q]
        /\ n.pinned[q] = m.pinned[q]
    BY <1>1, <1>7, <1>11 DEF Typed
  <2>2. \A x \in Key : PoolOf[x] = q =>
          n.st[x] = m.st[x] /\ n.bytes[x] = m.bytes[x] /\ n.pins[x] = m.pins[x]
    BY <1>1, <1>2, <1>7, <1>11 DEF Typed
  <2>3. Accounted(m, q)
    BY <1>1
  <2>. QED  BY <2>1, <2>2, <2>3, UntouchedPool
<1>12. \A q \in Pool : Accounted(n, q)
  BY <1>10, <1>11
<1>. QED  BY <1>7, <1>8, <1>9, <1>12 DEF Books, n
-----------------------------------------------------------------------------
(***************************************************************************)
(* Granting and releasing leases.                                          *)
(***************************************************************************)
\* refresh_pinned makes the one counter exact that the step left stale.
LEMMA RefreshStep ==
  ASSUME NEW m, Typed(m), NEW g, Leased(m, g), NEW s, Fresh(m, s), NEW p \in Pool,
         m.resident[p] + m.reserved[p] <= Budget[p],
         m.resident[p] = Tally(m.bytes, InPool(m, p, "Resident")),
         m.reserved[p] = Tally(m.bytes, InPool(m, p, "Loading")),
         \A q \in Pool : q # p => Accounted(m, q)
  PROVE  Books(RefreshPinned(m, p), g, s) /\ RefreshPinned(m, p).gen = m.gen
<1>. DEFINE n == RefreshPinned(m, p)
            held == Tally(m.bytes, Held(m, p))
<1>1. Typed(n) /\ n = [m EXCEPT !.pinned = [m.pinned EXCEPT ![p] = held]]
  BY RefreshFields
<1>. HIDE DEF n, held
<1>2. /\ n.st = m.st /\ n.gen = m.gen /\ n.bytes = m.bytes /\ n.pins = m.pins
      /\ n.leaseKey = m.leaseKey /\ n.leaseGen = m.leaseGen
      /\ n.nextLease = m.nextLease /\ n.nextGen = m.nextGen
      /\ n.resident = m.resident /\ n.reserved = m.reserved
      /\ n.pinned = [m.pinned EXCEPT ![p] = held]
  BY <1>1 DEF Typed
<1>3. Leased(n, g)
  BY <1>2, LeasesKept
<1>4. Fresh(n, s)
  BY <1>2 DEF Fresh
<1>5. Accounted(n, p)
  <2>1. /\ InPool(n, p, "Resident") = InPool(m, p, "Resident")
        /\ InPool(n, p, "Loading") = InPool(m, p, "Loading")
        /\ Held(n, p) = Held(m, p)
    BY <1>2 DEF InPool, Held
  <2>2. n.pinned[p] = held
    BY <1>2 DEF Typed
  <2>. QED  BY <1>2, <2>1, <2>2 DEF Accounted, held
<1>6. ASSUME NEW q \in Pool, q # p
      PROVE  Accounted(n, q)
  <2>1. n.pinned[q] = m.pinned[q]
    BY <1>2, <1>6 DEF Typed
  <2>2. Accounted(m, q)
    BY <1>6
  <2>. QED  BY <1>2, <2>1, <2>2, UntouchedPool
<1>. QED  BY <1>1, <1>2, <1>3, <1>4, <1>5, <1>6 DEF Books, n

\* u is m with n more leases, on the generation of k.
Grants(m, k, n, u) ==
  /\ Typed(u)
  /\ u = [m EXCEPT
            !.leaseKey = [l \in LeaseId |-> IF l \in FreshLeases(m, n) THEN k
                                           ELSE m.leaseKey[l]],
            !.leaseGen = [l \in LeaseId |-> IF l \in FreshLeases(m, n) THEN m.gen[k]
                                           ELSE m.leaseGen[l]],
            !.nextLease = m.nextLease + n]

LEMMA NewLeasesFields ==
  ASSUME NEW m, Typed(m), NEW n \in Nat, NEW k \in Key,
         m.nextLease + n <= MaxLeases
  PROVE  Grants(m, k, n, NewLeases(m, k, n))
<1>. DEFINE fresh == FreshLeases(m, n)
            keys == [l \in LeaseId |-> IF l \in fresh THEN k ELSE m.leaseKey[l]]
            gens == [l \in LeaseId |-> IF l \in fresh THEN m.gen[k] ELSE m.leaseGen[l]]
            next == m.nextLease + n
            u == NewLeases(m, k, n)
<1>1. u = [m EXCEPT !.leaseKey = keys, !.leaseGen = gens, !.nextLease = next]
  BY DEF NewLeases, Typed
<1>2. next \in 0 .. MaxLeases
  BY ResidencyConstants DEF Typed
<1>3. keys \in [LeaseId -> Key \cup {NoKey}] /\ gens \in [LeaseId -> Nat \cup {NoGen}]
  <2>. HIDE DEF fresh
  <2>. QED  BY DEF Typed
<1>4. Typed(u)
  <2>. HIDE DEF keys, gens, fresh, u, next
  <2>. QED  BY <1>1, <1>2, <1>3 DEF Typed
<1>. QED  BY <1>1, <1>4 DEF Grants

\* As far as leases are concerned, u is m with n more of them on key k, whose
\* leases so far were on the same generation.
AddsLeases(m, k, n, u) ==
  /\ u.leaseKey = [l \in LeaseId |-> IF l \in FreshLeases(m, n) THEN k
                                    ELSE m.leaseKey[l]]
  /\ u.leaseGen = [l \in LeaseId |-> IF l \in FreshLeases(m, n) THEN u.gen[k]
                                    ELSE m.leaseGen[l]]
  /\ u.nextLease = m.nextLease + n
  /\ u.st[k] = "Resident"
  /\ m.st[k] = "Resident" => u.gen[k] = m.gen[k]
  /\ u.pins[k] = m.pins[k] + n
  /\ \A x \in Key : x # k =>
        u.st[x] = m.st[x] /\ u.gen[x] = m.gen[x] /\ u.pins[x] = m.pins[x]

\* The new leases join those that are out.
LEMMA LeasesAdded ==
  ASSUME NEW m, Typed(m), NEW g, Leased(m, g), NEW k \in Key, NEW n \in Nat,
         m.nextLease + n <= MaxLeases, NEW u, AddsLeases(m, k, n, u)
  PROVE  Leased(u, g \cup FreshLeases(m, n))
<1>. DEFINE fresh == FreshLeases(m, n)
<1>0. /\ u.leaseKey = [l \in LeaseId |-> IF l \in fresh THEN k ELSE m.leaseKey[l]]
      /\ u.leaseGen = [l \in LeaseId |-> IF l \in fresh THEN u.gen[k] ELSE m.leaseGen[l]]
      /\ u.nextLease = m.nextLease + n /\ u.st[k] = "Resident"
      /\ m.st[k] = "Resident" => u.gen[k] = m.gen[k]
      /\ u.pins[k] = m.pins[k] + n
      /\ \A x \in Key : x # k =>
            u.st[x] = m.st[x] /\ u.gen[x] = m.gen[x] /\ u.pins[x] = m.pins[x]
  BY DEF AddsLeases
<1>1. m.nextLease \in Nat /\ fresh = m.nextLease .. (m.nextLease + n - 1)
  BY DEF Typed, FreshLeases
<1>. HIDE DEF fresh
<1>2. g \subseteq LeaseId /\ \A l \in g : l < m.nextLease /\ l \in Nat
  <2>1. g \subseteq LeaseId /\ \A l \in g : l < m.nextLease
    BY DEF Leased
  <2>2. \A l \in LeaseId : l \in Nat
    BY ResidencyConstants DEF LeaseId
  <2>. QED  BY <2>1, <2>2
<1>3. g \cap fresh = {}
  BY <1>1, <1>2
<1>4. fresh \subseteq LeaseId
  BY <1>1, ResidencyConstants DEF LeaseId
<1>5. IsFiniteSet(fresh) /\ Cardinality(fresh) = n
  <2>1. m.nextLease \in Int /\ m.nextLease + n - 1 \in Int
    BY <1>1
  <2>. DEFINE a == m.nextLease
              b == m.nextLease + n - 1
  <2>2. a \in Int /\ b \in Int /\ fresh = a .. b
    BY <1>1, <2>1
  <2>3. (IF a > b THEN 0 ELSE b - a + 1) = n
    BY <1>1
  <2>. HIDE DEF a, b
  <2>4. IsFiniteSet(a .. b) /\ Cardinality(a .. b) = IF a > b THEN 0 ELSE b - a + 1
    BY <2>2, FS_Interval
  <2>. QED  BY <2>2, <2>3, <2>4
<1>6. \A l \in g \cup fresh : l < u.nextLease
  BY <1>0, <1>1, <1>2
<1>7. \A l \in LeaseId : l \in g \cup fresh <=> u.leaseKey[l] # NoKey
  BY <1>0, <1>4, ResidencyConstants DEF Leased
<1>8. ASSUME NEW l \in g \cup fresh
      PROVE  u.st[u.leaseKey[l]] = "Resident" /\ u.gen[u.leaseKey[l]] = u.leaseGen[l]
  <2>1. CASE l \in fresh
    BY <1>0, <1>4, <2>1
  <2>2. CASE l \in g
    <3>1. /\ u.leaseKey[l] = m.leaseKey[l] /\ u.leaseGen[l] = m.leaseGen[l]
          /\ m.leaseKey[l] \in Key
      BY <1>0, <1>2, <1>3, <2>2, LeasedIsPinned
    <3>2. m.st[m.leaseKey[l]] = "Resident" /\ m.gen[m.leaseKey[l]] = m.leaseGen[l]
      BY <2>2 DEF Leased
    <3>. QED  BY <1>0, <3>1, <3>2
  <2>. QED  BY <2>1, <2>2
<1>9. ASSUME NEW x \in Key
      PROVE  u.pins[x] = Cardinality(Leases(u, g \cup fresh, x))
  <2>1. IsFiniteSet(Leases(m, g, x)) /\ m.pins[x] = Cardinality(Leases(m, g, x))
    BY <1>2, LeaseSetsFinite DEF Leased
  <2>2. CASE x # k
    <3>1. Leases(u, g \cup fresh, x) = Leases(m, g, x)
      BY <1>0, <1>2, <1>3, <1>4, <2>2 DEF Leases
    <3>. QED  BY <1>0, <2>1, <2>2, <3>1
  <2>3. CASE x = k
    <3>1. Leases(u, g \cup fresh, k) = Leases(m, g, k) \cup fresh
      BY <1>0, <1>2, <1>3, <1>4 DEF Leases
    <3>2. Leases(m, g, k) \cap fresh = {}
      BY <1>3 DEF Leases
    <3>3. Cardinality(Leases(m, g, k) \cup fresh) =
            Cardinality(Leases(m, g, k)) + Cardinality(fresh)
              - Cardinality(Leases(m, g, k) \cap fresh)
      BY <1>5, <2>1, <2>3, FS_Union
    <3>4. Cardinality(Leases(m, g, k) \cap fresh) = 0
      BY <3>2, FS_EmptySet
    <3>5. m.pins[k] \in Nat
      BY DEF Typed
    <3>. DEFINE old == Cardinality(Leases(m, g, k))
    <3>6. old = m.pins[k]
      BY <2>1, <2>3
    <3>7. Cardinality(Leases(u, g \cup fresh, k)) = old + n - 0
      BY SMTT(30), <1>5, <3>1, <3>3, <3>4
    <3>8. old + n - 0 = u.pins[k]
      BY <1>0, <3>5, <3>6
    <3>. QED  BY <2>3, <3>7, <3>8
  <2>. QED  BY <2>2, <2>3
<1>10. g \cup fresh \subseteq LeaseId
  BY <1>2, <1>4
<1>. QED  BY <1>6, <1>7, <1>8, <1>9, <1>10 DEF Leased, fresh
\* complete_load with Success: the reservation becomes resident bytes, and every
\* waiter gets a lease on the generation published.
LEMMA PublishStep ==
  ASSUME NEW m, NEW g, NEW s, Books(m, g, s), NEW l \in LoadId, Accepted(m, l),
         NEW k, k = m.loads[l], NEW n, n = Cardinality(m.waiters[k]),
         m.nextLease + n <= MaxLeases
  PROVE  /\ Books(Publish(m, l), g \cup FreshLeases(m, n), [s EXCEPT ![k] = m.nextGen[k]])
         /\ Publish(m, l).gen = [m.gen EXCEPT ![k] = m.nextGen[k]]
<1>. DEFINE p == PoolOf[k]
            left == SatSub(m.reserved[p], m.bytes[k])
            more == m.resident[p] + m.bytes[k]
            next == m.nextGen[k] + 1
            e == [m EXCEPT !.loads[l] = NoKey,
                           !.reserved[p] = left,
                           !.st[k] = "Resident",
                           !.load[k] = NoLoad,
                           !.gen[k] = m.nextGen[k],
                           !.nextGen[k] = next,
                           !.waiters[k] = {},
                           !.pins[k] = n,
                           !.resident[p] = more]
            t == Touch(e, k)
            u == NewLeases(t, k, n)
            L == InPool(m, p, "Loading")
            R == InPool(m, p, "Resident")
            z == [s EXCEPT ![k] = m.nextGen[k]]
            fresh == FreshLeases(m, n)
<1>1. Typed(m) /\ Leased(m, g) /\ Fresh(m, s) /\ \A q \in Pool : Accounted(m, q)
  BY DEF Books
<1>2. k \in Key /\ p \in Pool /\ m.st[k] = "Loading"
  BY <1>1, ResidencyConstants DEF Accepted, Typed
<1>3. n \in Nat
  <2>1. m.waiters[k] \in SUBSET Waiter /\ IsFiniteSet(Waiter)
    BY <1>1, <1>2, ResidencyConstants DEF Typed
  <2>2. IsFiniteSet(m.waiters[k])
    BY <2>1, FS_Subset
  <2>. QED  BY <2>2, FS_CardinalityType
<1>4. k \in L /\ L \in SUBSET Key /\ m.bytes \in [Key -> Nat] /\ R \in SUBSET Key
      /\ k \notin R
  BY <1>1, <1>2 DEF InPool, Typed
<1>5. /\ Tally(m.bytes, L) = Tally(m.bytes, L \ {k}) + m.bytes[k]
      /\ Tally(m.bytes, L \ {k}) \in Nat /\ m.bytes[k] \in Nat
  <2>1. m.bytes \in [Key -> Nat] /\ L \in SUBSET Key /\ k \in L
    BY <1>4
  <2>. HIDE DEF L
  <2>. QED  BY <2>1, KeyFinite, TallyWithout
<1>6. Tally(m.bytes, R \cup {k}) = Tally(m.bytes, R) + m.bytes[k]
  <2>1. m.bytes \in [Key -> Nat] /\ R \in SUBSET Key /\ k \in Key /\ k \notin R
    BY <1>2, <1>4
  <2>. HIDE DEF R
  <2>. QED  BY <2>1, KeyFinite, TallyWith
<1>7. /\ m.reserved[p] = Tally(m.bytes, L) /\ m.resident[p] = Tally(m.bytes, R)
      /\ m.resident[p] + m.reserved[p] <= Budget[p]
  <2>1. Accounted(m, p)
    BY <1>1, <1>2
  <2>. QED  BY <2>1 DEF Accounted
<1>8. left = Tally(m.bytes, L \ {k}) /\ left \in Nat
  <2>1. \A a, b \in Nat : SatSub(a + b, b) = a
    BY DEF SatSub
  <2>2. m.reserved[p] = Tally(m.bytes, L \ {k}) + m.bytes[k]
    BY <1>5, <1>7
  <2>. HIDE DEF p, L
  <2>. QED  BY <1>5, <2>1, <2>2
<1>9. m.resident[p] \in Nat /\ more \in Nat /\ m.nextGen[k] \in Nat /\ next \in Nat
      /\ Budget[p] \in Nat
  BY <1>1, <1>2, ResidencyConstants DEF Typed
<1>10. Publish(m, l) = RefreshPinned(u, p)
  <2>. HIDE DEF NewLeases, Touch
  <2>. QED  BY DEF Publish
<1>11. /\ Typed(e)
       /\ e.st = [m.st EXCEPT ![k] = "Resident"] /\ e.bytes = m.bytes
       /\ e.gen = [m.gen EXCEPT ![k] = m.nextGen[k]]
       /\ e.nextGen = [m.nextGen EXCEPT ![k] = next]
       /\ e.pins = [m.pins EXCEPT ![k] = n]
       /\ e.reserved = [m.reserved EXCEPT ![p] = left]
       /\ e.resident = [m.resident EXCEPT ![p] = more]
       /\ e.leaseKey = m.leaseKey /\ e.leaseGen = m.leaseGen
       /\ e.nextLease = m.nextLease /\ e.pinned = m.pinned
  <2>. HIDE DEF left, more, next, p, L, R
  <2>. DEFINE loads == [m.loads EXCEPT ![l] = NoKey]
              reserved == [m.reserved EXCEPT ![p] = left]
              st == [m.st EXCEPT ![k] = "Resident"]
              load == [m.load EXCEPT ![k] = NoLoad]
              gen == [m.gen EXCEPT ![k] = m.nextGen[k]]
              nextGen == [m.nextGen EXCEPT ![k] = next]
              waiters == [m.waiters EXCEPT ![k] = {}]
              pins == [m.pins EXCEPT ![k] = n]
              resident == [m.resident EXCEPT ![p] = more]
  <2>1. st \in [Key -> EntryState] /\ load \in [Key -> LoadId \cup {NoLoad}]
    BY <1>1 DEF Typed, EntryState
  <2>2. gen \in [Key -> Nat \cup {NoGen}] /\ nextGen \in [Key -> Nat]
    BY <1>1, <1>9 DEF Typed
  <2>3. waiters \in [Key -> SUBSET Waiter] /\ loads \in [LoadId -> Key \cup {NoKey}]
    BY <1>1 DEF Typed
  <2>4. pins \in [Key -> Nat]
    BY <1>1, <1>3 DEF Typed
  <2>5. reserved \in [Pool -> Nat] /\ resident \in [Pool -> Nat]
    BY <1>1, <1>8, <1>9 DEF Typed
  <2>6. e = [m EXCEPT !.loads = loads, !.reserved = reserved, !.st = st, !.load = load,
                      !.gen = gen, !.nextGen = nextGen, !.waiters = waiters,
                      !.pins = pins, !.resident = resident]
    BY <1>1 DEF Typed
  <2>. HIDE DEF loads, reserved, st, load, gen, nextGen, waiters, pins, resident, e
  <2>7. /\ Typed(e) /\ e.st = st /\ e.bytes = m.bytes /\ e.gen = gen
        /\ e.nextGen = nextGen /\ e.pins = pins /\ e.reserved = reserved
        /\ e.resident = resident /\ e.leaseKey = m.leaseKey
        /\ e.leaseGen = m.leaseGen /\ e.nextLease = m.nextLease /\ e.pinned = m.pinned
    BY ZenonT(60), <1>1, <2>1, <2>2, <2>3, <2>4, <2>5, <2>6 DEF Typed
  <2>. QED  BY <2>7 DEF st, gen, nextGen, pins, reserved, resident
<1>. HIDE DEF e
<1>12. Typed(t) /\ \E r : t = [e EXCEPT !.recency = r]
  <2>1. Typed(e)
    BY <1>11
  <2>. QED  BY <2>1, TouchFields
<1>. HIDE DEF t
<1>13. /\ t.st = e.st /\ t.bytes = e.bytes /\ t.gen = e.gen /\ t.nextGen = e.nextGen
       /\ t.pins = e.pins /\ t.reserved = e.reserved /\ t.resident = e.resident
       /\ t.leaseKey = e.leaseKey /\ t.leaseGen = e.leaseGen
       /\ t.nextLease = e.nextLease /\ t.pinned = e.pinned
  BY <1>11, <1>12 DEF Typed
<1>. DEFINE keys == [x \in LeaseId |-> IF x \in fresh THEN k ELSE m.leaseKey[x]]
            gens == [x \in LeaseId |-> IF x \in fresh THEN t.gen[k] ELSE m.leaseGen[x]]
<1>15. Typed(u) /\ u = [t EXCEPT !.leaseKey = keys, !.leaseGen = gens,
                                 !.nextLease = m.nextLease + n]
  <2>1. FreshLeases(t, n) = fresh /\ t.nextLease = m.nextLease
        /\ t.leaseKey = m.leaseKey /\ t.leaseGen = m.leaseGen
    BY <1>11, <1>13 DEF FreshLeases
  <2>2. t.nextLease + n <= MaxLeases
    BY <2>1
  <2>. HIDE DEF fresh
  <2>3. Grants(t, k, n, u)
    BY <1>2, <1>3, <1>12, <2>2, NewLeasesFields
  <2>. QED  BY <2>1, <2>3 DEF Grants
<1>. HIDE DEF u, keys, gens
<1>16. /\ u.st = t.st /\ u.bytes = t.bytes /\ u.gen = t.gen /\ u.nextGen = t.nextGen
       /\ u.pins = t.pins /\ u.reserved = t.reserved /\ u.resident = t.resident
       /\ u.leaseKey = keys /\ u.leaseGen = gens
       /\ u.nextLease = m.nextLease + n /\ u.pinned = t.pinned
  BY ZenonT(60), <1>12, <1>15 DEF Typed
<1>17. /\ u.st = [m.st EXCEPT ![k] = "Resident"] /\ u.bytes = m.bytes
       /\ u.gen = [m.gen EXCEPT ![k] = m.nextGen[k]]
       /\ u.nextGen = [m.nextGen EXCEPT ![k] = next]
       /\ u.pins = [m.pins EXCEPT ![k] = n]
       /\ u.reserved = [m.reserved EXCEPT ![p] = left]
       /\ u.resident = [m.resident EXCEPT ![p] = more]
       /\ u.pinned = m.pinned
       /\ u.leaseKey = [x \in LeaseId |-> IF x \in fresh THEN k ELSE m.leaseKey[x]]
       /\ u.leaseGen = [x \in LeaseId |-> IF x \in fresh THEN u.gen[k] ELSE m.leaseGen[x]]
       /\ u.nextLease = m.nextLease + n
  BY <1>11, <1>13, <1>16 DEF keys, gens
<1>18. Leased(u, g \cup fresh)
  <2>. HIDE DEF fresh, next, left, more
  <2>1. m.pins[k] = 0
    BY <1>1, <1>2, UnleasedUnpinned
  <2>2. /\ u.st[k] = "Resident" /\ m.st[k] # "Resident" /\ u.pins[k] = m.pins[k] + n
        /\ \A x \in Key : x # k =>
            u.st[x] = m.st[x] /\ u.gen[x] = m.gen[x] /\ u.pins[x] = m.pins[x]
    BY <1>1, <1>2, <1>3, <1>17, <2>1 DEF Typed
  <2>3. fresh = FreshLeases(m, n)
    BY SMTT(30) DEF fresh
  <2>4. AddsLeases(m, k, n, u)
    BY <1>17, <2>2, <2>3 DEF AddsLeases
  <2>. QED  BY <1>1, <1>2, <1>3, <2>3, <2>4, LeasesAdded
<1>19. Fresh(u, z)
  <2>1. s \in [Key -> Nat \cup {NoGen}] /\ \A x \in Key : s[x] < m.nextGen[x]
    BY <1>1 DEF Fresh
  <2>2. z \in [Key -> Nat \cup {NoGen}]
    BY <1>9, <2>1
  <2>3. \A x \in Key : z[x] < u.nextGen[x]
    BY <1>1, <1>2, <1>9, <1>17, <2>1, SMTT(30) DEF Typed
  <2>. QED  BY <2>2, <2>3 DEF Fresh
<1>20. /\ u.resident[p] + u.reserved[p] <= Budget[p]
       /\ u.resident[p] = Tally(u.bytes, InPool(u, p, "Resident"))
       /\ u.reserved[p] = Tally(u.bytes, InPool(u, p, "Loading"))
  <2>1. InPool(u, p, "Resident") = R \cup {k} /\ InPool(u, p, "Loading") = L \ {k}
    BY <1>1, <1>2, <1>17 DEF Typed, InPool
  <2>2. u.resident[p] = more /\ u.reserved[p] = left
    BY <1>1, <1>2, <1>17 DEF Typed
  <2>3. more = Tally(m.bytes, R) + m.bytes[k]
    BY <1>7
  <2>. HIDE DEF left, p, L, R
  <2>4. u.resident[p] + u.reserved[p] <= Budget[p]
    <3>. DEFINE a == Tally(m.bytes, R)
                b == Tally(m.bytes, L \ {k})
                c == m.bytes[k]
    <3>1. a \in Nat /\ b \in Nat /\ c \in Nat
      BY <1>5, <1>7, <1>9
    <3>2. a + (b + c) <= Budget[p]
      BY <1>5, <1>7
    <3>3. u.resident[p] + u.reserved[p] = (a + c) + b
      BY <1>7, <1>8, <2>2, <2>3
    <3>. HIDE DEF a, b, c
    <3>. QED  BY <1>9, <3>1, <3>2, <3>3
  <2>. QED  BY <1>6, <1>8, <1>17, <2>1, <2>2, <2>3, <2>4
<1>21. ASSUME NEW q \in Pool, q # p
       PROVE  Accounted(u, q)
  <2>1. /\ u.resident[q] = m.resident[q] /\ u.reserved[q] = m.reserved[q]
        /\ u.pinned[q] = m.pinned[q]
    BY <1>1, <1>17, <1>21 DEF Typed
  <2>2. \A x \in Key : PoolOf[x] = q =>
          u.st[x] = m.st[x] /\ u.bytes[x] = m.bytes[x] /\ u.pins[x] = m.pins[x]
    BY <1>1, <1>2, <1>17, <1>21 DEF Typed
  <2>3. Accounted(m, q)
    BY <1>1
  <2>. QED  BY <2>1, <2>2, <2>3, UntouchedPool
<1>22. Typed(u) /\ p \in Pool /\ \A q \in Pool : q # p => Accounted(u, q)
  BY <1>2, <1>15, <1>21
<1>23. Books(RefreshPinned(u, p), g \cup fresh, z) /\ RefreshPinned(u, p).gen = u.gen
  <2>. HIDE DEF p, fresh, z
  <2>. QED  BY <1>18, <1>19, <1>20, <1>22, RefreshStep
<1>. QED  BY <1>10, <1>17, <1>23

\* acquire on one resident key pins it once more.
LEMMA AcquireStep ==
  ASSUME NEW m, NEW g, NEW s, Books(m, g, s), NEW k \in Key,
         m.st[k] = "Resident", m.nextLease < MaxLeases
  PROVE  /\ Books(Acquire(m, k), g \cup {m.nextLease}, s)
         /\ Acquire(m, k).gen = m.gen
<1>. DEFINE p == PoolOf[k]
            pins == [m.pins EXCEPT ![k] = m.pins[k] + 1]
            a == [m EXCEPT !.pins = pins]
            u == NewLeases(a, k, 1)
            e == Touch(u, k)
            R == InPool(m, p, "Resident")
            fresh == FreshLeases(m, 1)
<1>1. Typed(m) /\ Leased(m, g) /\ Fresh(m, s) /\ \A q \in Pool : Accounted(m, q)
  BY DEF Books
<1>2. p \in Pool /\ m.nextLease \in Nat /\ m.nextLease + 1 <= MaxLeases /\ m.pins[k] \in Nat
  BY <1>1, ResidencyConstants DEF Typed
<1>3. fresh = {m.nextLease}
  BY <1>2 DEF FreshLeases
<1>. HIDE DEF fresh
<1>6. /\ Typed(a) /\ a.st = m.st /\ a.bytes = m.bytes /\ a.gen = m.gen
      /\ a.nextGen = m.nextGen /\ a.pins = pins /\ a.reserved = m.reserved
      /\ a.resident = m.resident /\ a.leaseKey = m.leaseKey
      /\ a.leaseGen = m.leaseGen /\ a.nextLease = m.nextLease /\ a.pinned = m.pinned
  <2>1. pins \in [Key -> Nat]
    BY <1>1, <1>2 DEF Typed
  <2>. HIDE DEF pins
  <2>. QED  BY <1>1, <2>1 DEF Typed
<1>7. Acquire(m, k) = RefreshPinned(e, p)
  <2>1. [m EXCEPT !.pins[k] = @ + 1] = a
    BY <1>1 DEF Typed
  <2>. HIDE DEF a
  <2>. QED  BY <2>1 DEF Acquire
<1>. HIDE DEF a, pins
<1>8. Typed(u) /\ u = [a EXCEPT
         !.leaseKey = [l \in LeaseId |-> IF l \in fresh THEN k ELSE m.leaseKey[l]],
         !.leaseGen = [l \in LeaseId |-> IF l \in fresh THEN m.gen[k] ELSE m.leaseGen[l]],
         !.nextLease = m.nextLease + 1]
  <2>1. a.nextLease + 1 <= MaxLeases /\ 1 \in Nat
    BY <1>2, <1>6
  <2>2. Grants(a, k, 1, u)
    BY <1>6, <2>1, NewLeasesFields
  <2>3. FreshLeases(a, 1) = fresh
    BY <1>6 DEF FreshLeases, fresh
  <2>. QED  BY <1>6, <2>2, <2>3 DEF Grants
<1>. HIDE DEF u
<1>9. Typed(e) /\ \E r : e = [u EXCEPT !.recency = r]
  BY ZenonT(60), <1>8, TouchFields
<1>. HIDE DEF e
<1>10. /\ u.st = m.st /\ u.bytes = m.bytes /\ u.gen = m.gen
       /\ u.nextGen = m.nextGen /\ u.pins = pins /\ u.reserved = m.reserved
       /\ u.resident = m.resident /\ u.pinned = m.pinned
       /\ u.leaseKey = [l \in LeaseId |-> IF l \in fresh THEN k ELSE m.leaseKey[l]]
       /\ u.leaseGen = [l \in LeaseId |-> IF l \in fresh THEN m.gen[k] ELSE m.leaseGen[l]]
       /\ u.nextLease = m.nextLease + 1
  BY ZenonT(60), <1>6, <1>8 DEF Typed
<1>11. /\ e.st = u.st /\ e.bytes = u.bytes /\ e.gen = u.gen
       /\ e.nextGen = u.nextGen /\ e.pins = u.pins /\ e.reserved = u.reserved
       /\ e.resident = u.resident /\ e.pinned = u.pinned /\ e.leaseKey = u.leaseKey
       /\ e.leaseGen = u.leaseGen /\ e.nextLease = u.nextLease
  BY ZenonT(60), <1>8, <1>9 DEF Typed
<1>12. /\ e.pins[k] = m.pins[k] + 1
       /\ \A x \in Key : x # k => e.pins[x] = m.pins[x]
  BY <1>1, <1>10, <1>11 DEF Typed, pins
<1>13. Leased(e, g \cup fresh)
  <2>1. fresh = FreshLeases(m, 1)
    BY DEF fresh
  <2>2. AddsLeases(m, k, 1, e)
    BY <1>10, <1>11, <1>12, <2>1 DEF AddsLeases
  <2>. QED  BY <1>1, <1>2, <2>1, <2>2, LeasesAdded
<1>14. Fresh(e, s)
  BY <1>1, <1>10, <1>11 DEF Fresh
<1>15. /\ e.resident[p] + e.reserved[p] <= Budget[p]
       /\ e.resident[p] = Tally(e.bytes, InPool(e, p, "Resident"))
       /\ e.reserved[p] = Tally(e.bytes, InPool(e, p, "Loading"))
  <2>1. /\ InPool(e, p, "Resident") = InPool(m, p, "Resident")
        /\ InPool(e, p, "Loading") = InPool(m, p, "Loading")
    BY <1>10, <1>11 DEF InPool
  <2>2. Accounted(m, p)
    BY <1>1, <1>2
  <2>. QED  BY <1>10, <1>11, <2>1, <2>2 DEF Accounted
<1>16. ASSUME NEW q \in Pool, q # p
       PROVE  Accounted(e, q)
  <2>1. \A x \in Key : PoolOf[x] = q =>
          e.st[x] = m.st[x] /\ e.bytes[x] = m.bytes[x] /\ e.pins[x] = m.pins[x]
    BY <1>10, <1>11, <1>12, <1>16
  <2>2. Accounted(m, q)
    BY <1>1
  <2>. QED  BY <1>10, <1>11, <2>1, <2>2, UntouchedPool
<1>. HIDE DEF p
<1>17. /\ Books(RefreshPinned(e, p), g \cup fresh, s)
       /\ RefreshPinned(e, p).gen = e.gen
  <2>1. \A q \in Pool : q # p => Accounted(e, q)
    BY <1>16
  <2>. QED  BY <1>2, <1>9, <1>13, <1>14, <1>15, <2>1, RefreshStep
<1>. QED  BY <1>3, <1>7, <1>10, <1>11, <1>17

\* release: a lease that is out goes back and unpins its key once; one that was
\* given back before, or whose id was never granted, changes nothing.
LEMMA ReleaseStep ==
  ASSUME NEW m, NEW g, NEW s, Books(m, g, s), NEW l \in LeaseId
  PROVE  Books(Release(m, l), g \ {l}, s) /\ Release(m, l).gen = m.gen
<1>1. Typed(m) /\ Leased(m, g) /\ Fresh(m, s) /\ \A q \in Pool : Accounted(m, q)
  BY DEF Books
<1>2. CASE l \notin g
  <2>1. ~ Releasable(m, l)
    BY <1>1, <1>2 DEF Leased, Releasable
  <2>2. g \ {l} = g
    BY <1>2
  <2>. QED  BY <2>1, <2>2 DEF Release
<1>3. CASE l \in g
  <2>. DEFINE k == m.leaseKey[l]
              p == PoolOf[k]
              less == SatSub(m.pins[k], 1)
              pins == [m.pins EXCEPT ![k] = less]
              keys == [m.leaseKey EXCEPT ![l] = NoKey]
              gens == [m.leaseGen EXCEPT ![l] = NoGen]
              e == [m EXCEPT !.pins = pins, !.leaseKey = keys, !.leaseGen = gens]
  <2>1. k \in Key /\ p \in Pool /\ m.pins[k] # 0 /\ m.pins[k] \in Nat
    BY <1>1, <1>3, LeasedIsPinned, ResidencyConstants DEF Typed
  <2>2. less = m.pins[k] - 1 /\ less \in Nat
    BY <2>1 DEF SatSub
  <2>3. Releasable(m, l)
    BY <1>1, <1>3, <2>1, ResidencyConstants DEF Leased, Releasable
  <2>4. Release(m, l) = RefreshPinned(e, p)
    <3>. HIDE DEF RefreshPinned
    <3>. QED  BY <1>1, <2>3 DEF Release, Typed
  <2>. HIDE DEF less
  <2>5. /\ pins \in [Key -> Nat] /\ pins[k] = less
        /\ \A x \in Key : x # k => pins[x] = m.pins[x]
    BY <1>1, <2>1, <2>2 DEF Typed
  <2>6. /\ keys \in [LeaseId -> Key \cup {NoKey}] /\ gens \in [LeaseId -> Nat \cup {NoGen}]
        /\ keys[l] = NoKey
        /\ \A x \in LeaseId : x # l => keys[x] = m.leaseKey[x] /\ gens[x] = m.leaseGen[x]
    BY <1>1 DEF Typed
  <2>. HIDE DEF pins, keys, gens
  <2>7. /\ Typed(e) /\ e.st = m.st /\ e.bytes = m.bytes /\ e.gen = m.gen
        /\ e.nextGen = m.nextGen /\ e.pins = pins /\ e.reserved = m.reserved
        /\ e.resident = m.resident /\ e.leaseKey = keys
        /\ e.leaseGen = gens /\ e.nextLease = m.nextLease /\ e.pinned = m.pinned
    BY <1>1, <2>5, <2>6 DEF Typed
  <2>. HIDE DEF e
  <2>8. Leased(e, g \ {l})
    <3>1. g \subseteq LeaseId
      BY <1>1 DEF Leased
    <3>2. \A x \in g \ {l} : x < e.nextLease
      BY <1>1, <2>7 DEF Leased
    <3>3. \A x \in LeaseId : x \in g \ {l} <=> e.leaseKey[x] # NoKey
      BY <1>1, <2>6, <2>7 DEF Leased
    <3>4. \A x \in g \ {l} : e.st[e.leaseKey[x]] = "Resident"
                            /\ e.gen[e.leaseKey[x]] = e.leaseGen[x]
      BY <1>1, <2>6, <2>7, <3>1 DEF Leased
    <3>5. ASSUME NEW x \in Key
          PROVE  e.pins[x] = Cardinality(Leases(e, g \ {l}, x))
      <4>1. IsFiniteSet(Leases(m, g, x)) /\ m.pins[x] = Cardinality(Leases(m, g, x))
        BY <1>1, <3>1, LeaseSetsFinite DEF Leased
      <4>2. Leases(e, g \ {l}, x) = Leases(m, g, x) \ {l}
        BY <2>6, <2>7, <3>1 DEF Leases
      <4>3. Cardinality(Leases(m, g, x) \ {l}) =
              IF l \in Leases(m, g, x) THEN Cardinality(Leases(m, g, x)) - 1
                                       ELSE Cardinality(Leases(m, g, x))
        BY <4>1, FS_RemoveElement
      <4>4. l \in Leases(m, g, x) <=> x = k
        BY <1>3 DEF Leases
      <4>. QED  BY <2>2, <2>5, <2>7, <4>1, <4>2, <4>3, <4>4
    <3>. QED  BY <3>1, <3>2, <3>3, <3>4, <3>5 DEF Leased
  <2>9. Fresh(e, s)
    BY <1>1, <2>7 DEF Fresh
  <2>10. /\ e.resident[p] + e.reserved[p] <= Budget[p]
         /\ e.resident[p] = Tally(e.bytes, InPool(e, p, "Resident"))
         /\ e.reserved[p] = Tally(e.bytes, InPool(e, p, "Loading"))
    <3>1. /\ InPool(e, p, "Resident") = InPool(m, p, "Resident")
          /\ InPool(e, p, "Loading") = InPool(m, p, "Loading")
      BY <2>7 DEF InPool
    <3>2. Accounted(m, p)
      BY <1>1, <2>1
    <3>. QED  BY <2>7, <3>1, <3>2 DEF Accounted
  <2>11. ASSUME NEW q \in Pool, q # p
         PROVE  Accounted(e, q)
    <3>1. \A x \in Key : PoolOf[x] = q =>
            e.st[x] = m.st[x] /\ e.bytes[x] = m.bytes[x] /\ e.pins[x] = m.pins[x]
      BY <2>5, <2>7, <2>11
    <3>2. Accounted(m, q)
      BY <1>1
    <3>. QED  BY <2>7, <3>1, <3>2, UntouchedPool
  <2>12. Books(RefreshPinned(e, p), g \ {l}, s) /\ RefreshPinned(e, p).gen = e.gen
    <3>1. Typed(e) /\ p \in Pool /\ \A q \in Pool : q # p => Accounted(e, q)
      BY <2>1, <2>7, <2>11
    <3>. HIDE DEF p
    <3>. QED  BY <2>8, <2>9, <2>10, <3>1, RefreshStep
  <2>. QED  BY <2>4, <2>7, <2>12
<1>. QED  BY <1>2, <1>3
-----------------------------------------------------------------------------
\* begin_load on an absent or failed key, room found or not.
LEMMA BeginStep ==
  ASSUME NEW m, NEW g, NEW s, Books(m, g, s), NEW k \in Key,
         m.st[k] \in {"Absent", "Failed"}, NEW size \in Nat, NEW w \in Waiter,
         m.nextLoad < MaxLoads
  PROVE  /\ Books(BeginStart(m, k, size, w), g, s)
         /\ \A x \in Key : BeginStart(m, k, size, w).gen[x] \in {m.gen[x], NoGen}
<1>. DEFINE p == PoolOf[k]
            V == Victims(m, p, size)
            e == Evict(m, p, V)
            l == m.nextLoad
<1>1. Typed(m) /\ \A q \in Pool : Accounted(m, q)
  BY DEF Books
<1>2. p \in Pool
  BY ResidencyConstants
<1>3. V \in SUBSET Evictable(m, p)
  <2>. HIDE DEF p
  <2>. QED  BY DEF Victims
<1>4. Books(e, g, s) /\ \A x \in Key : e.gen[x] \in {m.gen[x], NoGen}
  <2>. HIDE DEF p, V
  <2>. QED  BY <1>2, <1>3, EvictStep
<1>5. CASE ~ SpaceFound(m, p, size)
  <2>1. BeginStart(m, k, size, w) = e
    BY <1>5 DEF BeginStart
  <2>. QED  BY <1>4, <2>1
<1>6. CASE SpaceFound(m, p, size)
  <2>. DEFINE n == Started(e, k, size, w, l, p)
  <2>1. BeginStart(m, k, size, w) = n
    BY <1>6 DEF BeginStart, Started
  <2>2. e.st[k] = m.st[k] /\ e.nextLoad = l /\ e.reserved = m.reserved
        /\ e.resident[p] = SatSub(m.resident[p], Tally(m.bytes, V))
    <3>1. CASE V = {}
      <4>1. e = m
        BY <3>1 DEF Evict
      <4>2. m.resident[p] \in Nat
        BY <1>1, <1>2 DEF Typed
      <4>3. SatSub(m.resident[p], Tally(m.bytes, V)) = m.resident[p]
        <5>1. Tally(m.bytes, V) = 0
          BY <3>1, TallyNone
        <5>. HIDE DEF V, p
        <5>. QED  BY <4>2, <5>1 DEF SatSub
      <4>. HIDE DEF e, V, p
      <4>. QED  BY <4>1, <4>3
    <3>2. CASE V # {}
      <4>1. Evicted(m, p, V, e)
        <5>. HIDE DEF V, p
        <5>. QED  BY <1>1, <1>2, <1>3, <3>2, EvictFields
      <4>2. k \notin V
        <5>. HIDE DEF V
        <5>. QED  BY <1>3 DEF Evictable, InPool
      <4>. HIDE DEF V, e, p
      <4>3. m.resident \in [Pool -> Nat]
        BY <1>1 DEF Typed
      <4>. QED  BY <1>2, <4>1, <4>2, <4>3 DEF Evicted
    <3>. QED  BY <3>1, <3>2
  <2>3. e.resident[p] + e.reserved[p] + size <= Budget[p]
    <3>1. Fits(m, p, size, V)
      BY <1>6 DEF SpaceFound
    <3>2. SumBytes(m, V) = Tally(m.bytes, V)
      BY DEF SumBytes
    <3>. HIDE DEF V, e, p
    <3>. QED  BY <2>2, <3>1, <3>2 DEF Fits
  <2>4. l \in LoadId /\ l + 1 \in 0 .. MaxLoads
    BY <1>1, ResidencyConstants DEF Typed, LoadId
  <2>5. Books(n, g, s) /\ n.gen = e.gen
    <3>1. e.st[k] # "Resident" /\ e.st[k] # "Loading" /\ p = PoolOf[k] /\ l = e.nextLoad
      BY <2>2
    <3>. HIDE DEF e, p, l
    <3>. QED  BY <1>4, <2>3, <2>4, <3>1, StartStep
  <2>. HIDE DEF n, e
  <2>. QED  BY <1>4, <2>1, <2>5
<1>. QED  BY <1>5, <1>6

\* complete_load, for whatever load id the loader reports.
LEMMA CompleteStep ==
  ASSUME NEW m, NEW g, NEW s, Books(m, g, s), NEW l \in LoadId, NEW ok \in BOOLEAN,
         NEW wakes, wakes = IF Accepted(m, l) THEN m.waiters[m.loads[l]] ELSE {},
         NEW leases, leases = IF ok THEN FreshLeases(m, Cardinality(wakes)) ELSE {},
         leases \subseteq LeaseId
  PROVE  LET n == CompleteLoad(m, l, ok)
             z == IF ok /\ Accepted(m, l)
                  THEN [s EXCEPT ![m.loads[l]] = n.gen[m.loads[l]]] ELSE s
         IN  /\ Books(n, g \cup leases, z)
             /\ \A x \in Key : n.gen[x] # m.gen[x] => n.gen[x] > s[x]
<1>. DEFINE n == CompleteLoad(m, l, ok)
            k == m.loads[l]
            c == Cardinality(wakes)
            z == IF ok /\ Accepted(m, l) THEN [s EXCEPT ![k] = n.gen[k]] ELSE s
<1>1. Typed(m) /\ Fresh(m, s) /\ m.nextLease \in Nat /\ m.nextLease <= MaxLeases
  BY ResidencyConstants DEF Books, Typed
<1>2. CASE ~ Accepted(m, l)
  <2>1. n = [m EXCEPT !.loads[l] = NoKey] /\ z = s
    BY <1>2 DEF CompleteLoad
  <2>2. leases = {}
    <3>1. c = 0
      BY <1>2, FS_EmptySet
    <3>. HIDE DEF c
    <3>2. FreshLeases(m, c) = {}
      BY <1>1, <3>1 DEF FreshLeases
    <3>. QED  BY <3>2 DEF c
  <2>. HIDE DEF n, z
  <2>3. Books(n, g, s) /\ n.gen = m.gen
    BY <2>1, ForgetLoadStep
  <2>4. g \cup leases = g
    BY <2>2
  <2>. QED  BY <2>1, <2>3, <2>4 DEF n, z
<1>3. CASE Accepted(m, l) /\ ~ ok
  <2>1. n = LoadFails(m, l) /\ leases = {} /\ z = s
    BY <1>3 DEF CompleteLoad
  <2>. HIDE DEF n, z
  <2>2. Books(n, g, s) /\ n.gen = m.gen
    BY <1>3, <2>1, FailedStep
  <2>3. g \cup leases = g
    BY <2>1
  <2>. QED  BY <2>1, <2>2, <2>3 DEF n, z
<1>4. CASE Accepted(m, l) /\ ok
  <2>1. n = Publish(m, l) /\ leases = FreshLeases(m, c) /\ c = Cardinality(m.waiters[k])
    BY <1>4 DEF CompleteLoad
  <2>2. k \in Key
    BY <1>1, <1>4 DEF Accepted, Typed
  <2>3. c \in Nat
    <3>1. m.waiters[k] \in SUBSET Waiter /\ IsFiniteSet(Waiter)
      BY <1>1, <2>2, ResidencyConstants DEF Typed
    <3>2. IsFiniteSet(m.waiters[k])
      BY <3>1, FS_Subset
    <3>. QED  BY <2>1, <3>2, FS_CardinalityType
  <2>. HIDE DEF c
  <2>4. m.nextLease + c <= MaxLeases
    <3>1. CASE c = 0
      BY <1>1, <3>1
    <3>2. CASE c # 0
      <4>1. m.nextLease + c - 1 \in FreshLeases(m, c)
        BY <1>1, <2>3, <3>2 DEF FreshLeases
      <4>2. m.nextLease + c - 1 \in LeaseId
        BY <2>1, <4>1
      <4>. QED  BY <1>1, <2>3, <4>2, ResidencyConstants DEF LeaseId
    <3>. QED  BY <3>1, <3>2
  <2>. HIDE DEF n
  <2>5. /\ Books(n, g \cup leases, [s EXCEPT ![k] = m.nextGen[k]])
        /\ n.gen = [m.gen EXCEPT ![k] = m.nextGen[k]]
    <3>. HIDE DEF k
    <3>1. k = m.loads[l]
      BY DEF k
    <3>. QED  BY <1>4, <2>1, <2>4, <3>1, PublishStep
  <2>6. n.gen[k] = m.nextGen[k] /\ \A x \in Key : x # k => n.gen[x] = m.gen[x]
    BY <1>1, <2>2, <2>5 DEF Typed
  <2>7. s[k] < m.nextGen[k]
    BY <1>1, <2>2 DEF Fresh
  <2>8. s[k] \in Int /\ m.nextGen[k] \in Nat
    BY <1>1, <2>2 DEF Fresh, Typed, NoGen
  <2>9. \A x \in Key : n.gen[x] # m.gen[x] => n.gen[x] > s[x]
    BY <2>6, <2>7, <2>8
  <2>10. z = [s EXCEPT ![k] = m.nextGen[k]]
    BY <1>4, <2>6
  <2>. HIDE DEF z, k
  <2>11. Books(n, g \cup leases, z)
    BY <2>5, <2>10
  <2>. QED  BY <2>9, <2>11 DEF n, z, k
<1>. QED  BY <1>2, <1>3, <1>4
-----------------------------------------------------------------------------
(***************************************************************************)
(* The specification keeps its books.                                      *)
(***************************************************************************)
ResidencyInv == Books(mgr, granted, seen)

\* A generation that appears is newer than all that were seen for its key.
NewGenerationFresh ==
  \A k \in Key : mgr'.gen[k] \notin {mgr.gen[k], NoGen} => mgr'.gen[k] > seen[k]

\* The books of a new manager.
LEMMA NewBooks == Books(NewManager, {}, [k \in Key |-> NoGen])
<1>. DEFINE m == NewManager
<1>1. Typed(m)
  BY ResidencyConstants DEF NewManager, Typed, EntryState
<1>2. m.bytes \in [Key -> Nat] /\ \A k \in Key : m.st[k] = "Absent" /\ m.pins[k] = 0
  BY DEF NewManager
<1>3. ASSUME NEW p \in Pool
      PROVE  Accounted(m, p)
  <2>1. /\ InPool(m, p, "Resident") = {} /\ InPool(m, p, "Loading") = {}
        /\ Held(m, p) = {}
    BY <1>2 DEF InPool, Held
  <2>2. m.resident[p] = 0 /\ m.reserved[p] = 0 /\ m.pinned[p] = 0
    BY DEF NewManager
  <2>3. Tally(m.bytes, {}) = 0
    BY TallyNone
  <2>4. m.resident[p] + m.reserved[p] <= Budget[p]
    BY <2>2, ResidencyConstants
  <2>. QED  BY <2>1, <2>2, <2>3, <2>4 DEF Accounted
<1>4. Leased(m, {})
  <2>1. \A l \in LeaseId : m.leaseKey[l] = NoKey
    BY DEF NewManager
  <2>2. \A k \in Key : Leases(m, {}, k) = {}
    BY DEF Leases
  <2>3. Cardinality({}) = 0
    BY FS_EmptySet
  <2>. QED  BY <1>2, <2>1, <2>2, <2>3 DEF Leased
<1>5. Fresh(m, [k \in Key |-> NoGen])
  BY DEF NewManager, Fresh, NoGen
<1>. QED  BY <1>1, <1>3, <1>4, <1>5 DEF Books

LEMMA ResidencyInit == Init => ResidencyInv
BY NewBooks DEF Init, ResidencyInv

LEMMA ResidencyNext ==
  ResidencyInv /\ [Next]_vars => ResidencyInv' /\ (NewGenerationFresh \/ UNCHANGED vars)
<1>. SUFFICES ASSUME Books(mgr, granted, seen), [Next]_vars
              PROVE  /\ Books(mgr', granted', seen')
                     /\ NewGenerationFresh \/ UNCHANGED vars
  BY DEF ResidencyInv
<1>0. Typed(mgr)
  BY DEF Books
<1>1. ASSUME NEW k \in Key, DoBeginHit(k)
      PROVE  Books(mgr', granted', seen') /\ NewGenerationFresh
  <2>1. mgr' = BeginHit(mgr, k) /\ granted' = granted /\ seen' = seen
    BY <1>1 DEF DoBeginHit
  <2>2. Books(mgr', granted, seen) /\ mgr'.gen = mgr.gen
    BY <2>1, HitStep
  <2>. QED  BY <2>1, <2>2 DEF NewGenerationFresh
<1>2. ASSUME NEW k \in Key, DoAcquire(k)
      PROVE  Books(mgr', granted', seen') /\ NewGenerationFresh
  <2>1. /\ mgr' = Acquire(mgr, k) /\ granted' = granted \cup {mgr.nextLease}
        /\ seen' = seen /\ mgr.st[k] = "Resident" /\ mgr.nextLease < MaxLeases
    BY <1>2 DEF DoAcquire
  <2>2. Books(mgr', granted', seen) /\ mgr'.gen = mgr.gen
    BY <2>1, AcquireStep
  <2>. QED  BY <2>1, <2>2 DEF NewGenerationFresh
<1>3. ASSUME NEW k \in Key, NEW bytes \in Size, NEW w \in Waiter, DoBeginJoin(k, bytes, w)
      PROVE  Books(mgr', granted', seen') /\ NewGenerationFresh
  <2>. DEFINE W == mgr.waiters[k] \cup {w}
  <2>1. /\ mgr' = [mgr EXCEPT !.waiters[k] = W] /\ granted' = granted /\ seen' = seen
    BY <1>0, <1>3 DEF DoBeginJoin, BeginJoin, Typed
  <2>2. W \in SUBSET Waiter
    BY <1>0 DEF Typed
  <2>. HIDE DEF W
  <2>3. Books(mgr', granted, seen) /\ mgr'.gen = mgr.gen
    BY <2>1, <2>2, WaitersStep
  <2>. QED  BY <2>1, <2>3 DEF NewGenerationFresh
<1>4. ASSUME NEW k \in Key, NEW bytes \in Size, NEW w \in Waiter, DoBeginStart(k, bytes, w)
      PROVE  Books(mgr', granted', seen') /\ NewGenerationFresh
  <2>1. /\ mgr' = BeginStart(mgr, k, bytes, w) /\ granted' = granted /\ seen' = seen
        /\ mgr.st[k] \in {"Absent", "Failed"} /\ mgr.nextLoad < MaxLoads
    BY <1>4 DEF DoBeginStart
  <2>2. bytes \in Nat
    BY SizeAssumption
  <2>3. Books(mgr', granted, seen) /\ \A x \in Key : mgr'.gen[x] \in {mgr.gen[x], NoGen}
    BY <2>1, <2>2, BeginStep
  <2>. QED  BY <2>1, <2>3 DEF NewGenerationFresh
<1>5. ASSUME NEW l \in LoadId, NEW ok \in BOOLEAN, DoCompleteLoad(l, ok)
      PROVE  Books(mgr', granted', seen') /\ NewGenerationFresh
  <2>. DEFINE wakes == IF Accepted(mgr, l) THEN mgr.waiters[mgr.loads[l]] ELSE {}
              leases == IF ok THEN FreshLeases(mgr, Cardinality(wakes)) ELSE {}
              z == IF ok /\ Accepted(mgr, l)
                   THEN [seen EXCEPT ![mgr.loads[l]] = mgr'.gen[mgr.loads[l]]] ELSE seen
  <2>1. /\ mgr' = CompleteLoad(mgr, l, ok) /\ granted' = granted \cup leases
        /\ seen' = z /\ leases \subseteq LeaseId
    BY <1>5 DEF DoCompleteLoad
  <2>2. /\ Books(mgr', granted', z)
        /\ \A x \in Key : mgr'.gen[x] # mgr.gen[x] => mgr'.gen[x] > seen[x]
    <3>. HIDE DEF leases, wakes
    <3>1. /\ wakes = IF Accepted(mgr, l) THEN mgr.waiters[mgr.loads[l]] ELSE {}
          /\ leases = IF ok THEN FreshLeases(mgr, Cardinality(wakes)) ELSE {}
      BY DEF leases, wakes
    <3>. QED  BY <2>1, <3>1, CompleteStep
  <2>. QED  BY <2>1, <2>2 DEF NewGenerationFresh
<1>6. ASSUME NEW l \in LoadId, NEW w \in Waiter, DoCancelWaiter(l, w)
      PROVE  Books(mgr', granted', seen') /\ NewGenerationFresh
  <2>1. mgr' = CancelWaiter(mgr, l, w) /\ granted' = granted /\ seen' = seen
    BY <1>6 DEF DoCancelWaiter
  <2>2. CASE mgr.loads[l] = NoKey
    <3>1. mgr' = mgr
      BY <2>1, <2>2 DEF CancelWaiter
    <3>. QED  BY <2>1, <3>1 DEF NewGenerationFresh
  <2>3. CASE mgr.loads[l] # NoKey
    <3>. DEFINE k == mgr.loads[l]
                W == mgr.waiters[k] \ {w}
    <3>1. k \in Key
      BY <1>0, <2>3 DEF Typed
    <3>2. mgr' = [mgr EXCEPT !.waiters[k] = W] /\ W \in SUBSET Waiter
      BY <1>0, <2>1, <2>3, <3>1 DEF CancelWaiter, Typed
    <3>. HIDE DEF k, W
    <3>3. Books(mgr', granted, seen) /\ mgr'.gen = mgr.gen
      BY <3>1, <3>2, WaitersStep
    <3>. QED  BY <2>1, <3>3 DEF NewGenerationFresh
  <2>. QED  BY <2>2, <2>3
<1>7. ASSUME NEW l \in LeaseId, DoRelease(l)
      PROVE  Books(mgr', granted', seen') /\ NewGenerationFresh
  <2>1. mgr' = Release(mgr, l) /\ granted' = granted \ {l} /\ seen' = seen
    BY <1>7 DEF DoRelease
  <2>2. Books(mgr', granted', seen) /\ mgr'.gen = mgr.gen
    BY <2>1, ReleaseStep
  <2>. QED  BY <2>1, <2>2 DEF NewGenerationFresh
<1>8. ASSUME NEW p \in Pool, DoEvict(p)
      PROVE  Books(mgr', granted', seen') /\ NewGenerationFresh
  <2>. DEFINE V == LruVictim(mgr, p)
  <2>1. mgr' = Evict(mgr, p, V) /\ granted' = granted /\ seen' = seen
    BY <1>8 DEF DoEvict
  <2>2. V \in SUBSET Evictable(mgr, p)
    BY DEF LruVictim
  <2>. HIDE DEF V
  <2>3. Books(mgr', granted, seen) /\ \A x \in Key : mgr'.gen[x] \in {mgr.gen[x], NoGen}
    BY <2>1, <2>2, EvictStep
  <2>. QED  BY <2>1, <2>3 DEF NewGenerationFresh
<1>9. CASE UNCHANGED vars
  BY <1>9 DEF vars
<1>. QED  BY <1>1, <1>2, <1>3, <1>4, <1>5, <1>6, <1>7, <1>8, <1>9 DEF Next

\* Every reachable manager keeps exact books: the types, the byte accounting of
\* every pool, the leases that are out with the pins they hold, and generation
\* counters ahead of every generation published (residency.rs as a whole).
THEOREM ResidencyInvariant == Spec => []ResidencyInv
<1>1. Init => ResidencyInv
  BY ResidencyInit
<1>2. ResidencyInv /\ [Next]_vars => ResidencyInv'
  BY ResidencyNext
<1>. QED  BY <1>1, <1>2, PTL DEF Spec

\* resident + reserved never exceeds a pool's budget and all three counters equal
\* what the entries add up to (assert_invariants), for every pool, expert set,
\* size, budget and sequence of calls.
THEOREM Accounting == Spec => []AccountingExact
<1>1. ResidencyInv => AccountingExact
  BY DEF SumBytes, ResidencyInv, Books, Accounted, AccountingExact, Held
<1>. QED  BY <1>1, ResidencyInvariant, PTL

\* A lease that is out keeps its generation resident, and pins count the leases
\* that are out (acquire, release, evict, complete_load).
THEOREM LeasePins == Spec => []LeasePinsGeneration
<1>1. ResidencyInv => LeasePinsGeneration
  <2>. SUFFICES ASSUME Books(mgr, granted, seen)
                PROVE  LeasePinsGeneration
    BY DEF ResidencyInv
  <2>1. Typed(mgr) /\ Leased(mgr, granted)
    BY DEF Books
  <2>2. \A l \in granted : mgr.leaseKey[l] \in Key
    BY <2>1, LeasedIsPinned
  <2>. QED  BY <2>1, <2>2 DEF Leased, Leases, LeasePinsGeneration
<1>. QED  BY <1>1, ResidencyInvariant, PTL

\* A generation is never published twice for a key, evictions in between or not
\* (complete_load takes it from a counter that survives the entry).
THEOREM Generations == Spec => GenerationsFresh
<1>1. ResidencyInv /\ [Next]_vars => [NewGenerationFresh]_vars
  BY ResidencyNext
<1>2. Spec => [][NewGenerationFresh]_vars
  BY <1>1, ResidencyInvariant, PTL DEF Spec
<1>. QED  BY <1>2 DEF GenerationsFresh, NewGenerationFresh
-----------------------------------------------------------------------------
(***************************************************************************)
(* Recency.  The order of the touches never lists a key twice, so a key    *)
(* has one place in it, and what goes first is what was touched first.     *)
(***************************************************************************)
Recent(order) == order \in Seq(Key) /\ NoDuplicates(order)

\* What is kept of an order is an order.
LEMMA Forgotten ==
  ASSUME NEW order, Recent(order), NEW V
  PROVE  /\ Recent(Without(order, V))
         /\ \A k : Queued(Without(order, V), k) <=> Queued(order, k) /\ k \notin V
BY WithoutQueue DEF Recent

\* A key that is touched becomes the last one.
LEMMA TouchedLast ==
  ASSUME NEW order, Recent(order), NEW k \in Key
  PROVE  /\ Recent(Append(Without(order, {k}), k))
         /\ \A x \in Key : Queued(Append(Without(order, {k}), k), x) <=>
                            x = k \/ Queued(order, x)
<1>. DEFINE r == Without(order, {k})
<1>1. /\ r \in Seq(Key) /\ NoDuplicates(r) /\ ~ Queued(r, k)
      /\ \A x : Queued(r, x) <=> Queued(order, x) /\ x # k
  BY Forgotten DEF Recent
<1>. HIDE DEF r
<1>2. /\ Append(r, k) \in Seq(Key) /\ NoDuplicates(Append(r, k))
      /\ \A x \in Key : Queued(Append(r, k), x) <=> x = k \/ Queued(r, x)
  BY <1>1, AppendQueue
<1>. QED  BY <1>1, <1>2 DEF Recent, r

\* A manager, whatever its fields hold.
Fields(m) ==
  m \in [st : {m.st}, load : {m.load}, gen : {m.gen}, bytes : {m.bytes},
         waiters : {m.waiters}, pins : {m.pins}, recency : {m.recency},
         loads : {m.loads}, leaseKey : {m.leaseKey}, leaseGen : {m.leaseGen},
         nextLoad : {m.nextLoad}, nextGen : {m.nextGen},
         nextLease : {m.nextLease}, resident : {m.resident},
         reserved : {m.reserved}, pinned : {m.pinned}]

\* What moves neither an entry nor the order of touches.
Calm(m, n) == Fields(n) /\ n.st = m.st /\ n.recency = m.recency

LEMMA TypedFields == \A m : Typed(m) => Fields(m)
BY DEF Typed, Fields

LEMMA RefreshCalm ==
  ASSUME NEW m, Fields(m), NEW p PROVE Calm(m, RefreshPinned(m, p))
<1>1. \A x : Calm(m, [m EXCEPT !.pinned = x])
  BY DEF Fields, Calm
<1>. QED  BY <1>1 DEF RefreshPinned

LEMMA NewLeasesCalm ==
  ASSUME NEW m, Fields(m), NEW k, NEW n PROVE Calm(m, NewLeases(m, k, n))
<1>. DEFINE fresh == FreshLeases(m, n)
            x == [l \in LeaseId |-> IF l \in fresh THEN k ELSE m.leaseKey[l]]
            y == [l \in LeaseId |-> IF l \in fresh THEN m.gen[k] ELSE m.leaseGen[l]]
            z == m.nextLease + n
<1>1. NewLeases(m, k, n) = [m EXCEPT !.leaseKey = x, !.leaseGen = y, !.nextLease = z]
  BY DEF NewLeases, Fields
<1>. HIDE DEF x, y, z
<1>2. Calm(m, [m EXCEPT !.leaseKey = x, !.leaseGen = y, !.nextLease = z])
  BY DEF Fields, Calm
<1>. QED  BY <1>1, <1>2

LEMMA TouchOne ==
  ASSUME NEW m, Fields(m), NEW k
  PROVE  /\ Fields(Touch(m, k))
         /\ Touch(m, k).st = m.st
         /\ Touch(m, k).recency = Append(Without(m.recency, {k}), k)
<1>. DEFINE r == Append(Without(m.recency, {k}), k)
<1>1. Touch(m, k) = [m EXCEPT !.recency = r]
  BY DEF Touch
<1>. HIDE DEF r
<1>2. /\ Fields([m EXCEPT !.recency = r])
      /\ [m EXCEPT !.recency = r].st = m.st
      /\ [m EXCEPT !.recency = r].recency = r
  BY DEF Fields
<1>. QED  BY <1>1, <1>2 DEF r

LEMMA EvictOrder ==
  ASSUME NEW m, Fields(m), NEW p, NEW V
  PROVE  LET n == Evict(m, p, V)
         IN  /\ Fields(n)
             /\ V = {} => n = m
             /\ V # {} =>
                  /\ n.st = [k \in Key |-> IF k \in V THEN "Absent" ELSE m.st[k]]
                  /\ n.recency = Without(m.recency, V)
<1>. DEFINE gone == [k \in Key |-> IF k \in V THEN "Absent" ELSE m.st[k]]
            order == Without(m.recency, V)
<1>1. CASE V = {}
  BY <1>1 DEF Evict
<1>2. CASE V # {}
  <2>1. PICK e : /\ Fields(e) /\ e.st = gone /\ e.recency = order
                 /\ Evict(m, p, V) = RefreshPinned(e, p)
    <3>. DEFINE x == [k \in Key |-> IF k \in V THEN NoLoad ELSE m.load[k]]
                y == [k \in Key |-> IF k \in V THEN NoGen ELSE m.gen[k]]
                z == [k \in Key |-> IF k \in V THEN 0 ELSE m.bytes[k]]
                w == [m.resident EXCEPT ![p] = SatSub(m.resident[p], SumBytes(m, V))]
                e == [m EXCEPT !.st = gone, !.load = x, !.gen = y, !.bytes = z,
                               !.recency = order, !.resident = w]
    <3>1. Evict(m, p, V) = RefreshPinned(e, p)
      BY <1>2 DEF Evict, Fields
    <3>. HIDE DEF x, y, z, w, gone, order
    <3>2. Fields(e) /\ e.st = gone /\ e.recency = order
      BY DEF Fields
    <3>. HIDE DEF e
    <3>. QED  BY <3>1, <3>2
  <2>2. Calm(e, Evict(m, p, V))
    BY <2>1, RefreshCalm
  <2>. HIDE DEF gone, order
  <2>3. /\ Fields(Evict(m, p, V)) /\ Evict(m, p, V).st = gone
        /\ Evict(m, p, V).recency = order
    BY <2>1, <2>2 DEF Calm
  <2>. QED  BY <1>2, <2>3 DEF gone, order
<1>. QED  BY <1>1, <1>2

\* Every resident entry has been touched.
Listed(m) ==
  /\ Recent(m.recency)
  /\ \A k \in Key : m.st[k] = "Resident" => Queued(m.recency, k)

\* What may go when room is made: nothing that was touched after something
\* evictable that stays.
LEMMA VictimsOldest ==
  ASSUME NEW m, Listed(m), NEW p, NEW bytes, NEW V,
         V = LruVictim(m, p) \/ V = Victims(m, p, bytes),
         NEW i \in 1 .. Len(m.recency), NEW j \in 1 .. Len(m.recency),
         m.recency[i] \in V,
         m.recency[j] \in Evictable(m, p), m.recency[j] \notin V
  PROVE  i < j
<1>. DEFINE q == m.recency
            k == q[i]
            x == q[j]
            at(y) == CHOOSE n \in 1 .. Len(q) : q[n] = y
            E == Evictable(m, p)
<1>1. /\ Len(q) \in Nat
      /\ \A n \in 1 .. Len(q) : at(q[n]) = n
  <2>1. q \in Seq(Key) /\ NoDuplicates(q)
    BY DEF Recent, Listed
  <2>. HIDE DEF q
  <2>2. ASSUME NEW n \in 1 .. Len(q)
        PROVE  at(q[n]) \in 1 .. Len(q) /\ q[at(q[n])] = q[n]
    <3>1. \E l \in 1 .. Len(q) : q[l] = q[n]
      OBVIOUS
    <3>. QED  BY <3>1
  <2>. HIDE DEF at
  <2>. QED  BY <2>1, <2>2 DEF NoDuplicates
<1>2. \A y : NoLaterThan(m, p, y) = {z \in E : at(z) <= at(y)}
  BY DEF NoLaterThan
<1>3. V \subseteq E
  BY DEF LruVictim, Victims
<1>. HIDE DEF at, E, q
<1>4. at(k) = i /\ at(x) = j /\ k \in V /\ x \in E /\ x \notin V /\ k \in E
  BY <1>1, <1>3 DEF q, E
<1>5. CASE V = LruVictim(m, p)
  <2>1. NoLaterThan(m, p, k) = {k}
    BY <1>4, <1>5 DEF LruVictim
  <2>2. x # k /\ x \notin NoLaterThan(m, p, k)
    BY <1>4, <2>1
  <2>3. ~ (at(x) <= at(k))
    BY <1>2, <1>4, <2>2
  <2>. QED  BY <1>1, <1>4, <2>3 DEF q
<1>6. CASE V = Victims(m, p, bytes)
  <2>. DEFINE enough == {y \in E : Fits(m, p, bytes, NoLaterThan(m, p, y))}
  <2>1. V = {y \in E : \A z \in enough : y \in NoLaterThan(m, p, z)}
    BY <1>4, <1>6 DEF Victims, E
  <2>. HIDE DEF enough
  <2>2. PICK z \in enough : x \notin NoLaterThan(m, p, z)
    BY <1>4, <2>1
  <2>3. k \in NoLaterThan(m, p, z)
    BY <1>4, <2>1, <2>2
  <2>4. at(k) <= at(z) /\ ~ (at(x) <= at(z))
    BY <1>2, <1>4, <2>2, <2>3
  <2>5. at(z) \in 1 .. Len(q)
    <3>1. z \in Key /\ m.st[z] = "Resident"
      BY DEF enough, E, Evictable, InPool
    <3>2. \E n \in 1 .. Len(q) : q[n] = z
      BY <3>1 DEF Listed, Queued, q
    <3>. QED  BY <1>1, <3>2
  <2>. QED  BY <1>1, <1>4, <2>4, <2>5 DEF q
<1>. QED  BY <1>5, <1>6

\* What the property says of one step of the manager.
Oldest(m, n) ==
  \A k, x \in Key, i, j \in 1 .. Len(m.recency) :
    /\ k = m.recency[i] /\ x = m.recency[j]
    /\ PoolOf[k] = PoolOf[x]
    /\ m.st[k] = "Resident" /\ n.st[k] # "Resident"
    /\ m.st[x] = "Resident" /\ m.pins[x] = 0 /\ n.st[x] = "Resident"
    => i < j

\* Operations that evict nothing: they leave the order alone, or touch one key,
\* which may become resident.
LEMMA NothingEvicted ==
  ASSUME NEW m, Listed(m), NEW n, NEW k \in Key,
         \/ n.recency = m.recency /\ (n.st[k] # "Resident" \/ n.st[k] = m.st[k])
         \/ n.recency = Append(Without(m.recency, {k}), k),
         \A x \in Key : x # k => n.st[x] = m.st[x],
         m.st[k] = "Resident" => n.st[k] = "Resident"
  PROVE  Listed(n) /\ Oldest(m, n)
<1>1. Oldest(m, n)
  BY DEF Oldest
<1>2. CASE n.recency = m.recency /\ (n.st[k] # "Resident" \/ n.st[k] = m.st[k])
  <2>1. Listed(n)
    BY <1>2 DEF Listed
  <2>. QED  BY <1>1, <2>1
<1>3. CASE n.recency = Append(Without(m.recency, {k}), k)
  <2>1. Listed(n)
    BY <1>3, TouchedLast DEF Listed
  <2>. QED  BY <1>1, <2>1
<1>. QED  BY <1>2, <1>3

\* An operation that moves neither an entry nor the order.
LEMMA CalmListed ==
  ASSUME NEW m, Listed(m), NEW n, n.st = m.st, n.recency = m.recency
  PROVE  Listed(n) /\ Oldest(m, n)
BY DEF Listed, Oldest

\* An eviction by either selection, whether or not a load follows it.
LEMMA EvictListed ==
  ASSUME NEW m, Typed(m), Listed(m), NEW p \in Pool, NEW bytes, NEW V,
         V = LruVictim(m, p) \/ V = Victims(m, p, bytes)
  PROVE  LET n == Evict(m, p, V)
         IN  /\ Listed(n) /\ Oldest(m, n) /\ Fields(n)
             /\ n.st \in [Key -> EntryState]
             /\ \A x \in Key : n.st[x] = m.st[x] \/ (x \in V /\ n.st[x] = "Absent")
<1>. DEFINE n == Evict(m, p, V)
<1>1. /\ Fields(n)
      /\ V = {} => n = m
      /\ V # {} =>
           /\ n.st = [k \in Key |-> IF k \in V THEN "Absent" ELSE m.st[k]]
           /\ n.recency = Without(m.recency, V)
  BY TypedFields, EvictOrder
<1>2. V \subseteq Evictable(m, p)
  BY DEF LruVictim, Victims
<1>. HIDE DEF n
<1>3. CASE V = {}
  <2>1. n = m
    BY <1>1, <1>3
  <2>2. Oldest(m, n) /\ n.st \in [Key -> EntryState]
    BY <2>1 DEF Oldest, Typed
  <2>. QED  BY <1>1, <2>1, <2>2 DEF n
<1>4. CASE V # {}
  <2>1. /\ n.st = [k \in Key |-> IF k \in V THEN "Absent" ELSE m.st[k]]
        /\ n.recency = Without(m.recency, V)
    BY <1>1, <1>4
  <2>2. Listed(n)
    BY <2>1, Forgotten DEF Listed
  <2>3. Oldest(m, n)
    <3>. SUFFICES ASSUME NEW k \in Key, NEW x \in Key,
                         NEW i \in 1 .. Len(m.recency),
                         NEW j \in 1 .. Len(m.recency),
                         k = m.recency[i], x = m.recency[j],
                         PoolOf[k] = PoolOf[x],
                         m.st[k] = "Resident", n.st[k] # "Resident",
                         m.st[x] = "Resident", m.pins[x] = 0,
                         n.st[x] = "Resident"
                  PROVE  i < j
      BY DEF Oldest
    <3>1. k \in V /\ x \notin V
      BY <2>1
    <3>2. x \in Evictable(m, p)
      BY <1>2, <3>1 DEF Evictable, InPool
    <3>. QED  BY <3>1, <3>2, VictimsOldest
  <2>4. /\ \A x \in Key : n.st[x] = m.st[x] \/ (x \in V /\ n.st[x] = "Absent")
        /\ n.st \in [Key -> EntryState]
    BY <2>1 DEF Typed, EntryState
  <2>. QED  BY <1>1, <2>2, <2>3, <2>4 DEF n
<1>. QED  BY <1>3, <1>4

\* The operations, one by one.
LEMMA StartListed ==
  ASSUME NEW m, Typed(m), Listed(m), NEW k \in Key, NEW bytes, NEW w,
         m.st[k] # "Resident"
  PROVE  LET n == BeginStart(m, k, bytes, w) IN Listed(n) /\ Oldest(m, n)
<1>. DEFINE p == PoolOf[k]
            V == Victims(m, p, bytes)
            e == Evict(m, p, V)
            n == BeginStart(m, k, bytes, w)
<1>1. p \in Pool
  BY ResidencyConstants
<1>2. /\ Listed(e) /\ Oldest(m, e) /\ Fields(e)
      /\ e.st \in [Key -> EntryState]
      /\ \A x \in Key : e.st[x] = m.st[x] \/ (x \in V /\ e.st[x] = "Absent")
  BY <1>1, EvictListed
<1>3. CASE ~ SpaceFound(m, p, bytes)
  <2>1. n = e
    BY <1>3 DEF BeginStart
  <2>. HIDE DEF e, n
  <2>2. Listed(n) /\ Oldest(m, n)
    BY <1>2, <2>1
  <2>. QED  BY <2>2 DEF n
<1>4. CASE SpaceFound(m, p, bytes)
  <2>. DEFINE f == [e EXCEPT !.st[k] = "Loading",
                             !.load[k] = m.nextLoad,
                             !.bytes[k] = bytes,
                             !.waiters[k] = {w},
                             !.pins[k] = 0,
                             !.loads[m.nextLoad] = k,
                             !.nextLoad = @ + 1,
                             !.reserved[p] = @ + bytes]
  <2>1. n = Touch(f, k)
    BY <1>4 DEF BeginStart
  <2>2. /\ Fields(f) /\ f.recency = e.recency
        /\ f.st = [e.st EXCEPT ![k] = "Loading"]
    <3>. HIDE DEF e, p
    <3>. DEFINE a == [e.st EXCEPT ![k] = "Loading"]
                b == [e.load EXCEPT ![k] = m.nextLoad]
                c == [e.bytes EXCEPT ![k] = bytes]
                d == [e.waiters EXCEPT ![k] = {w}]
                g == [e.pins EXCEPT ![k] = 0]
                h == [e.loads EXCEPT ![m.nextLoad] = k]
                i == e.nextLoad + 1
                j == [e.reserved EXCEPT ![p] = @ + bytes]
    <3>1. f = [e EXCEPT !.st = a, !.load = b, !.bytes = c, !.waiters = d,
                        !.pins = g, !.loads = h, !.nextLoad = i, !.reserved = j]
      BY <1>2 DEF Fields
    <3>. HIDE DEF a, b, c, d, g, h, i, j, f
    <3>2. Fields(f) /\ f.recency = e.recency /\ f.st = a
      BY <1>2, <3>1 DEF Fields
    <3>. QED  BY <3>2 DEF a
  <2>. HIDE DEF f, n, e
  <2>3. /\ n.st = f.st
        /\ n.recency = Append(Without(f.recency, {k}), k)
    BY <2>1, <2>2, TouchOne
  <2>4. \A x \in Key : x # k => n.st[x] = e.st[x]
    BY <2>2, <2>3
  <2>5. Listed(n)
    <3>1. e.st[k] # "Resident"
      BY <1>2
    <3>. QED  BY ZenonT(60), <1>2, <2>2, <2>3, <2>4, <3>1, NothingEvicted
  <2>6. \A x \in Key : n.st[x] = "Resident" => x # k /\ e.st[x] = "Resident"
    <3>1. n.st[k] # "Resident"
      BY <1>2, <2>2, <2>3
    <3>. QED  BY <2>4, <3>1
  <2>7. Oldest(m, n)
    BY <1>2, <2>4, <2>6 DEF Oldest
  <2>. QED  BY <2>5, <2>7 DEF n
<1>. QED  BY <1>3, <1>4

LEMMA CompleteListed ==
  ASSUME NEW m, Typed(m), Listed(m), NEW l \in LoadId, NEW ok
  PROVE  LET n == CompleteLoad(m, l, ok) IN Listed(n) /\ Oldest(m, n)
<1>. DEFINE n == CompleteLoad(m, l, ok)
            k == m.loads[l]
            p == PoolOf[k]
<1>0. Fields(m)
  BY TypedFields
<1>1. CASE ~ Accepted(m, l)
  <2>. DEFINE x == [m.loads EXCEPT ![l] = NoKey]
  <2>1. n = [m EXCEPT !.loads = x]
    BY <1>0, <1>1 DEF CompleteLoad, Fields
  <2>. HIDE DEF x, n
  <2>2. n.st = m.st /\ n.recency = m.recency
    BY <1>0, <2>1 DEF Fields
  <2>3. Listed(n) /\ Oldest(m, n)
    BY <2>2, CalmListed
  <2>. QED  BY <2>3 DEF n
<1>2. CASE Accepted(m, l)
  <2>1. k \in Key /\ m.st[k] = "Loading"
    BY <1>2 DEF Accepted, Typed
  <2>2. CASE ~ ok
    <3>. DEFINE a == [m.loads EXCEPT ![l] = NoKey]
                b == [m.reserved EXCEPT ![p] = SatSub(@, m.bytes[k])]
                c == [m.st EXCEPT ![k] = "Failed"]
                d == [m.load EXCEPT ![k] = NoLoad]
                e == [m.waiters EXCEPT ![k] = {}]
    <3>1. n = [m EXCEPT !.loads = a, !.reserved = b, !.st = c, !.load = d,
                        !.waiters = e]
      BY <1>0, <1>2, <2>2 DEF CompleteLoad, LoadFails, Fields
    <3>. HIDE DEF a, b, c, d, e, n, p
    <3>2. n.st = c /\ n.recency = m.recency
      BY <1>0, <3>1 DEF Fields
    <3>. HIDE DEF k
    <3>3. /\ n.st[k] = "Failed"
          /\ \A x \in Key : x # k => n.st[x] = m.st[x]
      BY <2>1, <3>2 DEF Typed, c
    <3>4. Listed(n) /\ Oldest(m, n)
      BY <2>1, <3>2, <3>3, NothingEvicted
    <3>. QED  BY <3>4 DEF n
  <2>3. CASE ok
    <3>. DEFINE u == Cardinality(m.waiters[k])
                a == [m.loads EXCEPT ![l] = NoKey]
                b == [m.reserved EXCEPT ![p] = SatSub(@, m.bytes[k])]
                c == [m.st EXCEPT ![k] = "Resident"]
                d == [m.load EXCEPT ![k] = NoLoad]
                g == [m.gen EXCEPT ![k] = m.nextGen[k]]
                h == [m.nextGen EXCEPT ![k] = @ + 1]
                i == [m.waiters EXCEPT ![k] = {}]
                j == [m.pins EXCEPT ![k] = u]
                r == [m.resident EXCEPT ![p] = @ + m.bytes[k]]
                e == [m EXCEPT !.loads = a, !.reserved = b, !.st = c, !.load = d,
                               !.gen = g, !.nextGen = h, !.waiters = i,
                               !.pins = j, !.resident = r]
                t == Touch(e, k)
                v == NewLeases(t, k, u)
    <3>1. n = RefreshPinned(v, p)
      BY <1>0, <1>2, <2>3 DEF CompleteLoad, Publish, Fields
    <3>. HIDE DEF a, b, c, d, g, h, i, j, r, n, u
    <3>2. Fields(e) /\ e.st = c /\ e.recency = m.recency
      BY <1>0 DEF Fields
    <3>. HIDE DEF e, k
    <3>3. /\ Fields(t) /\ t.st = c
          /\ t.recency = Append(Without(m.recency, {k}), k)
      <4>1. t = Touch(e, k)
        OBVIOUS
      <4>. HIDE DEF t
      <4>. QED  BY <3>2, <4>1, TouchOne
    <3>. HIDE DEF t
    <3>4. Calm(t, v)
      BY <3>3, NewLeasesCalm
    <3>. HIDE DEF v
    <3>5. Calm(v, n)
      BY <3>1, <3>4, RefreshCalm DEF Calm
    <3>6. n.st = c /\ n.recency = Append(Without(m.recency, {k}), k)
      BY <3>3, <3>4, <3>5 DEF Calm
    <3>7. \A x \in Key : x # k => n.st[x] = m.st[x]
      BY <2>1, <3>6 DEF Typed, c
    <3>8. Listed(n) /\ Oldest(m, n)
      BY <2>1, <3>6, <3>7, NothingEvicted
    <3>. QED  BY <3>8 DEF n
  <2>. QED  BY <2>2, <2>3
<1>. QED  BY <1>1, <1>2

LEMMA AcquireListed ==
  ASSUME NEW m, Typed(m), Listed(m), NEW k \in Key
  PROVE  LET n == Acquire(m, k) IN Listed(n) /\ Oldest(m, n)
<1>0. Fields(m)
  BY TypedFields
<1>. DEFINE pins == [m.pins EXCEPT ![k] = @ + 1]
            a == [m EXCEPT !.pins = pins]
            b == NewLeases(a, k, 1)
            e == Touch(b, k)
            n == Acquire(m, k)
<1>1. n = RefreshPinned(e, PoolOf[k])
  BY <1>0 DEF Acquire, Fields
<1>. HIDE DEF pins, n
<1>2. Calm(m, a)
  BY <1>0 DEF Fields, Calm
<1>. HIDE DEF a
<1>3. Calm(a, b)
  BY <1>2, NewLeasesCalm DEF Calm
<1>. HIDE DEF b
<1>4. /\ Fields(e) /\ e.st = m.st
      /\ e.recency = Append(Without(m.recency, {k}), k)
  <2>1. Fields(b) /\ b.st = m.st /\ b.recency = m.recency
    BY <1>2, <1>3 DEF Calm
  <2>. QED  BY <2>1, TouchOne
<1>. HIDE DEF e
<1>5. n.st = m.st /\ n.recency = Append(Without(m.recency, {k}), k)
  BY <1>1, <1>4, RefreshCalm DEF Calm
<1>6. Listed(n) /\ Oldest(m, n)
  BY <1>5, NothingEvicted
<1>. QED  BY <1>6 DEF n

LEMMA ReleaseListed ==
  ASSUME NEW m, Typed(m), Listed(m), NEW l
  PROVE  LET n == Release(m, l) IN Listed(n) /\ Oldest(m, n)
<1>0. Fields(m)
  BY TypedFields
<1>. DEFINE n == Release(m, l)
            k == m.leaseKey[l]
            a == [m.pins EXCEPT ![k] = SatSub(@, 1)]
            b == [m.leaseKey EXCEPT ![l] = NoKey]
            c == [m.leaseGen EXCEPT ![l] = NoGen]
            e == [m EXCEPT !.pins = a, !.leaseKey = b, !.leaseGen = c]
<1>1. n = m \/ n = RefreshPinned(e, PoolOf[k])
  BY <1>0 DEF Release, Fields
<1>. HIDE DEF a, b, c, n
<1>2. Calm(m, e)
  BY <1>0 DEF Fields, Calm
<1>. HIDE DEF e
<1>3. Calm(e, RefreshPinned(e, PoolOf[k]))
  BY <1>2, RefreshCalm DEF Calm
<1>4. n.st = m.st /\ n.recency = m.recency
  BY <1>1, <1>2, <1>3 DEF Calm
<1>5. Listed(n) /\ Oldest(m, n)
  BY <1>4, CalmListed
<1>. QED  BY <1>5 DEF n

\* Initially nothing was touched.
LEMMA InitListed == Init => Listed(mgr)
<1>. SUFFICES ASSUME Init PROVE Listed(mgr)
  OBVIOUS
<1>1. /\ mgr.recency = << >>
      /\ \A k \in Key : mgr.st[k] = "Absent"
  BY DEF Init, NewManager
<1>2. << >> \in Seq(Key) /\ NoDuplicates(<< >>)
  BY DEF NoDuplicates
<1>. QED  BY <1>1, <1>2 DEF Listed, Recent

\* Every step keeps the list of touches complete and evicts in its order.
LEMMA NextListed ==
  ASSUME Typed(mgr), Listed(mgr), [Next]_vars
  PROVE  Listed(mgr') /\ Oldest(mgr, mgr')
<1>0. Fields(mgr)
  BY TypedFields
<1>1. ASSUME NEW k \in Key, DoBeginHit(k)
      PROVE  Listed(mgr') /\ Oldest(mgr, mgr')
  <2>1. mgr' = Touch(mgr, k)
    BY <1>1 DEF DoBeginHit, BeginHit
  <2>2. mgr'.st = mgr.st /\ mgr'.recency = Append(Without(mgr.recency, {k}), k)
    BY <1>0, <2>1, TouchOne
  <2>. QED  BY <2>2, NothingEvicted
<1>2. ASSUME NEW k \in Key, DoAcquire(k)
      PROVE  Listed(mgr') /\ Oldest(mgr, mgr')
  BY <1>2, AcquireListed DEF DoAcquire
<1>3. ASSUME NEW k \in Key, NEW bytes \in Size, NEW w \in Waiter,
             DoBeginJoin(k, bytes, w)
      PROVE  Listed(mgr') /\ Oldest(mgr, mgr')
  <2>. DEFINE W == [mgr.waiters EXCEPT ![k] = @ \cup {w}]
  <2>1. mgr' = [mgr EXCEPT !.waiters = W]
    BY <1>0, <1>3 DEF DoBeginJoin, BeginJoin, Fields
  <2>. HIDE DEF W
  <2>2. mgr'.st = mgr.st /\ mgr'.recency = mgr.recency
    BY <1>0, <2>1 DEF Fields
  <2>. QED  BY <2>2, CalmListed
<1>4. ASSUME NEW k \in Key, NEW bytes \in Size, NEW w \in Waiter,
             DoBeginStart(k, bytes, w)
      PROVE  Listed(mgr') /\ Oldest(mgr, mgr')
  <2>1. mgr' = BeginStart(mgr, k, bytes, w) /\ mgr.st[k] # "Resident"
    BY <1>4 DEF DoBeginStart
  <2>. QED  BY <2>1, StartListed
<1>5. ASSUME NEW l \in LoadId, NEW ok \in BOOLEAN, DoCompleteLoad(l, ok)
      PROVE  Listed(mgr') /\ Oldest(mgr, mgr')
  <2>1. mgr' = CompleteLoad(mgr, l, ok)
    BY <1>5 DEF DoCompleteLoad
  <2>. QED  BY <2>1, CompleteListed
<1>6. ASSUME NEW l \in LoadId, NEW w \in Waiter, DoCancelWaiter(l, w)
      PROVE  Listed(mgr') /\ Oldest(mgr, mgr')
  <2>. DEFINE W == [mgr.waiters EXCEPT ![mgr.loads[l]] = @ \ {w}]
  <2>1. mgr' = mgr \/ mgr' = [mgr EXCEPT !.waiters = W]
    BY <1>0, <1>6 DEF DoCancelWaiter, CancelWaiter, Fields
  <2>. HIDE DEF W
  <2>2. mgr'.st = mgr.st /\ mgr'.recency = mgr.recency
    BY <1>0, <2>1 DEF Fields
  <2>. QED  BY <2>2, CalmListed
<1>7. ASSUME NEW l \in LeaseId, DoRelease(l)
      PROVE  Listed(mgr') /\ Oldest(mgr, mgr')
  <2>1. mgr' = Release(mgr, l)
    BY <1>7 DEF DoRelease
  <2>. QED  BY <2>1, ReleaseListed
<1>8. ASSUME NEW p \in Pool, DoEvict(p)
      PROVE  Listed(mgr') /\ Oldest(mgr, mgr')
  <2>1. mgr' = Evict(mgr, p, LruVictim(mgr, p))
    BY <1>8 DEF DoEvict
  <2>. QED  BY <2>1, EvictListed
<1>9. CASE UNCHANGED vars
  BY <1>9, CalmListed DEF vars
<1>. QED  BY <1>1, <1>2, <1>3, <1>4, <1>5, <1>6, <1>7, <1>8, <1>9 DEF Next

\* Eviction takes the least recently used unpinned entries first, for every
\* number of experts and pools, and whatever the calls in between touched
\* (evict and the loop of ensure_space).
THEOREM LeastRecentFirst == Spec => EvictsLeastRecent
<1>1. ResidencyInv => Typed(mgr)
  BY DEF ResidencyInv, Books
<1>2. Typed(mgr) /\ Listed(mgr) /\ [Next]_vars => Listed(mgr)' /\ Oldest(mgr, mgr')
  BY NextListed
<1>3. Oldest(mgr, mgr') =>
        \A k, x \in Key, i, j \in 1 .. Len(mgr.recency) :
          /\ k = mgr.recency[i] /\ x = mgr.recency[j]
          /\ PoolOf[k] = PoolOf[x]
          /\ mgr.st[k] = "Resident" /\ mgr'.st[k] # "Resident"
          /\ mgr.st[x] = "Resident" /\ mgr.pins[x] = 0 /\ mgr'.st[x] = "Resident"
          => i < j
  BY DEF Oldest
<1>. QED  BY <1>1, <1>2, <1>3, InitListed, ResidencyInvariant, PTL
          DEF Spec, EvictsLeastRecent

-----------------------------------------------------------------------------
(***************************************************************************)
(* Accel.  The leases that are out are those of the records and those that *)
(* loads handed to their waiters, each in one place only.                  *)
(***************************************************************************)
HeldBy(t) == {inflight[t][i] : i \in 1 .. Len(inflight[t])}

Outstanding == borrowed \cup UNION {HeldBy(t) : t \in native}

\* The record of a ticket that is out, and nothing of one that is not.
RecordsTyped ==
  /\ native \in SUBSET Ticket
  /\ inflight \in [Ticket -> Seq(LeaseId) \cup {None}]
  /\ \A t \in Ticket : t \in native <=> inflight[t] # None

RecordsApart ==
  /\ \A t \in native : NoDuplicates(inflight[t]) /\ HeldBy(t) \cap borrowed = {}
  /\ \A t, x \in native : t # x => HeldBy(t) \cap HeldBy(x) = {}

\* What the backend reads is what the leases of the ticket's record are on.
ReadsLeased ==
  \A t \in native : \A r \in reads[t] : \E l \in HeldBy(t) :
    r = << mgr.leaseKey[l], mgr.leaseGen[l] >>

\* A core, as far as tickets are concerned.
CoreLike(c) ==
  c \in [state : {c.state}, inReady : {c.inReady}, owned : {c.owned},
         ready : {c.ready}, inflight : [Ticket -> SessionId \cup {NoOwner}],
         nextSession : {c.nextSession}, nextTicket : Nat]

\* The tickets the core knows of are out, and it issued them all.
TicketsOut ==
  /\ CoreLike(core)
  /\ Live(core) \subseteq native
  /\ \A t \in native : t < core.nextTicket

\* Nothing is said about the generations there were.
NoneSeen == [k \in Key |-> NoGen]

\* The inductive invariant.
AccelInv ==
  /\ Books(mgr, Outstanding, NoneSeen)
  /\ RecordsTyped
  /\ RecordsApart
  /\ ReadsLeased
  /\ reads \in [Ticket -> SUBSET (Key \X (Nat \cup {NoGen}))]
  /\ TicketsOut

-----------------------------------------------------------------------------
(***************************************************************************)
(* What the operations of the manager leave of the leases there are.       *)
(***************************************************************************)
\* The leases granted so far stay on what they are on.
LeasesStay(m, n) ==
  \A l \in LeaseId : l < m.nextLease =>
    n.leaseKey[l] = m.leaseKey[l] /\ n.leaseGen[l] = m.leaseGen[l]

\* No lease is granted or given back.
SameLeases(m, n) ==
  /\ Fields(n)
  /\ n.leaseKey = m.leaseKey /\ n.leaseGen = m.leaseGen
  /\ n.nextLease = m.nextLease

LEMMA SameLeasesStay ==
  ASSUME NEW m, NEW n, SameLeases(m, n) PROVE LeasesStay(m, n)
BY DEF SameLeases, LeasesStay

LEMMA RefreshSame ==
  ASSUME NEW m, Fields(m), NEW p
  PROVE  LET n == RefreshPinned(m, p)
         IN  SameLeases(m, n) /\ n.st = m.st /\ n.gen = m.gen
<1>1. \A x : LET n == [m EXCEPT !.pinned = x]
             IN  SameLeases(m, n) /\ n.st = m.st /\ n.gen = m.gen
  BY DEF Fields, SameLeases
<1>. QED  BY <1>1 DEF RefreshPinned

LEMMA TouchSame ==
  ASSUME NEW m, Fields(m), NEW k
  PROVE  LET n == Touch(m, k)
         IN  SameLeases(m, n) /\ n.st = m.st /\ n.gen = m.gen
<1>1. \A x : LET n == [m EXCEPT !.recency = x]
             IN  SameLeases(m, n) /\ n.st = m.st /\ n.gen = m.gen
  BY DEF Fields, SameLeases
<1>. QED  BY <1>1 DEF Touch

LEMMA EvictSame ==
  ASSUME NEW m, Fields(m), NEW p, NEW V PROVE SameLeases(m, Evict(m, p, V))
<1>1. CASE V = {}
  BY <1>1 DEF Evict, SameLeases
<1>2. CASE V # {}
  <2>. DEFINE a == [k \in Key |-> IF k \in V THEN "Absent" ELSE m.st[k]]
              b == [k \in Key |-> IF k \in V THEN NoLoad ELSE m.load[k]]
              c == [k \in Key |-> IF k \in V THEN NoGen ELSE m.gen[k]]
              d == [k \in Key |-> IF k \in V THEN 0 ELSE m.bytes[k]]
              f == Without(m.recency, V)
              g == [m.resident EXCEPT ![p] = SatSub(@, SumBytes(m, V))]
              e == [m EXCEPT !.st = a, !.load = b, !.gen = c, !.bytes = d,
                             !.recency = f, !.resident = g]
  <2>1. Evict(m, p, V) = RefreshPinned(e, p)
    BY <1>2 DEF Evict, Fields
  <2>. HIDE DEF a, b, c, d, f, g
  <2>2. SameLeases(m, e)
    BY DEF Fields, SameLeases
  <2>. HIDE DEF e
  <2>3. SameLeases(e, RefreshPinned(e, p))
    BY <2>2, RefreshSame DEF SameLeases
  <2>. QED  BY <2>1, <2>2, <2>3 DEF SameLeases
<1>. QED  BY <1>1, <1>2

LEMMA StartSame ==
  ASSUME NEW m, Fields(m), NEW k, NEW bytes, NEW w
  PROVE  SameLeases(m, BeginStart(m, k, bytes, w))
<1>. DEFINE p == PoolOf[k]
            e == Evict(m, p, Victims(m, p, bytes))
            n == BeginStart(m, k, bytes, w)
<1>1. SameLeases(m, e)
  BY EvictSame
<1>2. CASE ~ SpaceFound(m, p, bytes)
  <2>1. n = e
    BY <1>2 DEF BeginStart
  <2>. QED  BY <1>1, <2>1
<1>3. CASE SpaceFound(m, p, bytes)
  <2>. DEFINE f == [e EXCEPT !.st[k] = "Loading",
                             !.load[k] = m.nextLoad,
                             !.bytes[k] = bytes,
                             !.waiters[k] = {w},
                             !.pins[k] = 0,
                             !.loads[m.nextLoad] = k,
                             !.nextLoad = @ + 1,
                             !.reserved[p] = @ + bytes]
  <2>1. n = Touch(f, k)
    BY <1>3 DEF BeginStart
  <2>. HIDE DEF e, p
  <2>2. SameLeases(e, f)
    <3>. DEFINE a == [e.st EXCEPT ![k] = "Loading"]
                b == [e.load EXCEPT ![k] = m.nextLoad]
                c == [e.bytes EXCEPT ![k] = bytes]
                d == [e.waiters EXCEPT ![k] = {w}]
                g == [e.pins EXCEPT ![k] = 0]
                h == [e.loads EXCEPT ![m.nextLoad] = k]
                i == e.nextLoad + 1
                j == [e.reserved EXCEPT ![p] = @ + bytes]
    <3>1. f = [e EXCEPT !.st = a, !.load = b, !.bytes = c, !.waiters = d,
                        !.pins = g, !.loads = h, !.nextLoad = i, !.reserved = j]
      BY <1>1 DEF Fields, SameLeases
    <3>. HIDE DEF a, b, c, d, g, h, i, j, f
    <3>. QED  BY <1>1, <3>1 DEF Fields, SameLeases
  <2>. HIDE DEF f, n
  <2>3. SameLeases(f, Touch(f, k))
    BY <2>2, TouchSame DEF SameLeases
  <2>4. SameLeases(m, n)
    BY <1>1, <2>1, <2>2, <2>3 DEF SameLeases
  <2>. QED  BY <2>4 DEF n
<1>. QED  BY <1>2, <1>3

\* n more leases, all of them new, on the generation that u has of k.
LEMMA NewLeasesFrame ==
  ASSUME NEW m, Fields(m), NEW k, NEW n
  PROVE  LET u == NewLeases(m, k, n)
         IN  /\ Fields(u) /\ u.st = m.st /\ u.gen = m.gen
             /\ u.nextLease = m.nextLease + n
             /\ u.leaseKey = [l \in LeaseId |-> IF l \in FreshLeases(m, n) THEN k
                                               ELSE m.leaseKey[l]]
             /\ u.leaseGen = [l \in LeaseId |-> IF l \in FreshLeases(m, n)
                                               THEN m.gen[k] ELSE m.leaseGen[l]]
<1>. DEFINE x == [l \in LeaseId |-> IF l \in FreshLeases(m, n) THEN k
                                   ELSE m.leaseKey[l]]
            y == [l \in LeaseId |-> IF l \in FreshLeases(m, n) THEN m.gen[k]
                                   ELSE m.leaseGen[l]]
            z == m.nextLease + n
            u == NewLeases(m, k, n)
<1>1. u = [m EXCEPT !.leaseKey = x, !.leaseGen = y, !.nextLease = z]
  BY DEF NewLeases, Fields
<1>. HIDE DEF x, y, z, u
<1>2. /\ Fields(u) /\ u.st = m.st /\ u.gen = m.gen /\ u.nextLease = z
      /\ u.leaseKey = x /\ u.leaseGen = y
  BY <1>1 DEF Fields
<1>. QED  BY <1>2 DEF x, y, z, u

\* acquire grants one lease and leaves entries and the other leases alone.
LEMMA AcquireFrame ==
  ASSUME NEW m, Typed(m), NEW k, m.nextLease < MaxLeases
  PROVE  LET n == Acquire(m, k)
         IN  /\ n.st = m.st /\ n.gen = m.gen
             /\ n.nextLease = m.nextLease + 1
             /\ n.leaseKey[m.nextLease] = k
             /\ n.leaseGen[m.nextLease] = m.gen[k]
             /\ LeasesStay(m, n)
<1>. DEFINE pins == [m.pins EXCEPT ![k] = @ + 1]
            a == [m EXCEPT !.pins = pins]
            b == NewLeases(a, k, 1)
            e == Touch(b, k)
            n == Acquire(m, k)
<1>0. Fields(m) /\ m.nextLease \in Nat /\ MaxLeases \in Nat
  BY TypedFields, ResidencyConstants DEF Typed
<1>1. n = RefreshPinned(e, PoolOf[k])
  BY <1>0 DEF Acquire, Fields
<1>. HIDE DEF pins, n
<1>2. SameLeases(m, a) /\ a.st = m.st /\ a.gen = m.gen
  BY <1>0 DEF Fields, SameLeases
<1>. HIDE DEF a
<1>3. FreshLeases(a, 1) = {m.nextLease}
  BY <1>0, <1>2 DEF FreshLeases, SameLeases
<1>4. /\ Fields(b) /\ b.st = m.st /\ b.gen = m.gen
      /\ b.nextLease = m.nextLease + 1
      /\ b.leaseKey = [l \in LeaseId |-> IF l \in {m.nextLease} THEN k
                                        ELSE m.leaseKey[l]]
      /\ b.leaseGen = [l \in LeaseId |-> IF l \in {m.nextLease} THEN m.gen[k]
                                        ELSE m.leaseGen[l]]
  BY <1>2, <1>3, NewLeasesFrame DEF SameLeases
<1>. HIDE DEF b
<1>5. SameLeases(b, e) /\ e.st = b.st /\ e.gen = b.gen
  BY <1>4, TouchSame
<1>. HIDE DEF e
<1>6. SameLeases(e, n) /\ n.st = e.st /\ n.gen = e.gen
  BY <1>1, <1>5, RefreshSame DEF SameLeases
<1>7. /\ n.st = m.st /\ n.gen = m.gen /\ n.nextLease = m.nextLease + 1
      /\ n.leaseKey = b.leaseKey /\ n.leaseGen = b.leaseGen
  BY <1>4, <1>5, <1>6 DEF SameLeases
<1>8. m.nextLease \in LeaseId
  BY <1>0 DEF LeaseId
<1>9. n.leaseKey[m.nextLease] = k /\ n.leaseGen[m.nextLease] = m.gen[k]
  BY <1>4, <1>7, <1>8
<1>10. LeasesStay(m, n)
  BY <1>0, <1>4, <1>7 DEF LeasesStay
<1>. QED  BY <1>7, <1>9, <1>10 DEF n

\* release leaves entries and the other leases alone.
LEMMA ReleaseFrame ==
  ASSUME NEW m, Typed(m), NEW l
  PROVE  LET n == Release(m, l)
         IN  /\ n.st = m.st /\ n.gen = m.gen
             /\ \A x \in LeaseId : x # l => n.leaseKey[x] = m.leaseKey[x]
                                           /\ n.leaseGen[x] = m.leaseGen[x]
<1>. DEFINE n == Release(m, l)
            k == m.leaseKey[l]
            a == [m.pins EXCEPT ![k] = SatSub(@, 1)]
            b == [m.leaseKey EXCEPT ![l] = NoKey]
            c == [m.leaseGen EXCEPT ![l] = NoGen]
            e == [m EXCEPT !.pins = a, !.leaseKey = b, !.leaseGen = c]
<1>0. /\ Fields(m) /\ m.leaseKey \in [LeaseId -> Key \cup {NoKey}]
      /\ m.leaseGen \in [LeaseId -> Nat \cup {NoGen}]
  BY TypedFields DEF Typed
<1>1. n = m \/ n = RefreshPinned(e, PoolOf[k])
  BY <1>0 DEF Release, Fields
<1>2. \A x \in LeaseId : x # l => b[x] = m.leaseKey[x] /\ c[x] = m.leaseGen[x]
  BY <1>0
<1>. HIDE DEF a, b, c, n
<1>3. Fields(e) /\ e.st = m.st /\ e.gen = m.gen /\ e.leaseKey = b /\ e.leaseGen = c
  BY <1>0 DEF Fields
<1>. HIDE DEF e
<1>4. CASE n = m
  BY <1>4 DEF n
<1>5. CASE n = RefreshPinned(e, PoolOf[k])
  <2>1. SameLeases(e, n) /\ n.st = e.st /\ n.gen = e.gen
    BY <1>3, <1>5, RefreshSame
  <2>. QED  BY <1>2, <1>3, <2>1 DEF SameLeases, n
<1>. QED  BY <1>1, <1>4, <1>5

\* complete_load grants new leases only.
LEMMA CompleteStay ==
  ASSUME NEW m, Typed(m), NEW l, NEW ok
  PROVE  LeasesStay(m, CompleteLoad(m, l, ok))
<1>. DEFINE n == CompleteLoad(m, l, ok)
            k == m.loads[l]
            p == PoolOf[k]
<1>0. Fields(m) /\ m.nextLease \in Nat
  BY TypedFields DEF Typed
<1>1. CASE ~ Accepted(m, l)
  <2>. DEFINE x == [m.loads EXCEPT ![l] = NoKey]
  <2>1. n = [m EXCEPT !.loads = x]
    BY <1>0, <1>1 DEF CompleteLoad, Fields
  <2>. HIDE DEF x, n
  <2>2. n.leaseKey = m.leaseKey /\ n.leaseGen = m.leaseGen
    BY <1>0, <2>1 DEF Fields
  <2>. QED  BY <2>2 DEF LeasesStay, n
<1>2. CASE Accepted(m, l) /\ ~ ok
  <2>. DEFINE a == [m.loads EXCEPT ![l] = NoKey]
              b == [m.reserved EXCEPT ![p] = SatSub(@, m.bytes[k])]
              c == [m.st EXCEPT ![k] = "Failed"]
              d == [m.load EXCEPT ![k] = NoLoad]
              e == [m.waiters EXCEPT ![k] = {}]
  <2>1. n = [m EXCEPT !.loads = a, !.reserved = b, !.st = c, !.load = d,
                      !.waiters = e]
    BY <1>0, <1>2 DEF CompleteLoad, LoadFails, Fields
  <2>. HIDE DEF a, b, c, d, e, n
  <2>2. n.leaseKey = m.leaseKey /\ n.leaseGen = m.leaseGen
    BY <1>0, <2>1 DEF Fields
  <2>. QED  BY <2>2 DEF LeasesStay, n
<1>3. CASE Accepted(m, l) /\ ok
  <2>. DEFINE u == Cardinality(m.waiters[k])
              a == [m.loads EXCEPT ![l] = NoKey]
              b == [m.reserved EXCEPT ![p] = SatSub(@, m.bytes[k])]
              c == [m.st EXCEPT ![k] = "Resident"]
              d == [m.load EXCEPT ![k] = NoLoad]
              g == [m.gen EXCEPT ![k] = m.nextGen[k]]
              h == [m.nextGen EXCEPT ![k] = @ + 1]
              i == [m.waiters EXCEPT ![k] = {}]
              j == [m.pins EXCEPT ![k] = u]
              r == [m.resident EXCEPT ![p] = @ + m.bytes[k]]
              e == [m EXCEPT !.loads = a, !.reserved = b, !.st = c, !.load = d,
                             !.gen = g, !.nextGen = h, !.waiters = i,
                             !.pins = j, !.resident = r]
              t == Touch(e, k)
              v == NewLeases(t, k, u)
  <2>1. n = RefreshPinned(v, p)
    BY <1>0, <1>3 DEF CompleteLoad, Publish, Fields
  <2>. HIDE DEF a, b, c, d, g, h, i, j, r, n, u
  <2>2. SameLeases(m, e)
    BY <1>0 DEF Fields, SameLeases
  <2>. HIDE DEF e, k
  <2>3. SameLeases(e, t)
    BY <2>2, TouchSame DEF SameLeases
  <2>. HIDE DEF t
  <2>4. /\ Fields(v)
        /\ v.leaseKey = [x \in LeaseId |-> IF x \in FreshLeases(t, u) THEN k
                                          ELSE t.leaseKey[x]]
        /\ v.leaseGen = [x \in LeaseId |-> IF x \in FreshLeases(t, u) THEN t.gen[k]
                                          ELSE t.leaseGen[x]]
    BY <2>3, NewLeasesFrame DEF SameLeases
  <2>. HIDE DEF v
  <2>5. SameLeases(v, n)
    BY <2>1, <2>4, RefreshSame
  <2>6. \A x \in LeaseId : x < m.nextLease => x \notin FreshLeases(t, u)
    BY <1>0, <2>2, <2>3 DEF FreshLeases, SameLeases, LeaseId
  <2>7. LeasesStay(m, n)
    BY <2>2, <2>3, <2>4, <2>5, <2>6 DEF SameLeases, LeasesStay
  <2>. QED  BY <2>7 DEF n
<1>. QED  BY <1>1, <1>2, <1>3

-----------------------------------------------------------------------------
(***************************************************************************)
(* Leases acquired and released in turn.  That the function a recursion    *)
(* defines exists is shown by extending the longest initial part of it.    *)
(***************************************************************************)
ReleaseChain(m, ls, f, n) ==
  f = [x \in 0 .. n |-> IF x = 0 THEN m ELSE Release(f[x - 1], ls[x])]

LEMMA ReleasesRecur ==
  ASSUME NEW m, NEW ls, Len(ls) \in Nat
  PROVE  LET R == Releases(m, ls)
         IN  /\ R[0] = m
             /\ \A n \in 1 .. Len(ls) : R[n] = Release(R[n - 1], ls[n])
<1>. DEFINE N == Len(ls)
            R == Releases(m, ls)
            Missing == {n \in Nat : ~ \E f : ReleaseChain(m, ls, f, n)}
<1>1. Missing = {}
  <2>. SUFFICES ASSUME Missing # {} PROVE FALSE
    OBVIOUS
  <2>1. PICK n \in Missing : \A y \in Missing : n <= y
    BY LeastNatural
  <2>2. CASE n = 0
    <3>. DEFINE f == [x \in 0 .. 0 |-> m]
    <3>1. f = [x \in 0 .. 0 |-> IF x = 0 THEN m ELSE Release(f[x - 1], ls[x])]
      OBVIOUS
    <3>. QED  BY <2>1, <2>2, <3>1 DEF ReleaseChain
  <2>3. CASE n # 0
    <3>1. n \in Nat /\ n - 1 \in Nat /\ n - 1 \notin Missing
      BY <2>1, <2>3
    <3>2. PICK f : ReleaseChain(m, ls, f, n - 1)
      BY <3>1
    <3>. DEFINE h == [x \in 0 .. n |-> IF x = n THEN Release(f[n - 1], ls[n]) ELSE f[x]]
    <3>3. \A x \in 0 .. (n - 1) :
            h[x] = f[x] /\ f[x] = IF x = 0 THEN m ELSE Release(f[x - 1], ls[x])
      BY <3>1, <3>2 DEF ReleaseChain
    <3>4. ASSUME NEW x \in 0 .. n
          PROVE  h[x] = IF x = 0 THEN m ELSE Release(h[x - 1], ls[x])
      <4>1. h[n] = Release(f[n - 1], ls[n]) /\ n - 1 \in 0 .. (n - 1)
        BY <3>1
      <4>. HIDE DEF h
      <4>2. h[n - 1] = f[n - 1]
        BY <3>3, <4>1
      <4>3. CASE x = n
        BY <2>3, <4>1, <4>2, <4>3
      <4>4. CASE x # n /\ x # 0
        <5>1. x \in 0 .. (n - 1) /\ x - 1 \in 0 .. (n - 1)
          BY <3>1, <4>4
        <5>. QED  BY <3>3, <4>4, <5>1
      <4>5. CASE x = 0
        <5>1. x \in 0 .. (n - 1)
          BY <2>3, <3>1, <4>5
        <5>. QED  BY <3>3, <4>5, <5>1
      <4>. QED  BY <4>3, <4>4, <4>5
    <3>5. ReleaseChain(m, ls, h, n)
      <4>1. h = [x \in 0 .. n |-> h[x]]
        OBVIOUS
      <4>. HIDE DEF h
      <4>. QED  BY <3>4, <4>1 DEF ReleaseChain
    <3>. QED  BY <2>1, <3>5
  <2>. QED  BY <2>2, <2>3
<1>2. \E f : ReleaseChain(m, ls, f, N)
  BY <1>1
<1>3. R = CHOOSE f : ReleaseChain(m, ls, f, N)
  BY DEF Releases, ReleaseChain
<1>4. ReleaseChain(m, ls, R, N)
  BY <1>2, <1>3
<1>. HIDE DEF R
<1>5. R[0] = m /\ \A n \in 1 .. N : R[n] = Release(R[n - 1], ls[n])
  BY <1>4 DEF ReleaseChain
<1>. QED  BY <1>5 DEF R

AcquireChain(m, ks, f, n) ==
  f = [x \in 0 .. n |-> IF x = 0 THEN m ELSE Acquire(f[x - 1], ks[x])]

LEMMA AcquiresRecur ==
  ASSUME NEW m, NEW ks, Len(ks) \in Nat
  PROVE  LET A == Acquires(m, ks)
         IN  /\ A[0] = m
             /\ \A n \in 1 .. Len(ks) : A[n] = Acquire(A[n - 1], ks[n])
<1>. DEFINE N == Len(ks)
            A == Acquires(m, ks)
            Missing == {n \in Nat : ~ \E f : AcquireChain(m, ks, f, n)}
<1>1. Missing = {}
  <2>. SUFFICES ASSUME Missing # {} PROVE FALSE
    OBVIOUS
  <2>1. PICK n \in Missing : \A y \in Missing : n <= y
    BY LeastNatural
  <2>2. CASE n = 0
    <3>. DEFINE f == [x \in 0 .. 0 |-> m]
    <3>1. f = [x \in 0 .. 0 |-> IF x = 0 THEN m ELSE Acquire(f[x - 1], ks[x])]
      OBVIOUS
    <3>. QED  BY <2>1, <2>2, <3>1 DEF AcquireChain
  <2>3. CASE n # 0
    <3>1. n \in Nat /\ n - 1 \in Nat /\ n - 1 \notin Missing
      BY <2>1, <2>3
    <3>2. PICK f : AcquireChain(m, ks, f, n - 1)
      BY <3>1
    <3>. DEFINE h == [x \in 0 .. n |-> IF x = n THEN Acquire(f[n - 1], ks[n]) ELSE f[x]]
    <3>3. \A x \in 0 .. (n - 1) :
            h[x] = f[x] /\ f[x] = IF x = 0 THEN m ELSE Acquire(f[x - 1], ks[x])
      BY <3>1, <3>2 DEF AcquireChain
    <3>4. ASSUME NEW x \in 0 .. n
          PROVE  h[x] = IF x = 0 THEN m ELSE Acquire(h[x - 1], ks[x])
      <4>1. h[n] = Acquire(f[n - 1], ks[n]) /\ n - 1 \in 0 .. (n - 1)
        BY <3>1
      <4>. HIDE DEF h
      <4>2. h[n - 1] = f[n - 1]
        BY <3>3, <4>1
      <4>3. CASE x = n
        BY <2>3, <4>1, <4>2, <4>3
      <4>4. CASE x # n /\ x # 0
        <5>1. x \in 0 .. (n - 1) /\ x - 1 \in 0 .. (n - 1)
          BY <3>1, <4>4
        <5>. QED  BY <3>3, <4>4, <5>1
      <4>5. CASE x = 0
        <5>1. x \in 0 .. (n - 1)
          BY <2>3, <3>1, <4>5
        <5>. QED  BY <3>3, <4>5, <5>1
      <4>. QED  BY <4>3, <4>4, <4>5
    <3>5. AcquireChain(m, ks, h, n)
      <4>1. h = [x \in 0 .. n |-> h[x]]
        OBVIOUS
      <4>. HIDE DEF h
      <4>. QED  BY <3>4, <4>1 DEF AcquireChain
    <3>. QED  BY <2>1, <3>5
  <2>. QED  BY <2>2, <2>3
<1>2. \E f : AcquireChain(m, ks, f, N)
  BY <1>1
<1>3. A = CHOOSE f : AcquireChain(m, ks, f, N)
  BY DEF Acquires, AcquireChain
<1>4. AcquireChain(m, ks, A, N)
  BY <1>2, <1>3
<1>. HIDE DEF A
<1>5. A[0] = m /\ \A n \in 1 .. N : A[n] = Acquire(A[n - 1], ks[n])
  BY <1>4 DEF AcquireChain
<1>. QED  BY <1>5 DEF A

Initial(ls, n) == {ls[i] : i \in 1 .. n}

LEMMA InitialGrows ==
  ASSUME NEW ls, NEW n \in Nat, n # 0
  PROVE  /\ Initial(ls, n) = Initial(ls, n - 1) \cup {ls[n]}
         /\ Initial(ls, 0) = {}
<1>1. ASSUME NEW x \in Initial(ls, n) PROVE x \in Initial(ls, n - 1) \cup {ls[n]}
  <2>1. PICK i \in 1 .. n : x = ls[i]
    BY <1>1 DEF Initial
  <2>2. i = n \/ i \in 1 .. (n - 1)
    BY <2>1
  <2>. QED  BY <2>1, <2>2 DEF Initial
<1>2. ASSUME NEW x \in Initial(ls, n - 1) \cup {ls[n]} PROVE x \in Initial(ls, n)
  <2>1. CASE x = ls[n]
    BY <2>1 DEF Initial
  <2>2. CASE x \in Initial(ls, n - 1)
    <3>1. PICK i \in 1 .. (n - 1) : x = ls[i]
      BY <2>2 DEF Initial
    <3>2. i \in 1 .. n
      BY <3>1
    <3>. QED  BY <3>1, <3>2 DEF Initial
  <2>. QED  BY <2>1, <2>2
<1>3. Initial(ls, 0) = {}
  BY DEF Initial
<1>. QED  BY <1>1, <1>2, <1>3

\* u is m after the leases of L were given back.
GivenBack(m, g, s, L, u) ==
  /\ Books(u, g \ L, s)
  /\ u.st = m.st /\ u.gen = m.gen
  /\ \A x \in LeaseId : x \notin L => u.leaseKey[x] = m.leaseKey[x]
                                     /\ u.leaseGen[x] = m.leaseGen[x]

LEMMA GiveBackOne ==
  ASSUME NEW m, NEW g, NEW s, NEW L, NEW u, GivenBack(m, g, s, L, u),
         NEW l \in LeaseId
  PROVE  GivenBack(m, g, s, L \cup {l}, Release(u, l))
<1>. DEFINE n == Release(u, l)
<1>1. Books(u, g \ L, s) /\ Typed(u)
  BY DEF GivenBack, Books
<1>2. Books(n, (g \ L) \ {l}, s)
  BY <1>1, ReleaseStep
<1>3. (g \ L) \ {l} = g \ (L \cup {l})
  OBVIOUS
<1>4. /\ n.st = u.st /\ n.gen = u.gen
      /\ \A x \in LeaseId : x # l => n.leaseKey[x] = u.leaseKey[x]
                                    /\ n.leaseGen[x] = u.leaseGen[x]
  BY <1>1, ReleaseFrame
<1>. HIDE DEF n
<1>5. GivenBack(m, g, s, L \cup {l}, n)
  BY <1>2, <1>3, <1>4 DEF GivenBack
<1>. QED  BY <1>5 DEF n

\* Leases released one after the other.
LEMMA ReleasesStep ==
  ASSUME NEW m, NEW g, NEW s, Books(m, g, s), NEW ls \in Seq(LeaseId)
  PROVE  \A n \in 0 .. Len(ls) :
           GivenBack(m, g, s, Initial(ls, n), Releases(m, ls)[n])
<1>. DEFINE R == Releases(m, ls)
            Wrong == {n \in 0 .. Len(ls) : ~ GivenBack(m, g, s, Initial(ls, n), R[n])}
<1>0. Len(ls) \in Nat /\ R[0] = m
      /\ \A n \in 1 .. Len(ls) : R[n] = Release(R[n - 1], ls[n])
  BY ReleasesRecur
<1>. HIDE DEF R
<1>1. GivenBack(m, g, s, Initial(ls, 0), R[0])
  <2>1. Initial(ls, 0) = {} /\ g \ {} = g
    BY DEF Initial
  <2>. QED  BY <1>0, <2>1 DEF GivenBack
<1>. SUFFICES ASSUME Wrong # {} PROVE FALSE
  BY DEF R
<1>2. PICK n \in Wrong : \A y \in Wrong : n <= y
  <2>1. Wrong \subseteq Nat
    BY <1>0
  <2>. HIDE DEF Wrong
  <2>. QED  BY <2>1, LeastNatural
<1>3. n \in 1 .. Len(ls) /\ n \in Nat /\ n # 0 /\ n - 1 \in 0 .. Len(ls)
  BY <1>0, <1>1, <1>2
<1>4. GivenBack(m, g, s, Initial(ls, n - 1), R[n - 1])
  <2>1. n - 1 \notin Wrong
    BY <1>2, <1>3
  <2>. QED  BY <1>3, <2>1
<1>5. ls[n] \in LeaseId
  BY <1>3
<1>6. Initial(ls, n) = Initial(ls, n - 1) \cup {ls[n]}
  BY <1>3, InitialGrows
<1>7. GivenBack(m, g, s, Initial(ls, n), R[n])
  BY <1>0, <1>3, <1>4, <1>5, <1>6, GiveBackOne
<1>. QED  BY <1>2, <1>7

\* Every lease of a record that is out can be released, so complete retires
\* the whole record.
LEMMA AllRetired ==
  ASSUME NEW m, NEW g, NEW s, Books(m, g, s), NEW ls \in Seq(LeaseId),
         NoDuplicates(ls), \A i \in 1 .. Len(ls) : ls[i] \in g
  PROVE  Retired(m, ls) = Len(ls)
<1>. DEFINE R == Releases(m, ls)
            ok == {n \in 1 .. Len(ls) : \A i \in 1 .. n : Releasable(R[i - 1], ls[i])}
<1>1. Len(ls) \in Nat /\ \A n \in 0 .. Len(ls) : GivenBack(m, g, s, Initial(ls, n), R[n])
  BY ReleasesStep
<1>2. Retired(m, ls) = Cardinality(ok)
  BY DEF Retired
<1>. HIDE DEF R
<1>3. ASSUME NEW i \in 1 .. Len(ls) PROVE Releasable(R[i - 1], ls[i])
  <2>1. i - 1 \in 0 .. Len(ls)
    BY <1>1
  <2>2. Books(R[i - 1], g \ Initial(ls, i - 1), s)
    BY <1>1, <2>1 DEF GivenBack
  <2>3. ls[i] \notin Initial(ls, i - 1)
    BY <1>1 DEF Initial, NoDuplicates
  <2>4. ls[i] \in g \ Initial(ls, i - 1)
    BY <2>3
  <2>5. Leased(R[i - 1], g \ Initial(ls, i - 1)) /\ Typed(R[i - 1])
    BY <2>2 DEF Books
  <2>6. ls[i] \in LeaseId
    OBVIOUS
  <2>. QED  BY ONLY <2>4, <2>5, <2>6 DEF Leased, Releasable
<1>4. ok = 1 .. Len(ls)
  BY <1>1, <1>3
<1>5. Cardinality(1 .. Len(ls)) = Len(ls)
  BY <1>1, FS_Interval
<1>. QED  BY <1>2, <1>4, <1>5

\* u is m after the keys in front of ks were acquired, n of them.
Taken(m, g, s, ks, n, u) ==
  /\ Books(u, g \cup FreshLeases(m, n), s)
  /\ u.st = m.st /\ u.gen = m.gen
  /\ u.nextLease = m.nextLease + n
  /\ \A i \in 1 .. n : /\ u.leaseKey[m.nextLease + i - 1] = ks[i]
                       /\ u.leaseGen[m.nextLease + i - 1] = m.gen[ks[i]]
  /\ LeasesStay(m, u)

LEMMA TakeOne ==
  ASSUME NEW m, NEW g, NEW s, Typed(m), NEW ks, NEW n \in Nat, NEW u,
         Taken(m, g, s, ks, n, u),
         ks[n + 1] \in Key, m.st[ks[n + 1]] = "Resident",
         m.nextLease + n < MaxLeases
  PROVE  Taken(m, g, s, ks, n + 1, Acquire(u, ks[n + 1]))
<1>. DEFINE k == ks[n + 1]
            v == Acquire(u, k)
            a == m.nextLease
<1>1. /\ Books(u, g \cup FreshLeases(m, n), s) /\ Typed(u)
      /\ u.st = m.st /\ u.gen = m.gen /\ u.nextLease = a + n
      /\ \A i \in 1 .. n : u.leaseKey[a + i - 1] = ks[i] /\ u.leaseGen[a + i - 1] = m.gen[ks[i]]
      /\ LeasesStay(m, u)
  BY DEF Taken, Books
<1>2. a \in Nat /\ MaxLeases \in Nat
  BY ResidencyConstants DEF Typed
<1>3. Books(v, (g \cup FreshLeases(m, n)) \cup {u.nextLease}, s)
  BY <1>1, AcquireStep
<1>4. /\ v.st = u.st /\ v.gen = u.gen /\ v.nextLease = u.nextLease + 1
      /\ v.leaseKey[u.nextLease] = k /\ v.leaseGen[u.nextLease] = u.gen[k]
      /\ LeasesStay(u, v)
  BY <1>1, AcquireFrame
<1>. HIDE DEF v, a
<1>5. FreshLeases(m, n + 1) = FreshLeases(m, n) \cup {u.nextLease}
  <2>1. FreshLeases(m, n) = a .. (a + n - 1) /\ FreshLeases(m, n + 1) = a .. (a + (n + 1) - 1)
    BY DEF FreshLeases, a
  <2>. QED  BY <1>1, <1>2, <2>1
<1>6. Books(v, g \cup FreshLeases(m, n + 1), s)
  <2>1. (g \cup FreshLeases(m, n)) \cup {u.nextLease} = g \cup FreshLeases(m, n + 1)
    BY <1>5
  <2>. QED  BY <1>3, <2>1
<1>7. ASSUME NEW i \in 1 .. (n + 1)
      PROVE  v.leaseKey[a + i - 1] = ks[i] /\ v.leaseGen[a + i - 1] = m.gen[ks[i]]
  <2>1. CASE i = n + 1
    <3>1. a + i - 1 = u.nextLease
      BY <1>1, <1>2, <2>1
    <3>. QED  BY <1>1, <1>4, <2>1, <3>1
  <2>2. CASE i # n + 1
    <3>1. i \in 1 .. n /\ a + i - 1 \in LeaseId /\ a + i - 1 < u.nextLease
      BY <1>1, <1>2, <2>2 DEF LeaseId, a
    <3>2. v.leaseKey[a + i - 1] = u.leaseKey[a + i - 1]
          /\ v.leaseGen[a + i - 1] = u.leaseGen[a + i - 1]
      BY <1>4, <3>1 DEF LeasesStay
    <3>. QED  BY <1>1, <3>1, <3>2
  <2>. QED  BY <2>1, <2>2
<1>8. LeasesStay(m, v)
  <2>1. \A l \in LeaseId : l < a => l < u.nextLease
    BY <1>1, <1>2 DEF LeaseId
  <2>. QED  BY <1>1, <1>4, <2>1 DEF LeasesStay, a
<1>9. v.nextLease = a + (n + 1)
  BY <1>1, <1>2, <1>4
<1>10. Taken(m, g, s, ks, n + 1, v)
  BY <1>1, <1>4, <1>6, <1>7, <1>8, <1>9 DEF Taken, a
<1>. QED  BY <1>10 DEF v

\* References acquired one after the other, all of them resident.
LEMMA AcquiresStep ==
  ASSUME NEW m, NEW g, NEW s, Books(m, g, s), NEW ks \in Seq(Key),
         NEW p \in 0 .. Len(ks), m.nextLease + p <= MaxLeases,
         \A i \in 1 .. p : m.st[ks[i]] = "Resident"
  PROVE  Taken(m, g, s, ks, p, Acquires(m, ks)[p])
<1>. DEFINE A == Acquires(m, ks)
            Wrong == {n \in 0 .. p : ~ Taken(m, g, s, ks, n, A[n])}
<1>0. Len(ks) \in Nat /\ A[0] = m
      /\ \A n \in 1 .. Len(ks) : A[n] = Acquire(A[n - 1], ks[n])
  BY AcquiresRecur
<1>. HIDE DEF A
<1>1. Typed(m) /\ m.nextLease \in Nat /\ MaxLeases \in Nat
  BY ResidencyConstants DEF Books, Typed
<1>2. Taken(m, g, s, ks, 0, A[0])
  <2>1. FreshLeases(m, 0) = {}
    BY <1>1 DEF FreshLeases
  <2>2. Books(m, g \cup FreshLeases(m, 0), s)
    <3>1. g \cup FreshLeases(m, 0) = g
      BY <2>1
    <3>. QED  BY <3>1
  <2>. QED  BY <1>0, <1>1, <2>2 DEF Taken, LeasesStay
<1>. SUFFICES ASSUME Wrong # {} PROVE FALSE
  BY <1>0 DEF A
<1>3. PICK n \in Wrong : \A y \in Wrong : n <= y
  <2>1. Wrong \subseteq Nat
    BY <1>0
  <2>. HIDE DEF Wrong
  <2>. QED  BY <2>1, LeastNatural
<1>4. n \in Nat /\ n # 0 /\ n \in 1 .. Len(ks) /\ n \in 1 .. p /\ n - 1 \in Nat /\ n - 1 \in 0 .. p
  BY <1>0, <1>2, <1>3
<1>5. Taken(m, g, s, ks, n - 1, A[n - 1])
  <2>1. n - 1 \notin Wrong
    BY <1>3, <1>4
  <2>. QED  BY <1>4, <2>1
<1>. DEFINE q == n - 1
<1>6. q \in Nat /\ q + 1 = n /\ m.nextLease + q < MaxLeases /\ A[n] = Acquire(A[q], ks[n])
      /\ ks[n] \in Key /\ m.st[ks[n]] = "Resident"
  BY <1>0, <1>1, <1>4
<1>. HIDE DEF q
<1>7. Taken(m, g, s, ks, q, A[q])
  BY <1>5 DEF q
<1>8. Taken(m, g, s, ks, n, A[n])
  BY <1>1, <1>6, <1>7, TakeOne
<1>. QED  BY <1>3, <1>8

\* The record of a submission: n new leases, each of them once.
LEMMA FreshRecord ==
  ASSUME NEW m, Typed(m), NEW p \in Nat, m.nextLease + p <= MaxLeases
  PROVE  LET ls == LeasesOf(m, p)
         IN  /\ ls \in Seq(LeaseId) /\ Len(ls) = p /\ NoDuplicates(ls)
             /\ \A i \in 1 .. p : ls[i] = m.nextLease + i - 1
             /\ Initial(ls, p) = FreshLeases(m, p)
<1>. DEFINE ls == LeasesOf(m, p)
            a == m.nextLease
<1>1. a \in Nat /\ MaxLeases \in Nat
  BY ResidencyConstants DEF Typed
<1>2. /\ ls \in Seq(LeaseId) /\ Len(ls) = p
      /\ \A i \in 1 .. p : ls[i] = a + i - 1
  <2>1. \A i \in 1 .. p : a + i - 1 \in LeaseId
    BY <1>1 DEF LeaseId
  <2>. HIDE DEF a
  <2>2. ls = [i \in 1 .. p |-> a + i - 1]
    BY DEF LeasesOf, a
  <2>. HIDE DEF ls
  <2>. QED  BY <2>1, <2>2
<1>. HIDE DEF ls
<1>3. NoDuplicates(ls)
  BY <1>1, <1>2 DEF NoDuplicates
<1>4. Initial(ls, p) = FreshLeases(m, p)
  <2>1. FreshLeases(m, p) = a .. (a + p - 1)
    BY DEF FreshLeases
  <2>2. ASSUME NEW x \in a .. (a + p - 1) PROVE x \in Initial(ls, p)
    <3>1. x - a + 1 \in 1 .. p /\ ls[x - a + 1] = x
      BY <1>1, <1>2
    <3>. QED  BY <3>1 DEF Initial
  <2>3. ASSUME NEW x \in Initial(ls, p) PROVE x \in a .. (a + p - 1)
    BY <1>1, <1>2 DEF Initial
  <2>. QED  BY <2>1, <2>2, <2>3
<1>. QED  BY <1>2, <1>3, <1>4 DEF ls

\* A submission that is rolled back leaves the leases that were out before it.
LEMMA RollbackStep ==
  ASSUME NEW m, NEW g, NEW s, Books(m, g, s), NEW ks, NEW p \in Nat,
         m.nextLease + p <= MaxLeases,
         NEW u, Taken(m, g, s, ks, p, u)
  PROVE  LET n == Rollback(u, LeasesOf(m, p))
         IN  Books(n, g, s) /\ LeasesStay(m, n)
<1>. DEFINE ls == LeasesOf(m, p)
            n == Rollback(u, ls)
            a == m.nextLease
<1>1. Typed(m) /\ Leased(m, g) /\ a \in Nat
  BY DEF Books, Typed
<1>2. ls \in Seq(LeaseId) /\ Len(ls) = p /\ Initial(ls, p) = FreshLeases(m, p)
  BY <1>1, FreshRecord
<1>3. Books(u, g \cup FreshLeases(m, p), s) /\ LeasesStay(m, u)
  BY DEF Taken
<1>. HIDE DEF ls
<1>4. n = Releases(u, ls)[p]
  BY <1>2 DEF Rollback
<1>5. GivenBack(u, g \cup FreshLeases(m, p), s, Initial(ls, p), n)
  <2>1. p \in 0 .. Len(ls)
    BY <1>2
  <2>. QED  BY <1>2, <1>3, <1>4, <2>1, ReleasesStep
<1>. HIDE DEF n
<1>6. \A x \in FreshLeases(m, p) : ~ (x < a)
  BY <1>1 DEF FreshLeases
<1>7. (g \cup FreshLeases(m, p)) \ Initial(ls, p) = g
  <2>1. \A l \in g : l < a
    BY <1>1 DEF Leased
  <2>. QED  BY <1>2, <1>6, <2>1
<1>8. Books(n, g, s)
  BY <1>5, <1>7 DEF GivenBack
<1>9. LeasesStay(m, n)
  BY <1>2, <1>3, <1>5, <1>6 DEF GivenBack, LeasesStay
<1>. QED  BY <1>8, <1>9 DEF n, ls

-----------------------------------------------------------------------------
(***************************************************************************)
(* The core.  No method but submit makes a ticket live.                    *)
(***************************************************************************)
Fewer(c, d) ==
  CoreLike(d) /\ d.nextTicket = c.nextTicket /\ Live(d) \subseteq Live(c)

LEMMA RevokeFewer ==
  ASSUME NEW c, CoreLike(c), NEW s, NEW final
  PROVE  Fewer(c, RevokeTo(c, s, final))
<1>. DEFINE a == [c.state EXCEPT ![s] = final]
            b == [c.inReady EXCEPT ![s] = FALSE]
            r == Retain(c.ready, s)
            o == [c.owned EXCEPT ![s] = {}]
            f == [t \in Ticket |-> IF t \in c.owned[s] THEN NoOwner ELSE c.inflight[t]]
            d == [c EXCEPT !.state = a, !.inReady = b, !.ready = r, !.owned = o,
                           !.inflight = f]
<1>1. RevokeTo(c, s, final) = d
  BY DEF RevokeTo, Revoke, RemoveFromReady, CoreLike
<1>2. /\ f \in [Ticket -> SessionId \cup {NoOwner}]
      /\ \A t \in Ticket : f[t] # NoOwner => c.inflight[t] # NoOwner
  BY DEF CoreLike
<1>. HIDE DEF a, b, r, o, f
<1>3. CoreLike(d) /\ d.nextTicket = c.nextTicket /\ d.inflight = f
  BY <1>2 DEF CoreLike
<1>. HIDE DEF d
<1>4. Fewer(c, d)
  BY <1>2, <1>3 DEF Fewer, Live
<1>. QED  BY <1>1, <1>4

LEMMA ConsumeFewer ==
  ASSUME NEW c, CoreLike(c), NEW t \in Ticket
  PROVE  Fewer(c, Consume(c, t)) /\ t \notin Live(Consume(c, t))
<1>. DEFINE o == [c.owned EXCEPT ![c.inflight[t]] = @ \ {t}]
            f == [c.inflight EXCEPT ![t] = NoOwner]
            d == [c EXCEPT !.owned = o, !.inflight = f]
<1>1. Consume(c, t) = d
  BY DEF Consume, CoreLike
<1>2. /\ f \in [Ticket -> SessionId \cup {NoOwner}]
      /\ f[t] = NoOwner
      /\ \A x \in Ticket : f[x] # NoOwner => c.inflight[x] # NoOwner
  BY DEF CoreLike
<1>. HIDE DEF o, f
<1>3. CoreLike(d) /\ d.nextTicket = c.nextTicket /\ d.inflight = f
  BY <1>2 DEF CoreLike
<1>. HIDE DEF d
<1>4. Fewer(c, d) /\ t \notin Live(d)
  BY <1>2, <1>3 DEF Fewer, Live
<1>. QED  BY <1>1, <1>4

LEMMA QueuedFewer ==
  ASSUME NEW c, CoreLike(c), NEW s, NEW state
  PROVE  /\ Fewer(c, PushBack([c EXCEPT !.state[s] = state], s))
         /\ Fewer(c, [c EXCEPT !.state[s] = state])
         /\ Fewer(c, [RemoveFromReady(c, s) EXCEPT !.state[s] = state])
<1>. DEFINE a == [c.state EXCEPT ![s] = state]
            b == [c.inReady EXCEPT ![s] = TRUE]
            e == [c.inReady EXCEPT ![s] = FALSE]
            r == Append(c.ready, s)
            q == Retain(c.ready, s)
<1>1. /\ PushBack([c EXCEPT !.state[s] = state], s) =
           [c EXCEPT !.state = a, !.inReady = b, !.ready = r]
      /\ [c EXCEPT !.state[s] = state] = [c EXCEPT !.state = a]
      /\ [RemoveFromReady(c, s) EXCEPT !.state[s] = state] =
           [c EXCEPT !.state = a, !.inReady = e, !.ready = q]
  BY DEF PushBack, RemoveFromReady, CoreLike
<1>. HIDE DEF a, b, e, r, q
<1>2. /\ Fewer(c, [c EXCEPT !.state = a, !.inReady = b, !.ready = r])
      /\ Fewer(c, [c EXCEPT !.state = a])
      /\ Fewer(c, [c EXCEPT !.state = a, !.inReady = e, !.ready = q])
  BY DEF CoreLike, Fewer, Live
<1>. QED  BY <1>1, <1>2

LEMMA Unmoved ==
  ASSUME NEW c, CoreLike(c) PROVE Fewer(c, c)
BY DEF Fewer

\* block, wake, cancel, finish and fail.
LEMMA LifecycleFewer ==
  ASSUME NEW c, CoreLike(c), NEW s,
         NEW d \in {Block(c, s).core, Wake(c, s).core, Cancel(c, s).core,
                    Finish(c, s).core, Fail(c, s).core}
  PROVE  Fewer(c, d)
<1>1. Fewer(c, Block(c, s).core)
  BY QueuedFewer, Unmoved DEF Block, NoEffects, Ret
<1>2. Fewer(c, Wake(c, s).core)
  <2>. DEFINE e == [c EXCEPT !.state[s] = "Runnable"]
  <2>1. Fewer(c, PushBack(e, s)) /\ Fewer(c, e)
    BY QueuedFewer
  <2>2. EnqueueIfRunnable(e, s) \in {PushBack(e, s), e}
    <3>. HIDE DEF e
    <3>. QED  BY DEF EnqueueIfRunnable
  <2>3. Wake(c, s).core \in {EnqueueIfRunnable(e, s), c}
    <3>. HIDE DEF EnqueueIfRunnable
    <3>. QED  BY DEF Wake, NoEffects, Ret
  <2>. HIDE DEF e
  <2>. QED  BY <2>1, <2>2, <2>3, Unmoved
<1>3. Fewer(c, Cancel(c, s).core) /\ Fewer(c, Finish(c, s).core) /\ Fewer(c, Fail(c, s).core)
  <2>1. /\ Cancel(c, s).core \in {RevokeTo(c, s, "Cancelling"), c}
        /\ Finish(c, s).core \in {RevokeTo(c, s, "Finished"), c}
        /\ Fail(c, s).core \in {RevokeTo(c, s, "Failed"), c}
    BY DEF Cancel, Finish, Fail, Terminalize, NoEffects, Ret
  <2>. QED  BY <2>1, RevokeFewer, Unmoved
<1>. QED  BY <1>1, <1>2, <1>3

LEMMA CompleteFewer ==
  ASSUME NEW c, CoreLike(c), NEW t \in Ticket, NEW ok \in BOOLEAN
  PROVE  Fewer(c, Complete(c, t, ok).core) /\ t \notin Live(Complete(c, t, ok).core)
<1>. DEFINE s == c.inflight[t]
            d == Consume(c, t)
            e == [d EXCEPT !.state[s] = "Runnable"]
            f == RevokeTo(d, s, "Failed")
            h == PushBack(e, s)
<1>1. \/ Complete(c, t, ok).core \in {f, h, d}
      \/ s = NoOwner /\ Complete(c, t, ok).core = c
  <2>1. Complete(c, t, ok) =
          IF s = NoOwner THEN Ret(c, {}, "None")
          ELSE IF ~ ok THEN Ret(f, d.owned[s], "Failed")
          ELSE IF d.state[s] = "Blocked" /\ d.owned[s] = {} THEN Ret(h, {}, "Wake")
          ELSE Ret(d, {}, "None")
    BY Zenon DEF Complete, Terminalize, NoEffects
  <2>. HIDE DEF s, d, e, f, h
  <2>2. \A x, cancel, event : Ret(x, cancel, event).core = x
    BY DEF Ret
  <2>3. CASE s = NoOwner
    BY <2>1, <2>2, <2>3
  <2>4. CASE s # NoOwner /\ ~ ok
    <3>1. Complete(c, t, ok) = Ret(f, d.owned[s], "Failed")
      BY ONLY <2>1, <2>4, Zenon
    <3>. QED  BY ONLY <2>2, <3>1
  <2>5. CASE s # NoOwner /\ ok
    <3>1. \/ Complete(c, t, ok) = Ret(h, {}, "Wake")
          \/ Complete(c, t, ok) = Ret(d, {}, "None")
      BY ONLY <2>1, <2>5, Zenon
    <3>. QED  BY ONLY <2>2, <3>1
  <2>. QED  BY <2>3, <2>4, <2>5
<1>2. Fewer(c, d) /\ CoreLike(d) /\ t \notin Live(d)
  BY ConsumeFewer DEF Fewer
<1>. HIDE DEF d, s
<1>3. Fewer(d, RevokeTo(d, s, "Failed")) /\ Fewer(d, PushBack(e, s))
  BY <1>2, RevokeFewer, QueuedFewer
<1>. HIDE DEF e
<1>4. \A x : Fewer(d, x) => Fewer(c, x) /\ t \notin Live(x)
  BY <1>2 DEF Fewer
<1>5. s = NoOwner => t \notin Live(c)
  BY DEF Live, s
<1>. QED  BY <1>1, <1>2, <1>3, <1>4, <1>5, Unmoved

LEMMA CreateFewer ==
  ASSUME NEW c, CoreLike(c) PROVE Fewer(c, CreateSession(c))
<1>. DEFINE s == c.nextSession
            a == [c.state EXCEPT ![s] = "Runnable"]
            b == [c.inReady EXCEPT ![s] = TRUE]
            r == Append(c.ready, s)
            n == c.nextSession + 1
<1>1. CreateSession(c) =
        [c EXCEPT !.state = a, !.inReady = b, !.ready = r, !.nextSession = n]
  BY DEF CreateSession, PushBack, CoreLike
<1>. HIDE DEF a, b, r, n
<1>2. Fewer(c, [c EXCEPT !.state = a, !.inReady = b, !.ready = r, !.nextSession = n])
  BY DEF CoreLike, Fewer, Live
<1>. QED  BY <1>1, <1>2

\* submit makes the ticket it issues live and no other.
LEMMA SubmitLive ==
  ASSUME NEW c, CoreLike(c), NEW s \in SessionId, c.nextTicket \in Ticket
  PROVE  LET d == Submit(c, s)
         IN  /\ CoreLike(d) /\ d.nextTicket = c.nextTicket + 1
             /\ Live(d) \subseteq Live(c) \cup {c.nextTicket}
<1>. DEFINE t == c.nextTicket
            n == c.nextTicket + 1
            o == [c.owned EXCEPT ![s] = @ \cup {t}]
            f == [c.inflight EXCEPT ![t] = s]
            d == [c EXCEPT !.nextTicket = n, !.owned = o, !.inflight = f]
<1>1. Submit(c, s) = d
  BY DEF Submit, CoreLike
<1>2. /\ n \in Nat /\ f \in [Ticket -> SessionId \cup {NoOwner}]
      /\ \A x \in Ticket : f[x] # NoOwner => c.inflight[x] # NoOwner \/ x = t
  BY DEF CoreLike
<1>. HIDE DEF n, o, f
<1>3. CoreLike(d) /\ d.nextTicket = n /\ d.inflight = f
  BY <1>2 DEF CoreLike
<1>. HIDE DEF d
<1>4. Live(d) \subseteq Live(c) \cup {t}
  BY <1>2, <1>3 DEF Live
<1>. QED  BY <1>1, <1>3, <1>4 DEF n

-----------------------------------------------------------------------------
(***************************************************************************)
(* The specification of Accel.                                             *)
(***************************************************************************)
\* What acquire finds resident is a front part of the references.
LEMMA PinnableFront ==
  ASSUME NEW ks, Len(ks) \in Nat
  PROVE  /\ Pinnable(ks) \in 0 .. Len(ks)
         /\ \A i \in 1 .. Pinnable(ks) : mgr.st[ks[i]] = "Resident"
<1>. DEFINE S == {n \in 1 .. Len(ks) : \A i \in 1 .. n : mgr.st[ks[i]] = "Resident"}
            T == {n \in Nat : n # 0 /\ n \notin S}
<1>1. T \subseteq Nat /\ Len(ks) + 1 \in T
  OBVIOUS
<1>2. PICK x \in T : \A y \in T : x <= y
  <2>. HIDE DEF T
  <2>. QED  BY <1>1, LeastNatural
<1>3. x \in Nat /\ x # 0 /\ x \notin S /\ x <= Len(ks) + 1
  BY <1>1, <1>2
<1>4. S = 1 .. (x - 1)
  <2>1. ASSUME NEW y \in 1 .. (x - 1) PROVE y \in S
    <3>1. y \in Nat /\ y # 0 /\ ~ (x <= y)
      BY <1>3
    <3>2. y \notin T
      BY <1>2, <3>1
    <3>. QED  BY <3>1, <3>2
  <2>2. ASSUME NEW y \in S PROVE y \in 1 .. (x - 1)
    <3>1. y \in Nat /\ y # 0 /\ y \in 1 .. Len(ks)
      OBVIOUS
    <3>2. CASE x <= y
      <4>1. x \in 1 .. Len(ks) /\ \A i \in 1 .. x : i \in 1 .. y
        BY <1>3, <3>1, <3>2
      <4>2. x \in S
        BY <4>1
      <4>. QED  BY <1>3, <4>2
    <3>. QED  BY <1>3, <3>1, <3>2
  <2>. QED  BY <2>1, <2>2
<1>5. x - 1 \in Nat
  BY <1>3
<1>6. Cardinality(1 .. (x - 1)) = x - 1
  <2>1. \A b \in Nat : Cardinality(1 .. b) = IF 1 > b THEN 0 ELSE b - 1 + 1
    BY FS_Interval
  <2>. QED  BY <1>5, <2>1
<1>7. Pinnable(ks) = x - 1
  BY <1>4, <1>6 DEF Pinnable
<1>8. \A i \in 1 .. (x - 1) : mgr.st[ks[i]] = "Resident"
  <2>1. \A i \in 1 .. (x - 1) : i \in S
    BY <1>4
  <2>. QED  BY <2>1
<1>. QED  BY <1>3, <1>5, <1>7, <1>8

LEMMA SeenForgotten ==
  ASSUME NEW m, NEW g, NEW s, Books(m, g, s) PROVE Books(m, g, NoneSeen)
<1>1. Fresh(m, NoneSeen)
  BY DEF Books, Typed, Fresh, NoneSeen, NoGen
<1>. QED  BY <1>1 DEF Books

\* The leases that are out were granted before.
LEMMA OutstandingGranted ==
  ASSUME AccelInv
  PROVE  /\ Outstanding \subseteq LeaseId
         /\ \A l \in Outstanding : l < mgr.nextLease
         /\ \A t \in native : HeldBy(t) \subseteq Outstanding
BY DEF AccelInv, Books, Leased, Outstanding

\* A step that leaves the records alone.
LEMMA RecordsKept ==
  ASSUME AccelInv, UNCHANGED << inflight, native, reads, borrowed >>,
         Books(mgr', Outstanding, NoneSeen), LeasesStay(mgr, mgr'),
         Fewer(core, core')
  PROVE  AccelInv'
<1>1. Outstanding' = Outstanding /\ \A t : HeldBy(t)' = HeldBy(t)
  BY DEF Outstanding, HeldBy
<1>2. Books(mgr, Outstanding, NoneSeen)' /\ NoneSeen' = NoneSeen
  BY <1>1 DEF NoneSeen
<1>3. RecordsTyped' /\ RecordsApart'
  BY <1>1 DEF AccelInv, RecordsTyped, RecordsApart
<1>4. ReadsLeased'
  <2>1. ASSUME NEW t \in native, NEW r \in reads[t]
        PROVE  \E l \in HeldBy(t) : r = << mgr'.leaseKey[l], mgr'.leaseGen[l] >>
    <3>1. PICK l \in HeldBy(t) : r = << mgr.leaseKey[l], mgr.leaseGen[l] >>
      BY <2>1 DEF AccelInv, ReadsLeased
    <3>2. l \in LeaseId /\ l < mgr.nextLease
      BY <2>1, <3>1, OutstandingGranted
    <3>. QED  BY <3>1, <3>2 DEF LeasesStay
  <2>. QED  BY <1>1, <2>1 DEF ReadsLeased
<1>5. TicketsOut'
  BY DEF AccelInv, TicketsOut, Fewer
<1>6. (reads \in [Ticket -> SUBSET (Key \X (Nat \cup {NoGen}))])'
  BY DEF AccelInv
<1>. QED  BY <1>2, <1>3, <1>4, <1>5, <1>6 DEF AccelInv

LEMMA AccelInitially == AccelInit => AccelInv
<1>. SUFFICES ASSUME AccelInit PROVE AccelInv
  OBVIOUS
<1>0. /\ core = NewCore /\ mgr = NewManager /\ native = {} /\ borrowed = {}
      /\ inflight = [t \in Ticket |-> None] /\ reads = [t \in Ticket |-> {}]
  BY DEF AccelInit
<1>1. Outstanding = {}
  BY <1>0 DEF Outstanding
<1>2. Books(mgr, {}, NoneSeen)
  <2>1. NoneSeen = [k \in Key |-> NoGen]
    BY DEF NoneSeen
  <2>. QED  BY <1>0, <2>1, NewBooks
<1>3. RecordsTyped /\ RecordsApart /\ ReadsLeased
  BY <1>0 DEF RecordsTyped, RecordsApart, ReadsLeased
<1>4. TicketsOut
  BY <1>0 DEF TicketsOut, NewCore, CoreLike, Live
<1>5. reads \in [Ticket -> SUBSET (Key \X (Nat \cup {NoGen}))]
  BY <1>0
<1>. QED  BY <1>1, <1>2, <1>3, <1>4, <1>5 DEF AccelInv

\* Accel::submit, whether it is accepted or rolled back.
LEMMA SubmissionStep ==
  ASSUME AccelInv, NEW s \in SessionId, NEW ks \in References, Submission(s, ks)
  PROVE  AccelInv'
<1>. DEFINE p == Pinnable(ks)
            ls == LeasesOf(mgr, p)
            m == Acquires(mgr, ks)[p]
            fresh == FreshLeases(mgr, p)
<1>t. PICK t : t = core.nextTicket
  OBVIOUS
<1>0. /\ Books(mgr, Outstanding, NoneSeen) /\ Typed(mgr)
      /\ RecordsTyped /\ RecordsApart /\ ReadsLeased /\ TicketsOut
      /\ reads \in [Ticket -> SUBSET (Key \X (Nat \cup {NoGen}))]
  BY DEF AccelInv, Books
<1>1. ks \in Seq(Key) /\ Len(ks) \in Nat
  BY AccelConstants
<1>2. p \in 0 .. Len(ks) /\ p \in Nat /\ \A i \in 1 .. p : mgr.st[ks[i]] = "Resident"
  BY <1>1, PinnableFront
<1>3. /\ t < MaxTickets /\ mgr.nextLease + p <= MaxLeases /\ borrowed' = borrowed
      /\ \/ /\ mgr' = Rollback(m, ls)
            /\ UNCHANGED << core, inflight, native, reads >>
         \/ /\ p = Len(ks)
            /\ core' = Submit(core, s) /\ mgr' = m
            /\ inflight' = [inflight EXCEPT ![t] = ls]
            /\ native' = native \cup {t}
            /\ reads' = [reads EXCEPT ![t] =
                           {<< ks[i], mgr.gen[ks[i]] >> : i \in 1 .. Len(ks)}]
  BY <1>1, <1>2, <1>t DEF Submission
<1>. HIDE DEF p
<1>4. Taken(mgr, Outstanding, NoneSeen, ks, p, m)
  BY <1>0, <1>1, <1>2, <1>3, AcquiresStep
<1>5. /\ ls \in Seq(LeaseId) /\ Len(ls) = p /\ NoDuplicates(ls)
      /\ \A i \in 1 .. p : ls[i] = mgr.nextLease + i - 1
      /\ Initial(ls, p) = fresh
  BY <1>0, <1>2, <1>3, FreshRecord
<1>. HIDE DEF m, ls, fresh
<1>6. CASE mgr' = Rollback(m, ls) /\ UNCHANGED << core, inflight, native, reads >>
  <2>1. Books(mgr', Outstanding, NoneSeen) /\ LeasesStay(mgr, mgr')
    <3>1. LET n == Rollback(m, ls)
          IN  Books(n, Outstanding, NoneSeen) /\ LeasesStay(mgr, n)
      BY <1>0, <1>2, <1>3, <1>4, RollbackStep DEF ls
    <3>. QED  BY <1>6, <3>1
  <2>2. Fewer(core, core')
    BY <1>0, <1>6, Unmoved DEF TicketsOut
  <2>. QED  BY <1>3, <1>6, <2>1, <2>2, RecordsKept
<1>7. CASE /\ p = Len(ks)
           /\ core' = Submit(core, s) /\ mgr' = m
           /\ inflight' = [inflight EXCEPT ![t] = ls]
           /\ native' = native \cup {t}
           /\ reads' = [reads EXCEPT ![t] =
                          {<< ks[i], mgr.gen[ks[i]] >> : i \in 1 .. Len(ks)}]
  <2>1. t \in Ticket /\ t \in Nat /\ t \notin native
    BY <1>0, <1>3, <1>t, CoreConstants DEF TicketsOut, CoreLike, Ticket
  <2>2. /\ CoreLike(core') /\ core'.nextTicket = t + 1
        /\ Live(core') \subseteq Live(core) \cup {t}
    BY <1>0, <1>7, <1>t, <2>1, SubmitLive DEF TicketsOut
  <2>3. /\ inflight'[t] = ls
        /\ \A x \in Ticket : x # t => inflight'[x] = inflight[x]
        /\ reads'[t] = {<< ks[i], mgr.gen[ks[i]] >> : i \in 1 .. Len(ks)}
        /\ \A x \in Ticket : x # t => reads'[x] = reads[x]
    BY <1>0, <1>7, <2>1 DEF RecordsTyped
  <2>4. native \subseteq Ticket /\ \A x \in native : x # t
    BY <1>0, <2>1 DEF RecordsTyped
  <2>5. HeldBy(t)' = fresh /\ \A x \in native : HeldBy(x)' = HeldBy(x)
    <3>1. HeldBy(t)' = Initial(ls, p)
      BY <1>5, <2>3 DEF HeldBy, Initial
    <3>2. \A x \in native : HeldBy(x)' = HeldBy(x)
      BY <2>3, <2>4 DEF HeldBy
    <3>. QED  BY <1>5, <3>1, <3>2
  <2>6. Outstanding' = Outstanding \cup fresh
    <3>1. \A l : (\E x \in native' : l \in HeldBy(x)') <=>
                  (\E x \in native : l \in HeldBy(x)) \/ l \in fresh
      BY <1>7, <2>5
    <3>2. \A l : l \in Outstanding' <=>
                  l \in borrowed' \/ \E x \in native' : l \in HeldBy(x)'
      BY DEF Outstanding
    <3>3. \A l : l \in Outstanding <=>
                  l \in borrowed \/ \E x \in native : l \in HeldBy(x)
      BY DEF Outstanding
    <3>. QED  BY <1>3, <3>1, <3>2, <3>3
  <2>7. Books(mgr', Outstanding', NoneSeen)
    BY <1>4, <1>7, <2>6 DEF Taken, fresh
  <2>8. RecordsTyped'
    <3>1. ls # None
      <4>1. \A l \in LeaseId : l # NoGen
        BY ResidencyConstants DEF LeaseId, NoGen
      <4>2. Len(None) = 1 /\ None[1] = NoGen
        BY DEF None
      <4>3. ls = None => ls[1] \in LeaseId
        BY <1>5, <4>2
      <4>. QED  BY <4>1, <4>2, <4>3
    <3>2. native' \in SUBSET Ticket
      BY <1>7, <2>1, <2>4
    <3>3. inflight' \in [Ticket -> Seq(LeaseId) \cup {None}]
      BY <1>0, <1>5, <1>7 DEF RecordsTyped
    <3>4. ASSUME NEW x \in Ticket PROVE x \in native' <=> inflight'[x] # None
      BY <1>0, <1>7, <2>1, <2>3, <3>1 DEF RecordsTyped
    <3>. QED  BY <3>2, <3>3, <3>4 DEF RecordsTyped
  <2>9. fresh \cap Outstanding = {}
    <3>1. \A l \in fresh : ~ (l < mgr.nextLease)
      BY <1>0 DEF fresh, FreshLeases, Typed
    <3>. QED  BY <3>1, OutstandingGranted
  <2>10. RecordsApart'
    <3>1. borrowed \subseteq Outstanding /\ \A x \in native : HeldBy(x) \subseteq Outstanding
      BY DEF Outstanding
    <3>2. ASSUME NEW x \in native'
          PROVE  NoDuplicates(inflight'[x]) /\ HeldBy(x)' \cap borrowed' = {}
      <4>1. CASE x = t
        BY <1>3, <1>5, <2>3, <2>5, <2>9, <3>1, <4>1
      <4>2. CASE x \in native
        BY <1>0, <1>3, <2>3, <2>4, <2>5, <4>2 DEF RecordsApart
      <4>. QED  BY <1>7, <3>2, <4>1, <4>2
    <3>3. ASSUME NEW x \in native', NEW y \in native', x # y
          PROVE  HeldBy(x)' \cap HeldBy(y)' = {}
      <4>1. CASE x = t
        <5>1. y \in native
          BY <1>7, <3>3, <4>1
        <5>. QED  BY <2>5, <2>9, <3>1, <4>1, <5>1
      <4>2. CASE y = t
        <5>1. x \in native
          BY <1>7, <3>3, <4>2
        <5>. QED  BY <2>5, <2>9, <3>1, <4>2, <5>1
      <4>3. CASE x # t /\ y # t
        <5>1. x \in native /\ y \in native
          BY <1>7, <3>3, <4>3
        <5>. QED  BY <1>0, <2>5, <3>3, <5>1 DEF RecordsApart
      <4>. QED  BY <4>1, <4>2, <4>3
    <3>. QED  BY <3>2, <3>3 DEF RecordsApart
  <2>11. ReadsLeased'
    <3>. SUFFICES ASSUME NEW x \in native', NEW r \in reads'[x]
                  PROVE  \E l \in HeldBy(x)' : r = << mgr'.leaseKey[l], mgr'.leaseGen[l] >>
      BY DEF ReadsLeased
    <3>1. CASE x = t
      <4>1. PICK i \in 1 .. p : r = << ks[i], mgr.gen[ks[i]] >>
        BY <1>7, <2>3, <3>1
      <4>2. /\ mgr'.leaseKey[mgr.nextLease + i - 1] = ks[i]
            /\ mgr'.leaseGen[mgr.nextLease + i - 1] = mgr.gen[ks[i]]
        BY <1>4, <1>7 DEF Taken
      <4>3. ls[i] = mgr.nextLease + i - 1 /\ ls[i] \in Initial(ls, p)
        BY <1>5 DEF Initial
      <4>. QED  BY <1>5, <2>5, <3>1, <4>1, <4>2, <4>3
    <3>2. CASE x \in native
      <4>1. r \in reads[x]
        BY <2>3, <2>4, <3>2
      <4>2. PICK l \in HeldBy(x) : r = << mgr.leaseKey[l], mgr.leaseGen[l] >>
        BY <1>0, <3>2, <4>1 DEF ReadsLeased
      <4>3. l \in LeaseId /\ l < mgr.nextLease
        BY <3>2, <4>2, OutstandingGranted
      <4>4. mgr'.leaseKey[l] = mgr.leaseKey[l] /\ mgr'.leaseGen[l] = mgr.leaseGen[l]
        BY <1>4, <1>7, <4>3 DEF Taken, LeasesStay
      <4>. QED  BY <2>5, <3>2, <4>2, <4>4
    <3>. QED  BY <1>7, <3>1, <3>2
  <2>12. TicketsOut'
    <3>1. Live(core)' = Live(core')
      BY DEF Live
    <3>2. Live(core') \subseteq native'
      BY <1>0, <1>7, <2>2 DEF TicketsOut
    <3>3. \A x \in native' : x < core'.nextTicket
      BY <1>0, <1>7, <1>t, <2>1, <2>2, <2>4 DEF TicketsOut, Ticket
    <3>4. CoreLike(core)'
      BY <2>2 DEF CoreLike
    <3>. QED  BY <3>1, <3>2, <3>3, <3>4 DEF TicketsOut
  <2>13. (reads \in [Ticket -> SUBSET (Key \X (Nat \cup {NoGen}))])'
    <3>1. \A i \in 1 .. Len(ks) : ks[i] \in Key /\ mgr.gen[ks[i]] \in Nat \cup {NoGen}
      BY <1>0, <1>1 DEF Typed
    <3>2. {<< ks[i], mgr.gen[ks[i]] >> : i \in 1 .. Len(ks)}
            \in SUBSET (Key \X (Nat \cup {NoGen}))
      BY <3>1
    <3>. QED  BY <1>0, <1>7, <3>2
  <2>. QED  BY <2>7, <2>8, <2>10, <2>11, <2>12, <2>13 DEF AccelInv, Books, NoneSeen
<1>. QED  BY <1>3, <1>6, <1>7

\* Accel::complete: a ticket that is out gives its whole record back; any other
\* report changes nothing.
LEMMA CompletionStep ==
  ASSUME AccelInv, NEW t \in Ticket, NEW ok \in BOOLEAN, Completion(t, ok)
  PROVE  AccelInv'
<1>0. /\ Books(mgr, Outstanding, NoneSeen) /\ Typed(mgr)
      /\ RecordsTyped /\ RecordsApart /\ ReadsLeased /\ TicketsOut
      /\ reads \in [Ticket -> SUBSET (Key \X (Nat \cup {NoGen}))]
  BY DEF AccelInv, Books
<1>. DEFINE ls == IF inflight[t] = None THEN << >> ELSE inflight[t]
            n == Retired(mgr, ls)
<1>1. /\ native' = native \ {t} /\ mgr' = Releases(mgr, ls)[n]
      /\ inflight' = [inflight EXCEPT ![t] = None]
      /\ core' = IF n = Len(ls) THEN Complete(core, t, ok).core ELSE core
      /\ reads' = reads /\ borrowed' = borrowed
  BY DEF Completion
<1>2. /\ Fewer(core, Complete(core, t, ok).core)
      /\ t \notin Live(Complete(core, t, ok).core)
  BY <1>0, CompleteFewer DEF TicketsOut
<1>3. CASE inflight[t] = None
  <2>1. ls = << >> /\ t \notin native
    BY <1>0, <1>3 DEF RecordsTyped
  <2>2. /\ ls \in Seq(LeaseId) /\ NoDuplicates(ls)
        /\ Len(ls) = 0 /\ \A i \in 1 .. Len(ls) : ls[i] \in Outstanding
    <3>1. << >> \in Seq(LeaseId) /\ Len(<< >>) = 0
      OBVIOUS
    <3>. HIDE DEF ls
    <3>2. ls \in Seq(LeaseId) /\ Len(ls) = 0
      BY ONLY <2>1, <3>1
    <3>3. \A i \in 1 .. Len(ls) : FALSE
      BY ONLY <3>2
    <3>. QED  BY ONLY <3>2, <3>3 DEF NoDuplicates
  <2>. HIDE DEF ls
  <2>3. n = 0
    BY <1>0, <2>2, AllRetired
  <2>4. mgr' = mgr /\ core' = Complete(core, t, ok).core
    <3>1. Releases(mgr, ls)[0] = mgr
      BY <2>2, ReleasesRecur
    <3>. HIDE DEF n
    <3>. QED  BY <1>1, <2>2, <2>3, <3>1
  <2>5. native' = native /\ inflight' = inflight
    BY <1>0, <1>1, <1>3, <2>1 DEF RecordsTyped
  <2>6. LeasesStay(mgr, mgr') /\ Books(mgr', Outstanding, NoneSeen)
    BY <1>0, <2>4 DEF LeasesStay
  <2>. QED  BY <1>1, <1>2, <2>4, <2>5, <2>6, RecordsKept
<1>4. CASE inflight[t] # None
  <2>1. t \in native /\ ls = inflight[t] /\ ls \in Seq(LeaseId) /\ Len(ls) \in Nat
    BY <1>0, <1>4 DEF RecordsTyped
  <2>2. NoDuplicates(ls) /\ HeldBy(t) = Initial(ls, Len(ls))
    BY <1>0, <2>1 DEF RecordsApart, HeldBy, Initial
  <2>3. \A i \in 1 .. Len(ls) : ls[i] \in Outstanding
    BY <2>1, <2>2, OutstandingGranted DEF Initial
  <2>. HIDE DEF ls
  <2>4. n = Len(ls)
    BY <1>0, <2>1, <2>2, <2>3, AllRetired
  <2>. HIDE DEF n
  <2>5. mgr' = Releases(mgr, ls)[Len(ls)] /\ core' = Complete(core, t, ok).core
    BY <1>1, <2>4
  <2>6. GivenBack(mgr, Outstanding, NoneSeen, HeldBy(t), mgr')
    <3>1. Len(ls) \in 0 .. Len(ls)
      BY <2>1
    <3>. QED  BY <1>0, <2>1, <2>2, <2>5, <3>1, ReleasesStep
  <2>7. /\ \A x \in native' : x \in native /\ x # t /\ x \in Ticket
        /\ inflight'[t] = None
        /\ \A x \in Ticket : x # t => inflight'[x] = inflight[x]
    BY <1>0, <1>1 DEF RecordsTyped
  <2>8. \A x \in native' : HeldBy(x)' = HeldBy(x)
    BY <2>7 DEF HeldBy
  <2>9. \A x \in native' : HeldBy(x) \cap HeldBy(t) = {}
    BY <1>0, <2>1, <2>7 DEF RecordsApart
  <2>10. Outstanding' = Outstanding \ HeldBy(t)
    <3>1. \A l : l \in Outstanding' <=>
                  l \in borrowed \/ \E x \in native' : l \in HeldBy(x)
      <4>1. \A l : l \in Outstanding' <=>
                    l \in borrowed' \/ \E x \in native' : l \in HeldBy(x)'
        BY DEF Outstanding
      <4>. QED  BY <1>1, <2>8, <4>1
    <3>2. \A l : l \in Outstanding <=>
                  l \in borrowed \/ \E x \in native : l \in HeldBy(x)
      BY DEF Outstanding
    <3>3. borrowed \cap HeldBy(t) = {}
      BY <1>0, <2>1 DEF RecordsApart
    <3>4. \A x \in native : x = t \/ x \in native'
      BY <1>1
    <3>. QED  BY <2>7, <2>9, <3>1, <3>2, <3>3, <3>4
  <2>11. Books(mgr', Outstanding', NoneSeen)
    BY <2>6, <2>10 DEF GivenBack
  <2>12. RecordsTyped'
    <3>1. native' \in SUBSET Ticket
      BY <2>7
    <3>2. inflight' \in [Ticket -> Seq(LeaseId) \cup {None}]
      BY <1>0, <1>1 DEF RecordsTyped
    <3>3. \A x \in Ticket : x \in native' <=> inflight'[x] # None
      BY <1>0, <1>1, <2>7 DEF RecordsTyped
    <3>. QED  BY <3>1, <3>2, <3>3 DEF RecordsTyped
  <2>13. RecordsApart'
    <3>1. \A x \in native' : NoDuplicates(inflight'[x]) /\ HeldBy(x)' \cap borrowed' = {}
      BY <1>0, <1>1, <2>7, <2>8 DEF RecordsApart
    <3>2. \A x, y \in native' : x # y => HeldBy(x)' \cap HeldBy(y)' = {}
      BY <1>0, <2>7, <2>8 DEF RecordsApart
    <3>. QED  BY <3>1, <3>2 DEF RecordsApart
  <2>14. ReadsLeased'
    <3>. SUFFICES ASSUME NEW x \in native', NEW r \in reads'[x]
                  PROVE  \E l \in HeldBy(x)' : r = << mgr'.leaseKey[l], mgr'.leaseGen[l] >>
      BY DEF ReadsLeased
    <3>1. PICK l \in HeldBy(x) : r = << mgr.leaseKey[l], mgr.leaseGen[l] >>
      BY <1>0, <1>1, <2>7 DEF ReadsLeased
    <3>2. l \in LeaseId /\ l \notin HeldBy(t)
      BY <2>7, <2>9, <3>1, OutstandingGranted
    <3>3. mgr'.leaseKey[l] = mgr.leaseKey[l] /\ mgr'.leaseGen[l] = mgr.leaseGen[l]
      BY <2>6, <3>2 DEF GivenBack
    <3>. QED  BY <2>8, <3>1, <3>3
  <2>15. TicketsOut'
    <3>1. Live(core)' = Live(core') /\ Fewer(core, core') /\ t \notin Live(core')
      BY <1>2, <2>5 DEF Live
    <3>2. Live(core') \subseteq native' /\ \A x \in native' : x < core'.nextTicket
      BY <1>0, <1>1, <3>1 DEF TicketsOut, Fewer
    <3>3. CoreLike(core)'
      BY <3>1 DEF Fewer, CoreLike
    <3>. QED  BY <3>1, <3>2, <3>3 DEF TicketsOut
  <2>16. (reads \in [Ticket -> SUBSET (Key \X (Nat \cup {NoGen}))])'
    BY <1>0, <1>1
  <2>. QED  BY <2>11, <2>12, <2>13, <2>14, <2>15, <2>16 DEF AccelInv, Books, NoneSeen
<1>. QED  BY <1>3, <1>4

\* A load hands leases to its waiters.
LEMMA EndLoadStep ==
  ASSUME AccelInv, NEW l \in LoadId, NEW ok \in BOOLEAN, EndLoad(l, ok)
  PROVE  AccelInv'
<1>0. /\ Books(mgr, Outstanding, NoneSeen) /\ Typed(mgr)
      /\ RecordsTyped /\ RecordsApart /\ ReadsLeased /\ TicketsOut
      /\ reads \in [Ticket -> SUBSET (Key \X (Nat \cup {NoGen}))]
  BY DEF AccelInv, Books
<1>. DEFINE w == IF Accepted(mgr, l) THEN mgr.waiters[mgr.loads[l]] ELSE {}
            g == IF ok THEN FreshLeases(mgr, Cardinality(w)) ELSE {}
<1>1. /\ g \subseteq LeaseId /\ mgr' = CompleteLoad(mgr, l, ok)
      /\ borrowed' = borrowed \cup g
      /\ UNCHANGED << core, inflight, native, reads >>
  BY DEF EndLoad
<1>2. Books(mgr', Outstanding \cup g, NoneSeen)
  <2>. DEFINE n == CompleteLoad(mgr, l, ok)
              z == IF ok /\ Accepted(mgr, l)
                   THEN [NoneSeen EXCEPT ![mgr.loads[l]] = n.gen[mgr.loads[l]]]
                   ELSE NoneSeen
  <2>1. w = (IF Accepted(mgr, l) THEN mgr.waiters[mgr.loads[l]] ELSE {})
        /\ g = (IF ok THEN FreshLeases(mgr, Cardinality(w)) ELSE {})
    OBVIOUS
  <2>. HIDE DEF w, g
  <2>2. Books(n, Outstanding \cup g, z)
    BY <1>0, <1>1, <2>1, CompleteStep
  <2>. HIDE DEF n, z
  <2>3. Books(n, Outstanding \cup g, NoneSeen)
    BY <2>2, SeenForgotten
  <2>. QED  BY <1>1, <2>3 DEF n
<1>3. LeasesStay(mgr, mgr')
  BY <1>0, <1>1, CompleteStay
<1>4. \A x \in g : ~ (x < mgr.nextLease)
  <2>1. mgr.nextLease \in Nat
    BY <1>0 DEF Typed
  <2>. HIDE DEF w
  <2>. QED  BY <2>1 DEF FreshLeases
<1>. HIDE DEF g
<1>5. g \cap Outstanding = {}
  BY <1>4, OutstandingGranted
<1>6. \A t : HeldBy(t)' = HeldBy(t)
  BY <1>1 DEF HeldBy
<1>7. Outstanding' = Outstanding \cup g
  <2>1. \A x : x \in Outstanding' <=>
                x \in borrowed' \/ \E t \in native' : x \in HeldBy(t)'
    BY DEF Outstanding
  <2>2. \A x : x \in Outstanding <=>
                x \in borrowed \/ \E t \in native : x \in HeldBy(t)
    BY DEF Outstanding
  <2>. QED  BY <1>1, <1>6, <2>1, <2>2
<1>8. RecordsTyped' /\ TicketsOut'
  BY <1>0, <1>1 DEF RecordsTyped, TicketsOut, CoreLike, Live
<1>9. RecordsApart'
  <2>1. \A t \in native : HeldBy(t) \cap g = {}
    BY <1>5, OutstandingGranted
  <2>2. \A t \in native' : NoDuplicates(inflight'[t]) /\ HeldBy(t)' \cap borrowed' = {}
    BY <1>0, <1>1, <1>6, <2>1 DEF RecordsApart
  <2>3. \A t, x \in native' : t # x => HeldBy(t)' \cap HeldBy(x)' = {}
    BY <1>0, <1>1, <1>6 DEF RecordsApart
  <2>. QED  BY <2>2, <2>3 DEF RecordsApart
<1>10. ReadsLeased'
  <2>. SUFFICES ASSUME NEW t \in native, NEW r \in reads[t]
                PROVE  \E x \in HeldBy(t) : r = << mgr'.leaseKey[x], mgr'.leaseGen[x] >>
    BY <1>1, <1>6 DEF ReadsLeased
  <2>1. PICK x \in HeldBy(t) : r = << mgr.leaseKey[x], mgr.leaseGen[x] >>
    BY <1>0 DEF ReadsLeased
  <2>2. x \in LeaseId /\ x < mgr.nextLease
    BY <2>1, OutstandingGranted
  <2>. QED  BY <1>3, <2>1, <2>2 DEF LeasesStay
<1>. QED  BY <1>0, <1>1, <1>2, <1>7, <1>8, <1>9, <1>10 DEF AccelInv, Books, NoneSeen

\* A waiter gives its lease back.
LEMMA GiveBackStep ==
  ASSUME AccelInv, NEW l \in LeaseId, GiveBack(l)
  PROVE  AccelInv'
<1>0. /\ Books(mgr, Outstanding, NoneSeen) /\ Typed(mgr)
      /\ RecordsTyped /\ RecordsApart /\ ReadsLeased /\ TicketsOut
      /\ reads \in [Ticket -> SUBSET (Key \X (Nat \cup {NoGen}))]
  BY DEF AccelInv, Books
<1>1. /\ l \in borrowed /\ mgr' = Release(mgr, l) /\ borrowed' = borrowed \ {l}
      /\ UNCHANGED << core, inflight, native, reads >>
  BY DEF GiveBack
<1>2. Books(mgr', Outstanding \ {l}, NoneSeen)
  BY <1>0, <1>1, ReleaseStep
<1>3. \A x \in LeaseId : x # l => mgr'.leaseKey[x] = mgr.leaseKey[x]
                                 /\ mgr'.leaseGen[x] = mgr.leaseGen[x]
  BY <1>0, <1>1, ReleaseFrame
<1>4. \A t : HeldBy(t)' = HeldBy(t)
  BY <1>1 DEF HeldBy
<1>5. \A t \in native : l \notin HeldBy(t)
  BY <1>0, <1>1 DEF RecordsApart
<1>6. Outstanding' = Outstanding \ {l}
  <2>1. \A x : x \in Outstanding' <=>
                x \in borrowed' \/ \E t \in native' : x \in HeldBy(t)'
    BY DEF Outstanding
  <2>2. \A x : x \in Outstanding <=>
                x \in borrowed \/ \E t \in native : x \in HeldBy(t)
    BY DEF Outstanding
  <2>. QED  BY <1>1, <1>4, <1>5, <2>1, <2>2
<1>7. RecordsTyped' /\ TicketsOut'
  BY <1>0, <1>1 DEF RecordsTyped, TicketsOut, CoreLike, Live
<1>8. RecordsApart'
  <2>1. \A t \in native' : NoDuplicates(inflight'[t]) /\ HeldBy(t)' \cap borrowed' = {}
    BY <1>0, <1>1, <1>4 DEF RecordsApart
  <2>2. \A t, x \in native' : t # x => HeldBy(t)' \cap HeldBy(x)' = {}
    BY <1>0, <1>1, <1>4 DEF RecordsApart
  <2>. QED  BY <2>1, <2>2 DEF RecordsApart
<1>9. ReadsLeased'
  <2>. SUFFICES ASSUME NEW t \in native, NEW r \in reads[t]
                PROVE  \E x \in HeldBy(t) : r = << mgr'.leaseKey[x], mgr'.leaseGen[x] >>
    BY <1>1, <1>4 DEF ReadsLeased
  <2>1. PICK x \in HeldBy(t) : r = << mgr.leaseKey[x], mgr.leaseGen[x] >>
    BY <1>0 DEF ReadsLeased
  <2>2. x \in LeaseId /\ x # l
    BY <1>5, <2>1, OutstandingGranted
  <2>. QED  BY <1>3, <2>1, <2>2
<1>. QED  BY <1>0, <1>1, <1>2, <1>6, <1>7, <1>8, <1>9 DEF AccelInv, Books, NoneSeen

-----------------------------------------------------------------------------
\* Every step of the contract keeps the records and the books in agreement.
LEMMA AccelStep == AccelInv /\ [AccelNext]_accelVars => AccelInv'
<1>. SUFFICES ASSUME AccelInv, [AccelNext]_accelVars PROVE AccelInv'
  OBVIOUS
<1>0. /\ Books(mgr, Outstanding, NoneSeen) /\ Typed(mgr) /\ Fields(mgr)
      /\ CoreLike(core)
  BY TypedFields DEF AccelInv, Books, TicketsOut
<1>1. /\ Fewer(core, core)
      /\ LeasesStay(mgr, mgr)
  BY <1>0, Unmoved DEF LeasesStay
<1>2. CASE NewSession
  <2>1. core' = CreateSession(core) /\ mgr' = mgr
        /\ UNCHANGED << inflight, native, reads, borrowed >>
    BY <1>2 DEF NewSession
  <2>. QED  BY <1>0, <1>1, <2>1, CreateFewer, RecordsKept
<1>3. ASSUME NEW s \in SessionId, Lifecycle(s) PROVE AccelInv'
  <2>1. /\ core' \in {Block(core, s).core, Wake(core, s).core, Cancel(core, s).core,
                      Finish(core, s).core, Fail(core, s).core}
        /\ mgr' = mgr /\ UNCHANGED << inflight, native, reads, borrowed >>
    BY <1>3 DEF Lifecycle
  <2>2. Fewer(core, core')
    BY <1>0, <2>1, LifecycleFewer
  <2>. QED  BY <1>0, <1>1, <2>1, <2>2, RecordsKept
<1>4. ASSUME NEW k \in Key, NEW w \in Waiter, BeginLoad(k, w) PROVE AccelInv'
  <2>1. /\ mgr.st[k] \in {"Absent", "Failed"} /\ mgr.nextLoad < MaxLoads
        /\ mgr' = BeginStart(mgr, k, 1, w)
        /\ core' = core /\ UNCHANGED << inflight, native, reads, borrowed >>
    BY <1>4 DEF BeginLoad
  <2>2. Books(mgr', Outstanding, NoneSeen)
    BY <1>0, <2>1, BeginStep
  <2>3. LeasesStay(mgr, mgr')
    BY <1>0, <2>1, StartSame, SameLeasesStay
  <2>. QED  BY <1>1, <2>1, <2>2, <2>3, RecordsKept
<1>5. ASSUME NEW l \in LoadId, NEW w \in Waiter, Withdraw(l, w) PROVE AccelInv'
  <2>. DEFINE k == mgr.loads[l]
              W == mgr.waiters[k] \ {w}
  <2>1. /\ k # NoKey /\ mgr' = CancelWaiter(mgr, l, w)
        /\ core' = core /\ UNCHANGED << inflight, native, reads, borrowed >>
    BY <1>5 DEF Withdraw
  <2>2. k \in Key
    BY <1>0, <2>1 DEF Typed
  <2>3. mgr' = [mgr EXCEPT !.waiters[k] = W] /\ W \in SUBSET Waiter
    BY <1>0, <2>1, <2>2 DEF CancelWaiter, Typed
  <2>. HIDE DEF k, W
  <2>4. Books(mgr', Outstanding, NoneSeen)
    BY <1>0, <2>2, <2>3, WaitersStep
  <2>5. LeasesStay(mgr, mgr')
    BY <1>0, <2>3 DEF Fields, LeasesStay
  <2>. QED  BY <1>1, <2>1, <2>4, <2>5, RecordsKept
<1>6. ASSUME NEW p \in Pool, EvictOne(p) PROVE AccelInv'
  <2>. DEFINE V == LruVictim(mgr, p)
  <2>1. /\ mgr' = Evict(mgr, p, V)
        /\ core' = core /\ UNCHANGED << inflight, native, reads, borrowed >>
    BY <1>6 DEF EvictOne
  <2>2. V \in SUBSET Evictable(mgr, p)
    BY DEF LruVictim
  <2>. HIDE DEF V
  <2>3. Books(mgr', Outstanding, NoneSeen)
    BY <1>0, <2>1, <2>2, EvictStep
  <2>4. LeasesStay(mgr, mgr')
    BY <1>0, <2>1, EvictSame, SameLeasesStay
  <2>. QED  BY <1>1, <2>1, <2>3, <2>4, RecordsKept
<1>7. CASE UNCHANGED accelVars
  <2>1. mgr' = mgr /\ core' = core /\ UNCHANGED << inflight, native, reads, borrowed >>
    BY <1>7 DEF accelVars
  <2>. QED  BY <1>0, <1>1, <2>1, RecordsKept
<1>. QED  BY <1>2, <1>3, <1>4, <1>5, <1>6, <1>7, SubmissionStep, CompletionStep,
             EndLoadStep, GiveBackStep DEF AccelNext

\* The records of the tickets that are out, the leases they and the waiters hold
\* and the manager's books agree after every sequence of submissions, reports,
\* lifecycle calls, loads and evictions (accel.rs as a whole).
THEOREM AccelInductive == AccelSpec => []AccelInv
BY AccelInitially, AccelStep, PTL DEF AccelSpec

\* Accel::submit and Accel::complete: what a ticket reads stays resident, on the
\* generation it was submitted with, until its native completion is processed;
\* no cancellation, failure, load or eviction in between can take it away.
THEOREM ReadsPinned == AccelSpec => []BackendReadsPinned
<1>1. AccelInv => BackendReadsPinned
  <2>. SUFFICES ASSUME AccelInv, NEW t \in native, NEW r \in reads[t]
                PROVE  mgr.st[r[1]] = "Resident" /\ mgr.gen[r[1]] = r[2]
    BY DEF BackendReadsPinned
  <2>1. Typed(mgr) /\ Leased(mgr, Outstanding)
    BY DEF AccelInv, Books
  <2>2. PICK l \in HeldBy(t) : r = << mgr.leaseKey[l], mgr.leaseGen[l] >>
    BY DEF AccelInv, ReadsLeased
  <2>3. l \in Outstanding
    BY <2>2, OutstandingGranted
  <2>4. r[1] = mgr.leaseKey[l] /\ r[2] = mgr.leaseGen[l]
    BY <2>2
  <2>. QED  BY <2>1, <2>3, <2>4 DEF Leased
<1>. QED  BY <1>1, AccelInductive, PTL

\* Accel::submit's rollback and Accel::complete: a pin is a lease that a record
\* or a waiter holds, records live as long as the native work, and the core has
\* no live ticket without one, whatever was rejected, cancelled or repeated.
THEOREM PinsCounted == AccelSpec => []PinsAccounted
<1>1. AccelInv => PinsAccounted
  <2>. SUFFICES ASSUME AccelInv PROVE PinsAccounted
    OBVIOUS
  <2>1. Typed(mgr) /\ Leased(mgr, Outstanding) /\ RecordsTyped /\ TicketsOut
    BY DEF AccelInv, Books
  <2>2. Recorded = native
    BY <2>1 DEF Recorded, RecordsTyped
  <2>3. \A t \in Ticket : core.inflight[t] # NoOwner => t \in native
    BY <2>1 DEF TicketsOut, Live
  <2>4. ASSUME NEW k \in Key
        PROVE  mgr.pins[k] =
                 Cardinality({l \in LeaseId :
                   /\ mgr.leaseKey[l] = k
                   /\ l \in borrowed \/ \E t \in Recorded :
                        \E i \in 1 .. Len(inflight[t]) : inflight[t][i] = l})
    <3>1. \A l : l \in Outstanding <=>
            l \in borrowed \/ \E t \in Recorded :
                        \E i \in 1 .. Len(inflight[t]) : inflight[t][i] = l
      BY <2>2 DEF Outstanding, HeldBy
    <3>2. {l \in LeaseId :
                   /\ mgr.leaseKey[l] = k
                   /\ l \in borrowed \/ \E t \in Recorded :
                        \E i \in 1 .. Len(inflight[t]) : inflight[t][i] = l}
            = Leases(mgr, Outstanding, k)
      BY <3>1, OutstandingGranted DEF Leases
    <3>. QED  BY <2>1, <3>2 DEF Leased
  <2>. QED  BY <2>2, <2>3, <2>4 DEF PinsAccounted
<1>. QED  BY <1>1, AccelInductive, PTL
=============================================================================
