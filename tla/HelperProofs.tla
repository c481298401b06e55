---------------------------- MODULE HelperProofs ----------------------------
(***************************************************************************)
(* Lemmas on the helpers: what removal and insertion leave in a queue of   *)
(* distinct elements, and how a sum changes with its members.              *)
(***************************************************************************)
EXTENDS Queues, Tally, FiniteSetTheorems, WellFoundedInduction, TLAPS

\* A non-empty set of natural numbers has a least element.
LEMMA LeastNatural ==
  ASSUME NEW T, T \subseteq Nat, T # {}
  PROVE  \E x \in T : \A y \in T : x <= y
<1>1. IsWellFoundedOn(OpToRel(<, Nat), Nat)
  BY NatLessThanWellFounded
<1>2. PICK x \in T : \A y \in T : ~ (<< y, x >> \in OpToRel(<, Nat))
  BY <1>1, WFMin
<1>3. \A y \in T : ~ (y < x)
  BY <1>2 DEF OpToRel
<1> QED
  BY <1>3

\* Retain closes the queue up over the one position that holds the session.
LEMMA RetainAt ==
  ASSUME NEW S, NEW q \in Seq(S), NEW s, NEW p \in 1 .. Len(q),
         q[p] = s, NoDuplicates(q)
  PROVE  Retain(q, s) =
           [k \in 1 .. (Len(q) - 1) |-> IF k < p THEN q[k] ELSE q[k + 1]]
<1> DEFINE at == {i \in 1 .. Len(q) : q[i] = s}
<1>1. at = {p}
  BY DEF NoDuplicates
<1>2. (CHOOSE i \in at : TRUE) = p
  BY <1>1
<1> QED
  BY <1>1, <1>2 DEF Retain

\* What retain leaves in the queue: everything but the session, no duplicates.
LEMMA RetainQueue ==
  ASSUME NEW S, NEW q \in Seq(S), NEW s, NoDuplicates(q)
  PROVE  /\ Retain(q, s) \in Seq(S)
         /\ NoDuplicates(Retain(q, s))
         /\ \A x \in S :
              Queued(Retain(q, s), x) <=> x # s /\ Queued(q, x)
<1>1. CASE \A i \in 1 .. Len(q) : q[i] # s
  <2>1. Retain(q, s) = q
    BY <1>1 DEF Retain
  <2> QED
    BY <1>1, <2>1 DEF Queued
<1>2. CASE \E i \in 1 .. Len(q) : q[i] = s
  <2>1. PICK p \in 1 .. Len(q) : q[p] = s
    BY <1>2
  <2> DEFINE r == [k \in 1 .. (Len(q) - 1) |-> IF k < p THEN q[k] ELSE q[k + 1]]
  <2>2. Retain(q, s) = r
    BY <2>1, RetainAt
  <2>3. Len(q) \in Nat /\ \A i \in 1 .. Len(q) : q[i] \in S
    OBVIOUS
  <2>4. \A k \in 1 .. (Len(q) - 1) : r[k] \in S
    BY <2>3
  <2>5. r \in Seq(S) /\ Len(r) = Len(q) - 1
    BY <2>1, <2>3, <2>4
  <2> HIDE DEF r
  <2>6. \A k \in 1 .. Len(r) : r[k] = IF k < p THEN q[k] ELSE q[k + 1]
    BY <2>5 DEF r
  <2>7. NoDuplicates(r)
    BY <2>1, <2>3, <2>5, <2>6 DEF NoDuplicates
  <2>8. ASSUME NEW x \in S, Queued(r, x) PROVE x # s /\ Queued(q, x)
    BY <2>1, <2>3, <2>5, <2>6, <2>8 DEF Queued, NoDuplicates
  <2>9. ASSUME NEW x \in S, x # s, Queued(q, x) PROVE Queued(r, x)
    <3>1. PICK i \in 1 .. Len(q) : q[i] = x
      BY <2>9 DEF Queued
    <3>2. CASE i < p
      BY <3>1, <3>2, <2>1, <2>3, <2>5, <2>6 DEF Queued
    <3>3. CASE i > p
      <4>1. i - 1 \in 1 .. Len(r) /\ r[i - 1] = q[i]
        BY <3>3, <2>1, <2>3, <2>5, <2>6
      <4> QED
        BY <4>1, <3>1 DEF Queued
    <3> QED
      BY <3>1, <3>2, <3>3, <2>1, <2>3, <2>9
  <2> QED
    BY <2>2, <2>5, <2>7, <2>8, <2>9
<1> QED
  BY <1>1, <1>2

\* push_back of a session that is not queued.
LEMMA AppendQueue ==
  ASSUME NEW S, NEW q \in Seq(S), NEW s \in S,
         NoDuplicates(q), ~ Queued(q, s)
  PROVE  /\ Append(q, s) \in Seq(S)
         /\ NoDuplicates(Append(q, s))
         /\ \A x \in S :
              Queued(Append(q, s), x) <=> x = s \/ Queued(q, x)
<1> DEFINE r == Append(q, s)
<1>1. /\ r \in Seq(S)
      /\ Len(q) \in Nat
      /\ Len(r) = Len(q) + 1
      /\ \A k \in 1 .. Len(q) : r[k] = q[k]
      /\ r[Len(q) + 1] = s
  OBVIOUS
<1> HIDE DEF r
<1>2. NoDuplicates(r)
  BY <1>1 DEF NoDuplicates, Queued
<1>3. ASSUME NEW x \in S PROVE Queued(r, x) <=> x = s \/ Queued(q, x)
  BY <1>1 DEF Queued
<1> QED
  BY <1>1, <1>2, <1>3 DEF r
-----------------------------------------------------------------------------
(* Positions kept of a queue.                                              *)

UpTo(K, i) == {j \in K : j <= i}

\* Of the kept positions of a sequence, each has its own place among them.
LEMMA PlaceOf ==
  ASSUME NEW m \in Nat, NEW K, K \subseteq 1 .. m,
         NEW n \in 1 .. Cardinality(K)
  PROVE  \E i \in K : Cardinality(UpTo(K, i)) = n
<1>. USE DEF UpTo
<1>. DEFINE upTo(i) == UpTo(K, i)
            T == {i \in 1 .. m : n <= Cardinality(upTo(i))}
<1>1. \A i \in 0 .. m : IsFiniteSet(upTo(i)) /\ Cardinality(upTo(i)) \in Nat
  <2>1. IsFiniteSet(1 .. m)
    BY FS_Interval
  <2>2. \A i \in 0 .. m : upTo(i) \in SUBSET (1 .. m)
    OBVIOUS
  <2>. QED  BY <2>1, <2>2, FS_Subset, FS_CardinalityType
<1>2. upTo(m) = K /\ upTo(0) = {}
  <2>1. \A j \in K : j <= m /\ ~ (j <= 0)
    OBVIOUS
  <2>. QED  BY <2>1
<1>3. Cardinality(K) \in Nat /\ m \in 1 .. m
  <2>1. Cardinality(K) \in Nat
    BY <1>1, <1>2
  <2>2. m # 0
    <3>1. ASSUME m = 0 PROVE FALSE
      <4>1. K = {}
        BY <3>1
      <4>. QED  BY <4>1, FS_EmptySet
    <3>. QED  BY <3>1
  <2>. QED  BY <2>1, <2>2
<1>4. T \subseteq Nat /\ T # {}
  <2>1. n <= Cardinality(upTo(m))
    BY <1>2, <1>3
  <2>. HIDE DEF upTo
  <2>2. m \in T
    BY <1>3, <2>1
  <2>3. T \subseteq Nat
    OBVIOUS
  <2>. QED  BY <2>2, <2>3
<1>5. PICK i \in T : \A y \in T : i <= y
  BY <1>4, LeastNatural
<1>6. i \in 1 .. m /\ n <= Cardinality(upTo(i))
  BY <1>5
<1>7. Cardinality(upTo(i - 1)) < n
  <2>1. CASE i = 1
    BY <1>2, <2>1, FS_EmptySet
  <2>2. CASE i # 1
    <3>1. i - 1 \in 1 .. m /\ i - 1 \notin T
      <4>1. i - 1 \in 1 .. m /\ ~ (i <= i - 1)
        BY <1>6, <2>2
      <4>. HIDE DEF T
      <4>. QED  BY <1>5, <4>1
    <3>2. ~ (n <= Cardinality(upTo(i - 1)))
      BY <3>1
    <3>3. i - 1 \in 0 .. m
      BY <3>1
    <3>. HIDE DEF upTo
    <3>4. Cardinality(upTo(i - 1)) \in Nat
      BY <1>1, <3>3
    <3>. QED  BY <3>2, <3>4
  <2>. QED  BY <2>1, <2>2
<1>8. /\ i \in K => upTo(i) = upTo(i - 1) \cup {i}
      /\ i \notin K => upTo(i) = upTo(i - 1)
  <2>1. \A j \in K : j \in Nat /\ (j <= i <=> j <= i - 1 \/ j = i)
    BY <1>6
  <2>2. \A j : j \in upTo(i) <=> j \in K /\ (j <= i - 1 \/ j = i)
    BY <2>1
  <2>. QED  BY <2>2
<1>9. i - 1 \in 0 .. m /\ i \in 0 .. m
  BY <1>6
<1>10. i \in K
  BY <1>6, <1>7, <1>8, <1>9, <1>1
<1>11. Cardinality(upTo(i)) <= Cardinality(upTo(i - 1)) + 1
  <2>. HIDE DEF upTo
  <2>1. IsFiniteSet(upTo(i - 1)) /\ Cardinality(upTo(i - 1)) \in Nat
    BY <1>1, <1>9
  <2>2. upTo(i) = upTo(i - 1) \cup {i}
    BY <1>8, <1>10
  <2>3. CASE i \in upTo(i - 1)
    BY <2>1, <2>2, <2>3, FS_AddElement
  <2>4. CASE i \notin upTo(i - 1)
    BY <2>1, <2>2, <2>4, FS_AddElement
  <2>. QED  BY <2>3, <2>4
<1>12. Cardinality(upTo(i)) = n
  <2>. HIDE DEF upTo
  <2>1. Cardinality(upTo(i)) \in Nat /\ Cardinality(upTo(i - 1)) \in Nat
    BY <1>1, <1>9
  <2>. QED  BY <1>6, <1>7, <1>11, <2>1
<1>. QED  BY <1>10, <1>12

\* Two kept positions have different places.
LEMMA PlaceUnique ==
  ASSUME NEW m \in Nat, NEW K, K \subseteq 1 .. m, NEW i \in K
  PROVE  /\ Cardinality(UpTo(K, i)) \in 1 .. Cardinality(K)
         /\ \A j \in K : Cardinality(UpTo(K, i)) = Cardinality(UpTo(K, j)) => i = j
<1>1. IsFiniteSet(K) /\ Cardinality(K) \in Nat
  <2>1. IsFiniteSet(1 .. m) /\ K \in SUBSET (1 .. m)
    BY FS_Interval
  <2>. QED  BY <2>1, FS_Subset, FS_CardinalityType
<1>2. \A j \in K : UpTo(K, j) \in SUBSET K /\ j \in UpTo(K, j)
  BY DEF UpTo
<1>3. \A j \in K : /\ IsFiniteSet(UpTo(K, j))
                   /\ Cardinality(UpTo(K, j)) \in Nat
                   /\ Cardinality(UpTo(K, j)) <= Cardinality(K)
  BY <1>1, <1>2, FS_Subset, FS_CardinalityType
<1>4. Cardinality(UpTo(K, i)) # 0
  BY <1>2, <1>3, FS_EmptySet
<1>5. ASSUME NEW a \in K, NEW b \in K, a < b
      PROVE  Cardinality(UpTo(K, a)) # Cardinality(UpTo(K, b))
  <2>1. UpTo(K, a) \in SUBSET UpTo(K, b) /\ b \notin UpTo(K, a)
    <3>1. \A j \in K : j \in Int
      OBVIOUS
    <3>2. \A j \in K : j <= a => j <= b
      BY <1>5, <3>1
    <3>3. ~ (b <= a)
      BY <1>5, <3>1
    <3>. QED  BY <3>2, <3>3 DEF UpTo
  <2>2. b \in UpTo(K, b) /\ IsFiniteSet(UpTo(K, b))
    BY <1>2, <1>3
  <2>3. UpTo(K, a) # UpTo(K, b)
    BY <2>1, <2>2
  <2>. QED  BY <2>1, <2>2, <2>3, FS_Subset
<1>6. ASSUME NEW j \in K, Cardinality(UpTo(K, i)) = Cardinality(UpTo(K, j))
      PROVE  i = j
  <2>1. i < j \/ j < i \/ i = j
    OBVIOUS
  <2>. QED  BY <1>5, <1>6, <2>1
<1>. QED  BY <1>1, <1>3, <1>4, <1>6

\* What is kept of a queue without duplicates has none either, and is all of it
\* but what was to go.
LEMMA WithoutQueue ==
  ASSUME NEW T, NEW order \in Seq(T), NoDuplicates(order), NEW V
  PROVE  /\ Without(order, V) \in Seq(T)
         /\ NoDuplicates(Without(order, V))
         /\ Len(Without(order, V)) <= Len(order)
         /\ \A k : Queued(Without(order, V), k) <=> Queued(order, k) /\ k \notin V
<1>. DEFINE K == {i \in 1 .. Len(order) : order[i] \notin V}
            place(i) == Cardinality(UpTo(K, i))
            at(n) == CHOOSE i \in K : place(i) = n
            r == Without(order, V)
<1>1. r = [n \in 1 .. Cardinality(K) |-> order[at(n)]]
  BY DEF Without, UpTo
<1>2. order \in Seq(T) /\ Len(order) \in Nat
  OBVIOUS
<1>3. Cardinality(K) \in Nat /\ Cardinality(K) <= Len(order)
  <2>1. K \in SUBSET (1 .. Len(order)) /\ IsFiniteSet(1 .. Len(order))
    BY <1>2, FS_Interval
  <2>2. Cardinality(1 .. Len(order)) = Len(order)
    BY <1>2, FS_Interval
  <2>. QED  BY <2>1, <2>2, FS_Subset, FS_CardinalityType
<1>4. ASSUME NEW n \in 1 .. Cardinality(K)
      PROVE  at(n) \in K /\ place(at(n)) = n
  <2>1. \E i \in K : Cardinality(UpTo(K, i)) = n
    <3>. DEFINE m == Len(order)
    <3>1. K \subseteq 1 .. m /\ m \in Nat
      BY <1>2
    <3>. HIDE DEF K, m
    <3>. QED  BY <3>1, PlaceOf
  <2>. HIDE DEF K
  <2>. QED  BY <2>1
<1>5. \A n \in 1 .. Cardinality(K) :
        /\ at(n) \in 1 .. Len(order)
        /\ order[at(n)] \notin V
        /\ place(at(n)) = n
  BY <1>4
<1>10. ASSUME NEW i \in K
       PROVE  place(i) \in 1 .. Cardinality(K) /\ at(place(i)) = i
  <2>. DEFINE m == Len(order)
  <2>1. K \subseteq 1 .. m /\ m \in Nat
    BY <1>2
  <2>2. /\ place(i) \in 1 .. Cardinality(K)
        /\ \A j \in K : place(i) = place(j) => i = j
    <3>. HIDE DEF K, m
    <3>. QED  BY <2>1, PlaceUnique
  <2>3. at(place(i)) \in K /\ place(at(place(i))) = place(i)
    <3>. HIDE DEF at, place, K
    <3>. QED  BY <1>4, <2>2
  <2>. HIDE DEF at, place, K
  <2>. QED  BY <2>2, <2>3
<1>11. \A i \in 1 .. Len(order) :
         order[i] \notin V =>
           place(i) \in 1 .. Cardinality(K) /\ at(place(i)) = i
  BY <1>10
<1>. HIDE DEF K, at, place
<1>6. \A n \in 1 .. Cardinality(K) : order[at(n)] \in T
  BY <1>2, <1>5
<1>. HIDE DEF r
<1>7. /\ r \in Seq(T) /\ Len(r) = Cardinality(K)
      /\ \A n \in 1 .. Len(r) : r[n] = order[at(n)]
  BY <1>1, <1>3, <1>6
<1>8. NoDuplicates(r)
  <2>. SUFFICES ASSUME NEW i \in 1 .. Len(r), NEW j \in 1 .. Len(r), r[i] = r[j]
                PROVE  i = j
    BY DEF NoDuplicates
  <2>1. i \in 1 .. Cardinality(K) /\ j \in 1 .. Cardinality(K)
    BY <1>7
  <2>2. order[at(i)] = order[at(j)]
    BY <1>7
  <2>3. at(i) = at(j)
    BY <1>5, <2>1, <2>2 DEF NoDuplicates
  <2>. QED  BY <1>5, <2>1, <2>3
<1>9. ASSUME NEW k
      PROVE  Queued(r, k) <=> Queued(order, k) /\ k \notin V
  <2>1. ASSUME Queued(r, k) PROVE Queued(order, k) /\ k \notin V
    BY <1>5, <1>7, <2>1 DEF Queued
  <2>2. ASSUME Queued(order, k), k \notin V PROVE Queued(r, k)
    <3>1. PICK i \in 1 .. Len(order) : order[i] = k
      BY <2>2 DEF Queued
    <3>2. place(i) \in 1 .. Len(r) /\ r[place(i)] = k
      BY <1>7, <1>11, <2>2, <3>1
    <3>. QED  BY <3>2 DEF Queued
  <2>. QED  BY <2>1, <2>2
<1>. QED  BY <1>3, <1>7, <1>8, <1>9 DEF r
-----------------------------------------------------------------------------
\* The bytes of one entry are a finite set of cells, as many as its size.
LEMMA ColumnSize ==
  ASSUME NEW K, NEW b \in [K -> Nat], NEW k \in K
  PROVE  IsFiniteSet(Column(b, k)) /\ Cardinality(Column(b, k)) = b[k]
<1>1. IsFiniteSet({k}) /\ Cardinality({k}) = 1
  BY FS_Singleton
<1>2. b[k] \in Nat
  OBVIOUS
<1>3. IsFiniteSet(1 .. b[k]) /\ Cardinality(1 .. b[k]) = b[k]
  BY <1>2, FS_Interval
<1>4. /\ IsFiniteSet({k} \X (1 .. b[k]))
      /\ Cardinality({k} \X (1 .. b[k])) = 1 * b[k]
  BY <1>1, <1>3, FS_Product
<1>. QED  BY <1>2, <1>4 DEF Column

LEMMA ColumnsFinite ==
  ASSUME NEW K, IsFiniteSet(K), NEW b \in [K -> Nat], NEW S \in SUBSET K
  PROVE  IsFiniteSet(Columns(b, S))
<1>. DEFINE T == {Column(b, k) : k \in S}
            f == [k \in S |-> Column(b, k)]
<1>1. IsFiniteSet(S)
  BY FS_Subset
<1>2. f \in Surjection(S, T)
  BY DEF Surjection
<1>3. IsFiniteSet(T)
  BY <1>1, <1>2, FS_Surjection
<1>4. \A C \in T : IsFiniteSet(C)
  BY ColumnSize
<1>5. IsFiniteSet(UNION T)
  <2>. HIDE DEF T
  <2>. QED  BY <1>3, <1>4, FS_UNION
<1>. QED  BY <1>5 DEF Columns

LEMMA TallyType ==
  ASSUME NEW K, IsFiniteSet(K), NEW b \in [K -> Nat], NEW S \in SUBSET K
  PROVE  Tally(b, S) \in Nat
BY ColumnsFinite, FS_CardinalityType DEF Tally

LEMMA TallyNone ==
  ASSUME NEW b
  PROVE  Tally(b, {}) = 0
<1>1. Columns(b, {}) = {}
  BY DEF Columns
<1>. QED  BY <1>1, FS_EmptySet DEF Tally

LEMMA TallyOne ==
  ASSUME NEW K, IsFiniteSet(K), NEW b \in [K -> Nat], NEW k \in K
  PROVE  Tally(b, {k}) = b[k]
<1>1. Columns(b, {k}) = Column(b, k)
  BY DEF Columns
<1>. QED  BY <1>1, ColumnSize DEF Tally

LEMMA TallyJoin ==
  ASSUME NEW K, IsFiniteSet(K), NEW b \in [K -> Nat], NEW S \in SUBSET K, NEW T \in SUBSET K,
         S \cap T = {}
  PROVE  Tally(b, S \cup T) = Tally(b, S) + Tally(b, T)
<1>1. Columns(b, S \cup T) = Columns(b, S) \cup Columns(b, T)
  BY DEF Columns
<1>2. Columns(b, S) \cap Columns(b, T) = {}
  BY DEF Columns, Column
<1>3. IsFiniteSet(Columns(b, S)) /\ IsFiniteSet(Columns(b, T))
  BY ColumnsFinite
<1>4. Cardinality(Columns(b, S) \cup Columns(b, T)) =
        Cardinality(Columns(b, S)) + Cardinality(Columns(b, T))
          - Cardinality(Columns(b, S) \cap Columns(b, T))
  BY <1>3, FS_Union
<1>5. Tally(b, S) \in Nat /\ Tally(b, T) \in Nat
  BY TallyType
<1>6. Cardinality(Columns(b, S) \cap Columns(b, T)) = 0
  BY <1>2, FS_EmptySet
<1>7. Tally(b, S \cup T) = Tally(b, S) + Tally(b, T) - 0
  BY <1>1, <1>4, <1>6 DEF Tally
<1>. QED  BY <1>5, <1>7

LEMMA TallyWith ==
  ASSUME NEW K, IsFiniteSet(K), NEW b \in [K -> Nat], NEW S \in SUBSET K, NEW k \in K, k \notin S
  PROVE  Tally(b, S \cup {k}) = Tally(b, S) + b[k]
<1>1. {k} \in SUBSET K /\ S \cap {k} = {}
  OBVIOUS
<1>2. Tally(b, S \cup {k}) = Tally(b, S) + Tally(b, {k})
  BY <1>1, TallyJoin
<1>. QED  BY <1>2, TallyOne

LEMMA TallyWithout ==
  ASSUME NEW K, IsFiniteSet(K), NEW b \in [K -> Nat], NEW S \in SUBSET K, NEW k \in S
  PROVE  /\ Tally(b, S) = Tally(b, S \ {k}) + b[k]
         /\ Tally(b, S \ {k}) \in Nat /\ b[k] \in Nat
<1>. DEFINE R == S \ {k}
<1>1. R \in SUBSET K /\ k \in K /\ k \notin R /\ R \cup {k} = S
  OBVIOUS
<1>. HIDE DEF R
<1>2. Tally(b, R \cup {k}) = Tally(b, R) + b[k]
  BY <1>1, TallyWith
<1>3. Tally(b, R) \in Nat /\ b[k] \in Nat
  BY <1>1, TallyType
<1>. QED  BY <1>1, <1>2, <1>3 DEF R

\* Only the sizes of the entries of S count.
LEMMA TallyAgree ==
  ASSUME NEW b, NEW c, NEW S, \A k \in S : b[k] = c[k]
  PROVE  Tally(b, S) = Tally(c, S)
<1>1. \A k \in S : Column(b, k) = Column(c, k)
  BY DEF Column
<1>2. Columns(b, S) = Columns(c, S)
  BY <1>1 DEF Columns
<1>. QED  BY <1>2 DEF Tally

\* `to' carries the members of J to those of I, each with its value.
Renames(c, J, to, b, I) ==
  to \in Bijection(J, I) /\ \A j \in J : c[j] = b[to[j]]

\* A sum does not depend on what its members are called.
LEMMA TallyMove ==
  ASSUME NEW I, IsFiniteSet(I), NEW b \in [I -> Nat],
         NEW J, IsFiniteSet(J), NEW c \in [J -> Nat],
         NEW to, Renames(c, J, to, b, I)
  PROVE  Tally(c, J) = Tally(b, I)
<1>. DEFINE X == Columns(c, J)
            Y == Columns(b, I)
            f == [x \in X |-> << to[x[1]], x[2] >>]
<1>0. to \in Bijection(J, I) /\ \A j \in J : c[j] = b[to[j]]
  BY DEF Renames
<1>1. /\ to \in [J -> I]
      /\ \A j, k \in J : to[j] = to[k] => j = k
      /\ \A i \in I : \E j \in J : to[j] = i
  BY <1>0 DEF Bijection, Injection, Surjection, IsInjective
<1>2. \A x : x \in X <=> \E j \in J : x \in {j} \X (1 .. c[j])
  BY DEF Columns, Column
<1>3. \A y : y \in Y <=> \E i \in I : y \in {i} \X (1 .. b[i])
  BY DEF Columns, Column
<1>. HIDE DEF X, Y
<1>4. \A x \in X : f[x] \in Y
  <2>. SUFFICES ASSUME NEW x \in X PROVE f[x] \in Y
    OBVIOUS
  <2>1. PICK j \in J : x \in {j} \X (1 .. c[j])
    BY <1>2
  <2>2. f[x] = << to[j], x[2] >> /\ x[2] \in 1 .. b[to[j]] /\ to[j] \in I
    BY <1>0, <1>1, <2>1
  <2>. HIDE DEF f
  <2>. QED  BY <1>3, <2>2
<1>5. \A x, y \in X : f[x] = f[y] => x = y
  <2>. SUFFICES ASSUME NEW x \in X, NEW y \in X, f[x] = f[y] PROVE x = y
    OBVIOUS
  <2>1. PICK j \in J : x \in {j} \X (1 .. c[j])
    BY <1>2
  <2>2. PICK k \in J : y \in {k} \X (1 .. c[k])
    BY <1>2
  <2>3. to[j] = to[k] /\ x[2] = y[2]
    BY <2>1, <2>2
  <2>4. j = k
    BY <1>1, <2>3
  <2>. QED  BY <2>1, <2>2, <2>3, <2>4
<1>6. \A y \in Y : \E x \in X : f[x] = y
  <2>. SUFFICES ASSUME NEW y \in Y PROVE \E x \in X : f[x] = y
    OBVIOUS
  <2>1. PICK i \in I : y \in {i} \X (1 .. b[i])
    BY <1>3
  <2>2. PICK j \in J : to[j] = i
    BY <1>1
  <2>. DEFINE x == << j, y[2] >>
  <2>3. x \in X
    <3>1. x \in {j} \X (1 .. c[j])
      BY <1>0, <2>1, <2>2
    <3>. QED  BY <1>2, <3>1
  <2>4. f[x] = y
    BY <2>1, <2>2, <2>3
  <2>. QED  BY <2>3, <2>4
<1>7. f \in Bijection(X, Y)
  <2>1. f \in [X -> Y]
    BY <1>4
  <2>. HIDE DEF f
  <2>. QED  BY <1>5, <1>6, <2>1 DEF Bijection, Injection, Surjection, IsInjective
<1>8. IsFiniteSet(X)
  <2>1. J \in SUBSET J
    OBVIOUS
  <2>. QED  BY <2>1, ColumnsFinite DEF X
<1>9. ExistsBijection(X, Y)
  BY <1>7 DEF ExistsBijection
<1>10. Cardinality(Y) = Cardinality(X)
  BY <1>8, <1>9, FS_Bijection
<1>. QED  BY <1>10 DEF Tally, X, Y
=============================================================================
