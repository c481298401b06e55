----------------------------- MODULE ChatProofs -----------------------------
(***************************************************************************)
(* The worker of logan-chat and its two caches, for every vocabulary,      *)
(* prompt, context length, budget and number of faults.                    *)
(***************************************************************************)
EXTENDS ChatWorker, HelperProofs

(***************************************************************************)
(* Prefixes.                                                               *)
(***************************************************************************)
LEMMA FirstType ==
  ASSUME NEW S, NEW s \in Seq(S), NEW n \in 0 .. Len(s)
  PROVE  /\ First(n, s) \in Seq(S)
         /\ Len(First(n, s)) = n
         /\ \A i \in 1 .. n : First(n, s)[i] = s[i]
BY DEF First

LEMMA FirstNone ==
  ASSUME NEW S, NEW s \in Seq(S)
  PROVE  First(0, s) = << >>
BY DEF First

LEMMA FirstWhole ==
  ASSUME NEW S, NEW s \in Seq(S)
  PROVE  First(Len(s), s) = s
BY DEF First

\* What is consumed next extends what was consumed so far.
LEMMA FirstExtended ==
  ASSUME NEW S, NEW s \in Seq(S), NEW e \in 0 .. Len(s), NEW n \in 0 .. e
  PROVE  First(n, s) \o SubSeq(s, n + 1, e) = First(e, s)
BY DEF First

\* Text that is appended does not change a prefix.
LEMMA FirstOfJoined ==
  ASSUME NEW S, NEW s \in Seq(S), NEW t \in Seq(S), NEW n \in 0 .. Len(s)
  PROVE  First(n, s \o t) = First(n, s)
BY DEF First

LEMMA FirstOfAppended ==
  ASSUME NEW S, NEW s \in Seq(S), NEW x \in S, NEW n \in 0 .. Len(s)
  PROVE  First(n, Append(s, x)) = First(n, s)
BY DEF First

\* A prefix is the text cut at its length.
LEMMA PrefixIsFirst ==
  ASSUME NEW S, NEW s \in Seq(S), NEW k \in Seq(S), IsPrefix(k, s)
  PROVE  /\ Len(k) \in 0 .. Len(s)
         /\ k = First(Len(k), s)
         /\ k # s => Len(k) < Len(s)
<1>1. Len(k) \in Nat /\ Len(s) \in Nat /\ Len(k) <= Len(s)
      /\ SubSeq(k, 1, Len(k)) = SubSeq(s, 1, Len(k))
  BY DEF IsPrefix
<1>2. SubSeq(k, 1, Len(k)) = k
  OBVIOUS
<1>3. k = First(Len(k), s)
  BY <1>1, <1>2 DEF First
<1>4. Len(k) = Len(s) => k = s
  BY <1>3, FirstWhole
<1>. QED  BY <1>1, <1>3, <1>4
-----------------------------------------------------------------------------
(***************************************************************************)
(* The RAM cache.                                                          *)
(***************************************************************************)
Short == {s \in Text : Len(s) <= ContextLimit}

\* An entry that holds the state and the logits of its tokens.
Entry == {e \in [tokens : Short, state : Short, logits : Short, bytes : Nat] :
            e.state = e.tokens /\ e.logits = e.tokens}

Distinct(q) == \A i, j \in 1 .. Len(q) : q[i].tokens = q[j].tokens => i = j

Sizes(q) == [i \in DOMAIN q |-> q[i].bytes]

LEMMA SizesType ==
  ASSUME NEW q \in Seq(Entry)
  PROVE  /\ Sizes(q) \in [1 .. Len(q) -> Nat]
         /\ IsFiniteSet(1 .. Len(q))
         /\ SumBytes(q) = Tally(Sizes(q), 1 .. Len(q))
         /\ SumBytes(q) \in Nat
<1>1. DOMAIN q = 1 .. Len(q) /\ Len(q) \in Nat
  OBVIOUS
<1>2. \A i \in 1 .. Len(q) : q[i] \in Entry
  OBVIOUS
<1>3. Sizes(q) \in [1 .. Len(q) -> Nat]
  BY <1>1, <1>2 DEF Sizes, Entry
<1>4. IsFiniteSet(1 .. Len(q))
  BY <1>1, FS_Interval
<1>5. SumBytes(q) = Tally(Sizes(q), 1 .. Len(q))
  BY <1>1 DEF SumBytes, Sizes
<1>6. 1 .. Len(q) \in SUBSET (1 .. Len(q))
  OBVIOUS
<1>7. Tally(Sizes(q), 1 .. Len(q)) \in Nat
  BY <1>3, <1>4, <1>6, TallyType
<1>. QED  BY <1>3, <1>4, <1>5, <1>7

\* q with its i-th entry made the last.
MoveLast(q, i) == Append(RemoveAt(q, i), q[i])

\* Where the entries of MoveLast(q, i) come from.
Source(q, i) ==
  [j \in 1 .. Len(q) |-> IF j < i THEN j ELSE IF j < Len(q) THEN j + 1 ELSE i]

LEMMA MoveLastIs ==
  ASSUME NEW S, NEW q \in Seq(S), NEW i \in 1 .. Len(q)
  PROVE  /\ MoveLast(q, i) \in Seq(S)
         /\ Len(MoveLast(q, i)) = Len(q)
         /\ \A j \in 1 .. Len(q) : MoveLast(q, i)[j] = q[Source(q, i)[j]]
<1>. DEFINE a == SubSeq(q, 1, i - 1)
            b == SubSeq(q, i + 1, Len(q))
            n == Len(q)
<1>1. n \in Nat /\ i \in Nat
  OBVIOUS
<1>2. a \in Seq(S) /\ Len(a) = i - 1 /\ \A j \in 1 .. i - 1 : a[j] = q[j]
  BY <1>1
<1>3. b \in Seq(S) /\ Len(b) = n - i /\ \A j \in 1 .. n - i : b[j] = q[i + j]
  BY <1>1
<1>. HIDE DEF a, b
<1>. DEFINE c == a \o b
<1>4. /\ c \in Seq(S) /\ Len(c) = n - 1
      /\ \A j \in 1 .. n - 1 : c[j] = IF j < i THEN q[j] ELSE q[j + 1]
  <2>1. c \in Seq(S) /\ Len(c) = n - 1
    <3>1. a \in Seq(S) /\ b \in Seq(S)
      BY <1>2, <1>3
    <3>3. c \in Seq(S) /\ Len(c) = Len(a) + Len(b)
      BY <3>1
    <3>2. (i - 1) + (n - i) = n - 1
      BY <1>1
    <3>. QED  BY <1>2, <1>3, <3>2, <3>3
  <2>2. ASSUME NEW j \in 1 .. n - 1
        PROVE  c[j] = IF j < i THEN q[j] ELSE q[j + 1]
    <3>1. CASE j < i
      BY <1>1, <1>2, <1>3, <2>2, <3>1
    <3>2. CASE ~ (j < i)
      <4>1. j - (i - 1) \in 1 .. n - i
        BY <1>1, <2>2, <3>2
      <4>2. c[j] = b[j - (i - 1)]
        BY <1>1, <1>2, <1>3, <2>2, <3>2
      <4>3. b[j - (i - 1)] = q[i + (j - (i - 1))]
        BY <1>3, <4>1
      <4>4. i + (j - (i - 1)) = j + 1
        BY <1>1
      <4>. QED  BY <3>2, <4>2, <4>3, <4>4
    <3>. QED  BY <3>1, <3>2
  <2>. QED  BY <2>1, <2>2
<1>5. MoveLast(q, i) = Append(c, q[i])
  BY DEF MoveLast, RemoveAt, a, b
<1>. HIDE DEF c
<1>6. /\ Append(c, q[i]) \in Seq(S) /\ Len(Append(c, q[i])) = n
      /\ \A j \in 1 .. n : Append(c, q[i])[j] = IF j < n THEN c[j] ELSE q[i]
  BY <1>1, <1>4
<1>7. ASSUME NEW j \in 1 .. n
      PROVE  Append(c, q[i])[j] = q[Source(q, i)[j]]
  <2>1. Source(q, i)[j] = IF j < i THEN j ELSE IF j < n THEN j + 1 ELSE i
    BY DEF Source
  <2>2. CASE j < n
    BY <1>1, <1>4, <1>6, <2>1, <2>2
  <2>3. CASE ~ (j < n)
    BY <1>1, <1>6, <2>1, <2>3
  <2>. QED  BY <2>2, <2>3
<1>. QED  BY <1>5, <1>6, <1>7

LEMMA SourceBijection ==
  ASSUME NEW S, NEW q \in Seq(S), NEW i \in 1 .. Len(q)
  PROVE  Source(q, i) \in Bijection(1 .. Len(q), 1 .. Len(q))
<1>. DEFINE n == Len(q)
            f == Source(q, i)
<1>1. n \in Nat /\ i \in Nat /\ i <= n
  OBVIOUS
<1>2. /\ f \in [1 .. n -> 1 .. n]
      /\ \A j \in 1 .. n : f[j] = IF j < i THEN j ELSE IF j < n THEN j + 1 ELSE i
  BY <1>1 DEF Source
<1>. HIDE DEF f, n
<1>3. ASSUME NEW j \in 1 .. n, NEW k \in 1 .. n, f[j] = f[k]
      PROVE  j = k
  <2>1. f[j] = IF j < i THEN j ELSE IF j < n THEN j + 1 ELSE i
    BY <1>2
  <2>2. f[k] = IF k < i THEN k ELSE IF k < n THEN k + 1 ELSE i
    BY <1>2
  <2>. DEFINE x == f[j]
              y == f[k]
  <2>3. x = y
    BY <1>3
  <2>. HIDE DEF x, y
  <2>. QED  BY <1>1, <2>1, <2>2, <2>3 DEF x, y
<1>4. ASSUME NEW t \in 1 .. n
      PROVE  \E j \in 1 .. n : f[j] = t
  <2>1. CASE t < i
    BY <1>1, <1>2, <2>1
  <2>2. CASE t = i
    <3>1. n \in 1 .. n /\ f[n] = i
      BY <1>1, <1>2
    <3>. QED  BY <2>2, <3>1
  <2>3. CASE t > i
    <3>1. t - 1 \in 1 .. n /\ f[t - 1] = t
      BY <1>1, <1>2, <2>3
    <3>. QED  BY <3>1
  <2>. QED  BY <1>1, <2>1, <2>2, <2>3
<1>. QED  BY <1>2, <1>3, <1>4 DEF Bijection, Injection, Surjection, IsInjective, f, n

\* Touching an entry keeps what the cache holds and what it weighs.
LEMMA Touched ==
  ASSUME NEW q \in Seq(Entry), NEW i \in 1 .. Len(q)
  PROVE  /\ MoveLast(q, i) \in Seq(Entry)
         /\ SumBytes(MoveLast(q, i)) = SumBytes(q)
         /\ Distinct(q) => Distinct(MoveLast(q, i))
<1>. DEFINE r == MoveLast(q, i)
            f == Source(q, i)
            I == 1 .. Len(q)
<1>1. r \in Seq(Entry) /\ Len(r) = Len(q) /\ \A j \in I : r[j] = q[f[j]]
  BY MoveLastIs
<1>2. f \in Bijection(I, I)
  BY SourceBijection
<1>3. f \in [I -> I] /\ \A j, k \in I : f[j] = f[k] => j = k
  BY <1>2 DEF Bijection, Injection, IsInjective
<1>. HIDE DEF r, f
<1>4. Distinct(q) => Distinct(r)
  BY SMTT(30), <1>1, <1>3 DEF Distinct
<1>5. /\ Sizes(q) \in [I -> Nat] /\ IsFiniteSet(I) /\ SumBytes(q) = Tally(Sizes(q), I)
  BY SizesType
<1>6. /\ Sizes(r) \in [I -> Nat] /\ SumBytes(r) = Tally(Sizes(r), I)
  <2>1. r \in Seq(Entry)
    BY <1>1
  <2>2. /\ Sizes(r) \in [1 .. Len(r) -> Nat]
        /\ SumBytes(r) = Tally(Sizes(r), 1 .. Len(r))
    BY <2>1, SizesType
  <2>. QED  BY <1>1, <2>2
<1>7. \A j \in I : Sizes(r)[j] = Sizes(q)[f[j]]
  BY SMTT(30), <1>1, <1>3 DEF Sizes
<1>. HIDE DEF I
<1>8. Tally(Sizes(r), I) = Tally(Sizes(q), I)
  <2>. DEFINE b == Sizes(q)
              c == Sizes(r)
  <2>1. IsFiniteSet(I) /\ b \in [I -> Nat] /\ c \in [I -> Nat]
    BY <1>5, <1>6
  <2>2. \A j \in I : c[j] = b[f[j]]
    BY <1>7
  <2>. HIDE DEF b, c
  <2>3. Tally(c, I) = Tally(b, I)
    <3>1. Renames(c, I, f, b, I)
      BY <1>2, <2>2 DEF Renames
    <3>. QED  BY <2>1, <3>1, TallyMove
  <2>. QED  BY <2>3 DEF b, c
<1>. QED  BY <1>1, <1>4, <1>5, <1>6, <1>8 DEF r

\* A new entry adds its size.
LEMMA Appended ==
  ASSUME NEW q \in Seq(Entry), NEW e \in Entry
  PROVE  /\ Append(q, e) \in Seq(Entry)
         /\ SumBytes(Append(q, e)) = SumBytes(q) + e.bytes
<1>. DEFINE r == Append(q, e)
            n == Len(q)
            I == 1 .. n
            J == 1 .. n + 1
<1>1. /\ r \in Seq(Entry) /\ Len(r) = n + 1 /\ n \in Nat
      /\ r[n + 1] = e /\ \A j \in I : r[j] = q[j]
  OBVIOUS
<1>. HIDE DEF r
<1>2. SumBytes(q) = Tally(Sizes(q), I)
  BY SizesType
<1>3. /\ Sizes(r) \in [J -> Nat] /\ IsFiniteSet(J) /\ SumBytes(r) = Tally(Sizes(r), J)
  BY <1>1, SizesType
<1>4. Sizes(r)[n + 1] = e.bytes /\ \A j \in I : Sizes(r)[j] = Sizes(q)[j]
  BY <1>1 DEF Sizes
<1>5. I \in SUBSET J /\ n + 1 \in J /\ n + 1 \notin I /\ I \cup {n + 1} = J
  BY <1>1
<1>. HIDE DEF I, J, n
<1>6. Tally(Sizes(r), I \cup {n + 1}) = Tally(Sizes(r), I) + Sizes(r)[n + 1]
  BY <1>3, <1>5, TallyWith
<1>7. Tally(Sizes(r), I) = Tally(Sizes(q), I)
  BY <1>4, TallyAgree
<1>. QED  BY <1>1, <1>2, <1>3, <1>4, <1>5, <1>6, <1>7 DEF r

\* Dropping the k oldest entries takes their sizes away.
LEMMA Dropped ==
  ASSUME NEW q \in Seq(Entry), NEW k \in 0 .. Len(q)
  PROVE  LET r == SubSeq(q, k + 1, Len(q))
         IN  /\ r \in Seq(Entry)
             /\ Len(r) = Len(q) - k
             /\ \A j \in 1 .. Len(q) - k : r[j] = q[k + j]
             /\ SumBytes(q) = SumBytes(First(k, q)) + SumBytes(r)
             /\ SumBytes(First(k, q)) \in Nat /\ SumBytes(r) \in Nat
<1>. DEFINE r == SubSeq(q, k + 1, Len(q))
            p == First(k, q)
            n == Len(q)
            A == 1 .. k
            B == (k + 1) .. n
            C == 1 .. n - k
            b == [i \in B |-> Sizes(q)[i]]
            f == [j \in C |-> k + j]
<1>1. n \in Nat /\ k \in Nat /\ k <= n
  OBVIOUS
<1>2. p \in Seq(Entry) /\ Len(p) = k /\ \A i \in 1 .. k : p[i] = q[i]
  BY FirstType
<1>3. r \in Seq(Entry) /\ Len(r) = n - k /\ \A j \in C : r[j] = q[k + j]
  BY <1>1
<1>. HIDE DEF p, r
<1>4. /\ Sizes(q) \in [1 .. n -> Nat] /\ IsFiniteSet(1 .. n)
      /\ SumBytes(q) = Tally(Sizes(q), 1 .. n)
  BY SizesType
<1>5. SumBytes(p) = Tally(Sizes(p), A) /\ SumBytes(p) \in Nat
  BY <1>2, SizesType
<1>6. /\ Sizes(r) \in [C -> Nat] /\ IsFiniteSet(C)
      /\ SumBytes(r) = Tally(Sizes(r), C) /\ SumBytes(r) \in Nat
  BY <1>3, SizesType
<1>7. A \in SUBSET (1 .. n) /\ B \in SUBSET (1 .. n) /\ A \cap B = {} /\ A \cup B = 1 .. n
  BY <1>1
<1>8. Tally(Sizes(q), A \cup B) = Tally(Sizes(q), A) + Tally(Sizes(q), B)
  <2>. HIDE DEF A, B
  <2>. QED  BY <1>4, <1>7, TallyJoin
<1>9. Tally(Sizes(q), A) = Tally(Sizes(p), A)
  <2>1. \A i \in A : Sizes(q)[i] = Sizes(p)[i]
    BY <1>1, <1>2 DEF Sizes
  <2>. HIDE DEF A
  <2>. QED  BY <2>1, TallyAgree
<1>10. Tally(Sizes(q), B) = Tally(b, B)
  <2>1. \A i \in B : Sizes(q)[i] = b[i]
    OBVIOUS
  <2>. HIDE DEF B, b
  <2>. QED  BY <2>1, TallyAgree
<1>11. Tally(Sizes(r), C) = Tally(b, B)
  <2>1. b \in [B -> Nat] /\ IsFiniteSet(B)
    <3>1. b \in [B -> Nat]
      BY <1>4, <1>7
    <3>2. IsFiniteSet(B)
      BY <1>1, FS_Interval
    <3>. QED  BY <3>1, <3>2
  <2>2. f \in Bijection(C, B)
    <3>1. f \in [C -> B] /\ \A i, j \in C : f[i] = f[j] => i = j
      BY <1>1
    <3>2. ASSUME NEW t \in B
          PROVE  \E j \in C : f[j] = t
      <4>1. t - k \in C /\ f[t - k] = t
        BY <1>1
      <4>. QED  BY <4>1
    <3>. HIDE DEF f, C, B
    <3>. QED  BY <3>1, <3>2 DEF Bijection, Injection, Surjection, IsInjective
  <2>3. \A j \in C : Sizes(r)[j] = b[f[j]]
    <3>1. ASSUME NEW j \in C
          PROVE  Sizes(r)[j] = b[f[j]]
      <4>1. f[j] = k + j /\ k + j \in B /\ k + j \in 1 .. n
        BY <1>1
      <4>2. b[k + j] = q[k + j].bytes
        BY <4>1 DEF Sizes
      <4>3. Sizes(r)[j] = r[j].bytes
        BY <1>3 DEF Sizes
      <4>. QED  BY <1>3, <4>1, <4>2, <4>3
    <3>. QED  BY <3>1
  <2>. HIDE DEF b, f, B, C
  <2>4. Renames(Sizes(r), C, f, b, B)
    BY <2>2, <2>3 DEF Renames
  <2>. QED  BY <1>6, <2>1, <2>4, TallyMove
<1>12. SumBytes(q) = SumBytes(p) + SumBytes(r)
  BY <1>4, <1>5, <1>6, <1>7, <1>8, <1>9, <1>10, <1>11
<1>. QED  BY <1>3, <1>5, <1>6, <1>12 DEF p, r
-----------------------------------------------------------------------------
(***************************************************************************)
(* The invariant.                                                          *)
(***************************************************************************)
\* The RAM cache: exact entries of distinct prefixes, counted and in budget.
Cached(q, b) ==
  /\ q \in Seq(Entry)
  /\ Distinct(q)
  /\ b = SumBytes(q)
  /\ b <= HotBudget

File == {f \in [key : Text, state : Text \cup {Torn}, whole : BOOLEAN] :
           f.whole => f.state = f.key}

\* The SSD cache, with the file that is being written.
Stored(d, t) == d \subseteq File /\ t \in File \cup {Nothing}

\* Where the model is in the history.
Located ==
  /\ tokens \in Text
  /\ consumed \in 0 .. Len(tokens) /\ consumed <= ContextLimit
  /\ pc # "recover" => live = First(consumed, tokens)
  /\ lastLogits # Nothing => lastLogits = First(consumed, tokens)

\* A prompt is being evaluated: something is left to consume, or the logits of
\* the whole prompt are there.
Busy == {"hot", "lookup", "restore", "recover", "prompt", "store", "publish"}

Asked ==
  /\ pc = "idle" => sysEnd = 0
  /\ pc \in Busy =>
       /\ tokens # << >>
       /\ kind \in {"turn", "prompt"}
       /\ kind = "prompt" => Len(tokens) < ContextLimit
       /\ sysEnd \in 0 .. Len(tokens)
       /\ consumed < Len(tokens) \/ lastLogits = tokens

\* The file that is about to be restored holds a strict prefix.
Chosen ==
  pc = "restore" =>
    /\ candidate \in Text
    /\ Len(candidate) < Len(tokens)
    /\ candidate = First(Len(candidate), tokens)

Generating ==
  /\ pc = "take" => consumed = Len(tokens) /\ lastLogits = tokens
  /\ pc = "decode" =>
       consumed = Len(tokens) /\ logits = tokens /\ lastLogits = Nothing

WorkerInv == Located /\ Asked /\ Chosen /\ Generating

ChatInv == WorkerInv /\ Cached(hot, hotBytes) /\ Stored(disk, tmp)
-----------------------------------------------------------------------------
(***************************************************************************)
(* The RAM cache.                                                          *)
(***************************************************************************)
LEMMA NothingCached == Cached(<< >>, 0)
<1>. DEFINE q == << >>
<1>1. q \in Seq(Entry) /\ Len(q) = 0
  OBVIOUS
<1>2. Distinct(q)
  BY <1>1 DEF Distinct
<1>. HIDE DEF q
<1>3. SumBytes(q) = Tally(Sizes(q), 1 .. Len(q))
  BY <1>1, SizesType
<1>4. 1 .. Len(q) = {}
  BY <1>1
<1>5. SumBytes(q) = 0
  BY <1>3, <1>4, TallyNone
<1>6. HotBudget \in Nat
  BY ChatAssumption
<1>7. Cached(q, 0)
  BY <1>1, <1>2, <1>5, <1>6 DEF Cached
<1>. QED  BY <1>7 DEF q

LEMMA TouchedCached ==
  ASSUME NEW q, NEW b, Cached(q, b), NEW i \in DOMAIN q
  PROVE  Cached(Append(RemoveAt(q, i), q[i]), b)
<1>1. q \in Seq(Entry) /\ Distinct(q) /\ b = SumBytes(q) /\ b <= HotBudget
  BY DEF Cached
<1>2. i \in 1 .. Len(q)
  BY <1>1
<1>3. /\ MoveLast(q, i) \in Seq(Entry)
      /\ SumBytes(MoveLast(q, i)) = SumBytes(q)
      /\ Distinct(MoveLast(q, i))
  BY <1>1, <1>2, Touched
<1>4. Cached(MoveLast(q, i), b)
  BY <1>1, <1>3 DEF Cached
<1>. QED  BY <1>4 DEF MoveLast

\* Room is made and the new entry becomes the most recently used one.
LEMMA InsertedCached ==
  ASSUME NEW q, NEW b, Cached(q, b), NEW k \in 0 .. Len(q), NEW e \in Entry,
         \A i \in DOMAIN q : q[i].tokens # e.tokens,
         b - SumBytes(First(k, q)) + e.bytes <= HotBudget
  PROVE  Cached(Append(SubSeq(q, k + 1, Len(q)), e),
                b - SumBytes(First(k, q)) + e.bytes)
<1>. DEFINE r == SubSeq(q, k + 1, Len(q))
            n == Len(q) - k
            a == Append(r, e)
            x == SumBytes(First(k, q))
<1>1. q \in Seq(Entry) /\ Distinct(q) /\ b = SumBytes(q)
  BY DEF Cached
<1>2. Len(q) \in Nat /\ k \in Nat /\ k <= Len(q) /\ n \in Nat
  BY <1>1
<1>3. /\ r \in Seq(Entry) /\ Len(r) = n
      /\ \A j \in 1 .. n : r[j] = q[k + j]
      /\ SumBytes(q) = x + SumBytes(r) /\ x \in Nat /\ SumBytes(r) \in Nat
  BY <1>1, Dropped
<1>. HIDE DEF r, x
<1>4. r \in Seq(Entry)
  BY <1>3
<1>5. a \in Seq(Entry) /\ SumBytes(a) = SumBytes(r) + e.bytes
  BY <1>4, Appended
<1>6. e.bytes \in Nat
  BY DEF Entry
<1>7. SumBytes(a) = b - x + e.bytes
  BY <1>1, <1>3, <1>5, <1>6
<1>8. /\ Len(a) = n + 1 /\ a[n + 1] = e
      /\ \A j \in 1 .. n : a[j] = q[k + j] /\ k + j \in 1 .. Len(q)
  <2>1. Len(a) = Len(r) + 1 /\ a[Len(r) + 1] = e /\ \A j \in 1 .. Len(r) : a[j] = r[j]
    BY <1>4
  <2>2. \A j \in 1 .. n : k + j \in 1 .. Len(q)
    BY <1>2
  <2>. QED  BY <1>3, <2>1, <2>2
<1>. HIDE DEF a
<1>9. ASSUME NEW i \in 1 .. n + 1, NEW j \in 1 .. n + 1, a[i].tokens = a[j].tokens
      PROVE  i = j
  <2>. HIDE DEF n
  <2>1. \A m \in 1 .. n : q[k + m].tokens # e.tokens
    BY <1>1, <1>8
  <2>2. CASE i \in 1 .. n /\ j \in 1 .. n
    <3>1. a[i] = q[k + i] /\ a[j] = q[k + j] /\ k + i \in 1 .. Len(q) /\ k + j \in 1 .. Len(q)
      BY <1>8, <2>2
    <3>2. q[k + i].tokens = q[k + j].tokens
      BY <1>9, <3>1
    <3>3. k + i = k + j
      BY <1>1, <3>1, <3>2 DEF Distinct
    <3>. QED  BY <1>2, <3>3
  <2>3. CASE i = n + 1 /\ j = n + 1
    BY <2>3
  <2>4. CASE i = n + 1 /\ j \in 1 .. n
    BY <1>8, <1>9, <2>1, <2>4
  <2>5. CASE i \in 1 .. n /\ j = n + 1
    BY <1>8, <1>9, <2>1, <2>5
  <2>. QED  BY <1>2, <2>2, <2>3, <2>4, <2>5
<1>10. Distinct(a)
  BY <1>8, <1>9 DEF Distinct
<1>11. b - x + e.bytes <= HotBudget
  BY DEF x
<1>12. Cached(a, b - x + e.bytes)
  BY <1>5, <1>7, <1>10, <1>11 DEF Cached
<1>. QED  BY <1>12 DEF a, r, x

\* insert of the state and logits of a prefix that fits into the context.
LEMMA HotInsertCached ==
  ASSUME Cached(hot, hotBytes), NEW key \in Short, NEW lg \in {key, Nothing},
         HotInsert(key, key, lg)
  PROVE  Cached(hot', hotBytes')
<1>. DEFINE known == {i \in DOMAIN hot : hot[i].tokens = key}
            size == Bytes[Len(key)]
            entry == [tokens |-> key, state |-> key, logits |-> lg, bytes |-> size]
            Fits(k) == hotBytes - SumBytes(First(k, hot)) + size <= HotBudget
<1>1. CASE UNCHANGED cache
  BY <1>1 DEF cache
<1>2. CASE /\ \E i \in known : hot' = Append(RemoveAt(hot, i), hot[i])
           /\ hotBytes' = hotBytes
  <2>1. PICK i \in DOMAIN hot : hot' = Append(RemoveAt(hot, i), hot[i])
    BY <1>2
  <2>2. Cached(Append(RemoveAt(hot, i), hot[i]), hotBytes)
    BY TouchedCached
  <2>. QED  BY <1>2, <2>1, <2>2
<1>3. CASE /\ lg # Nothing /\ known = {}
           /\ \E k \in 0 .. Len(hot) :
                /\ Fits(k)
                /\ hot' = Append(Newest(k), entry)
                /\ hotBytes' = hotBytes - SumBytes(First(k, hot)) + size
  <2>1. PICK k \in 0 .. Len(hot) :
          /\ Fits(k)
          /\ hot' = Append(Newest(k), entry)
          /\ hotBytes' = hotBytes - SumBytes(First(k, hot)) + size
    BY <1>3
  <2>2. Len(key) \in 0 .. ContextLimit
    BY ChatAssumption DEF Short, Text
  <2>3. size \in Nat
    BY <2>2, ChatAssumption
  <2>4. entry \in Entry /\ entry.tokens = key /\ entry.bytes = size
    BY <1>3, <2>3 DEF Entry
  <2>5. \A i \in DOMAIN hot : hot[i].tokens # key
    BY <1>3
  <2>. HIDE DEF entry, size
  <2>6. \A i \in DOMAIN hot : hot[i].tokens # entry.tokens
    BY <2>4, <2>5
  <2>7. hotBytes - SumBytes(First(k, hot)) + entry.bytes <= HotBudget
    BY <2>1, <2>4
  <2>8. Cached(Append(SubSeq(hot, k + 1, Len(hot)), entry),
               hotBytes - SumBytes(First(k, hot)) + entry.bytes)
    BY <2>4, <2>6, <2>7, InsertedCached
  <2>9. hot' = Append(SubSeq(hot, k + 1, Len(hot)), entry)
    BY <2>1 DEF Newest
  <2>10. hotBytes' = hotBytes - SumBytes(First(k, hot)) + entry.bytes
    BY <2>1, <2>4
  <2>. QED  BY <2>8, <2>9, <2>10
<1>. QED  BY <1>1, <1>2, <1>3 DEF HotInsert
-----------------------------------------------------------------------------
(***************************************************************************)
(* The worker.                                                             *)
(***************************************************************************)
\* The history t continues the history s.
Continues(s, t) ==
  /\ t \in Text
  /\ Len(s) <= Len(t)
  /\ \A n \in 0 .. Len(s) : First(n, t) = First(n, s)

LEMMA JoinedContinues ==
  ASSUME NEW s \in Text, NEW t \in Text
  PROVE  Continues(s, s \o t) /\ Len(s \o t) = Len(s) + Len(t)
<1>1. s \o t \in Text /\ Len(s \o t) = Len(s) + Len(t) /\ Len(s) <= Len(s \o t)
  BY DEF Text
<1>2. \A n \in 0 .. Len(s) : First(n, s \o t) = First(n, s)
  BY FirstOfJoined DEF Text
<1>. QED  BY <1>1, <1>2 DEF Continues

LEMMA AppendedContinues ==
  ASSUME NEW s \in Text, NEW x \in Token
  PROVE  Continues(s, Append(s, x))
<1>1. Append(s, x) \in Text /\ Len(s) <= Len(Append(s, x))
  BY DEF Text
<1>2. \A n \in 0 .. Len(s) : First(n, Append(s, x)) = First(n, s)
  BY FirstOfAppended DEF Text
<1>. QED  BY <1>1, <1>2 DEF Continues

LEMMA SameContinues ==
  ASSUME NEW s \in Text
  PROVE  Continues(s, s)
BY DEF Continues, Text

LEMMA ClosedContinues ==
  ASSUME NEW s \in Text
  PROVE  Continues(s, Closed(s))
<1>1. ImEnd \in Token
  BY ChatAssumption
<1>. QED  BY <1>1, AppendedContinues, SameContinues DEF Closed

LEMMA ContinuesTwice ==
  ASSUME NEW s \in Text, NEW t, NEW u, Continues(s, t), Continues(t, u)
  PROVE  Continues(s, u)
<1>1. Len(s) \in Nat /\ Len(t) \in Nat /\ Len(u) \in Nat
  BY DEF Continues, Text
<1>2. Len(s) <= Len(u)
  BY <1>1 DEF Continues
<1>3. ASSUME NEW n \in 0 .. Len(s)
      PROVE  First(n, u) = First(n, s)
  <2>1. n \in 0 .. Len(t)
    BY <1>1 DEF Continues
  <2>. QED  BY <2>1 DEF Continues
<1>. QED  BY <1>2, <1>3 DEF Continues

\* A step that only lets the history grow keeps the model where it is.
LEMMA GrownLocated ==
  ASSUME Located, pc # "recover", Continues(tokens, tokens'),
         live' = live, consumed' = consumed,
         lastLogits' \in {lastLogits, Nothing}
  PROVE  Located'
<1>1. First(consumed, tokens') = First(consumed, tokens)
  BY DEF Located, Continues
<1>2. consumed \in 0 .. Len(tokens')
  BY DEF Located, Continues, Text
<1>. QED  BY <1>1, <1>2 DEF Located, Continues

\* consume_logical_until.
LEMMA Consumed ==
  ASSUME Located, pc # "recover", NEW end \in consumed .. Len(tokens),
         ConsumeUntil(end)
  PROVE  /\ live' = First(end, tokens)
         /\ consumed' = end
         /\ lastLogits' # Nothing => lastLogits' = First(end, tokens)
         /\ consumed < end => lastLogits' = First(end, tokens)
<1>1. tokens \in Seq(Token) /\ consumed \in 0 .. Len(tokens)
  BY DEF Located, Text
<1>2. end \in 0 .. Len(tokens) /\ consumed \in 0 .. end
  BY <1>1
<1>3. First(consumed, tokens) \o SubSeq(tokens, consumed + 1, end) = First(end, tokens)
  BY <1>1, <1>2, FirstExtended
<1>4. live' = First(end, tokens)
  BY <1>3 DEF Located, ConsumeUntil
<1>5. ~(consumed < end) => consumed = end
  BY <1>1
<1>. QED  BY <1>4, <1>5 DEF Located, ConsumeUntil

\* The zero state is at the start of every history.
LEMMA PristineLocated ==
  ASSUME Pristine, tokens' \in Text
  PROVE  Located'
<1>1. First(0, tokens') = << >>
  BY FirstNone DEF Text
<1>2. ContextLimit \in Nat
  BY ChatAssumption
<1>3. 0 \in 0 .. Len(tokens')
  BY DEF Text
<1>. QED  BY <1>1, <1>2, <1>3 DEF Pristine, Located

LEMMA StartTurnKeeps ==
  ASSUME WorkerInv, NEW u \in Users, StartTurn(u)
  PROVE  WorkerInv'
<1>. DEFINE input == IF started THEN Continuation(u) ELSE SystemPrefix \o FirstUser(u)
<1>1. /\ tokens \in Text /\ Len(tokens) \in Nat
      /\ consumed \in 0 .. Len(tokens) /\ consumed <= ContextLimit
      /\ pc = "idle" /\ Located /\ ContextLimit \in Nat
  BY ChatAssumption DEF WorkerInv, Located, Text, StartTurn
<1>2. /\ Continuation(u) \in Text /\ Len(Continuation(u)) > 0
      /\ FirstUser(u) \in Text /\ Len(FirstUser(u)) > 0
      /\ SystemPrefix \in Text /\ Len(SystemPrefix) \in Nat
  BY ChatAssumption DEF Text
<1>3. /\ input \in Text /\ Len(input) > 0
      /\ ~started => Len(SystemPrefix) <= Len(input)
  <2>1. CASE started
    BY <1>2, <2>1
  <2>2. CASE ~started
    <3>1. /\ SystemPrefix \o FirstUser(u) \in Text
          /\ Len(SystemPrefix \o FirstUser(u)) = Len(SystemPrefix) + Len(FirstUser(u))
      BY <1>2 DEF Text
    <3>2. Len(FirstUser(u)) \in Nat
      BY <1>2 DEF Text
    <3>. QED  BY <1>2, <2>2, <3>1, <3>2
  <2>. QED  BY <2>1, <2>2
<1>4. /\ live' = live \o SubSeq(tokens, consumed + 1, Len(tokens))
      /\ consumed' = Len(tokens)
      /\ lastLogits' = IF consumed < Len(tokens) THEN tokens ELSE lastLogits
      /\ tokens' = tokens \o input
      /\ kind' = "turn" /\ pc' \in {"hot", "prompt"}
      /\ sysEnd' = IF started THEN 0 ELSE Len(SystemPrefix)
  BY DEF StartTurn
<1>. HIDE DEF input
<1>5. Continues(tokens, tokens') /\ Len(tokens') = Len(tokens) + Len(input)
  BY <1>1, <1>3, <1>4, JoinedContinues
<1>6. Len(input) \in Nat /\ tokens' \in Text
  BY <1>3, <1>5 DEF Continues, Text
<1>7. First(Len(tokens), tokens') = tokens
  <2>1. Len(tokens) \in 0 .. Len(tokens)
    BY <1>1
  <2>2. First(Len(tokens), tokens) = tokens
    BY <1>1, FirstWhole DEF Text
  <2>. QED  BY <1>5, <2>1, <2>2 DEF Continues
<1>8. live' = tokens
  <2>1. First(consumed, tokens) \o SubSeq(tokens, consumed + 1, Len(tokens))
          = First(Len(tokens), tokens)
    <3>1. tokens \in Seq(Token) /\ Len(tokens) \in 0 .. Len(tokens)
      BY <1>1 DEF Text
    <3>. QED  BY <1>1, <3>1, FirstExtended
  <2>2. First(Len(tokens), tokens) = tokens
    BY <1>1, FirstWhole DEF Text
  <2>. QED  BY <1>1, <1>4, <2>1, <2>2 DEF Located
<1>9. lastLogits' # Nothing => lastLogits' = tokens
  <2>1. CASE consumed < Len(tokens)
    BY <1>4, <2>1
  <2>2. CASE ~(consumed < Len(tokens))
    <3>1. consumed = Len(tokens)
      BY <1>1, <2>2
    <3>2. First(Len(tokens), tokens) = tokens
      BY <1>1, FirstWhole DEF Text
    <3>. QED  BY <1>1, <1>4, <2>2, <3>1, <3>2 DEF Located
  <2>. QED  BY <2>1, <2>2
<1>10. Len(tokens) <= ContextLimit
  <2>1. ~Overfull
    BY DEF StartTurn
  <2>. QED  BY <1>1, <2>1 DEF Overfull
<1>11. Located'
  <2>1. Len(tokens) \in 0 .. Len(tokens')
    BY <1>1, <1>5, <1>6
  <2>. QED  BY <1>4, <1>6, <1>7, <1>8, <1>9, <1>10, <2>1 DEF Located
<1>12. Asked'
  <2>1. consumed' < Len(tokens') /\ tokens' # << >>
    <3>1. Len(tokens) < Len(tokens')
      BY <1>1, <1>3, <1>5, <1>6
    <3>2. tokens' # << >>
      <4>1. Len(tokens') # 0
        BY <1>1, <1>5, <1>6, <3>1
      <4>. QED  BY <4>1
    <3>. QED  BY <1>4, <3>1, <3>2
  <2>2. sysEnd' \in 0 .. Len(tokens')
    <3>1. Len(tokens') \in Nat /\ Len(input) <= Len(tokens')
      BY <1>1, <1>5, <1>6
    <3>2. CASE started
      BY <1>4, <3>1, <3>2
    <3>3. CASE ~started
      BY <1>2, <1>3, <1>4, <1>6, <3>1, <3>3
    <3>. QED  BY <3>2, <3>3
  <2>. QED  BY <1>4, <2>1, <2>2 DEF Asked
<1>. QED  BY <1>4, <1>11, <1>12 DEF WorkerInv, Chosen, Generating

LEMMA StartTurnFullKeeps ==
  ASSUME WorkerInv, StartTurnFull
  PROVE  WorkerInv'
<1>1. /\ Located /\ pc = "idle" /\ pc' = pc /\ tokens' = tokens
      /\ ConsumeUntil(ContextLimit) /\ Overfull /\ ContextLimit \in Nat
  BY ChatAssumption DEF WorkerInv, StartTurnFull
<1>2. ContextLimit \in consumed .. Len(tokens) /\ ContextLimit \in 0 .. Len(tokens)
  BY <1>1 DEF Located, Overfull, Text
<1>3. /\ live' = First(ContextLimit, tokens)
      /\ consumed' = ContextLimit
      /\ lastLogits' # Nothing => lastLogits' = First(ContextLimit, tokens)
  BY <1>1, <1>2, Consumed
<1>4. Located'
  BY <1>1, <1>2, <1>3 DEF Located
<1>5. sysEnd' = 0
  BY <1>1 DEF StartTurnFull, WorkerInv, Asked
<1>. QED  BY <1>1, <1>4, <1>5 DEF WorkerInv, Asked, Busy, Chosen, Generating

\* The steps that go back to the zero state.
LEMMA StartOverKeeps ==
  ASSUME WorkerInv,
         \/ \E p \in ApiPrompts : StartPrompt(p)
         \/ Reset \/ ClearHot \/ HotRejected \/ Recover \/ Crash
  PROVE  WorkerInv'
<1>1. CASE \E p \in ApiPrompts : StartPrompt(p)
  <2>1. PICK p \in ApiPrompts : StartPrompt(p)
    BY <1>1
  <2>2. p \in Text /\ p # << >> /\ Len(p) > 0 /\ Len(p) \in Nat
    BY ChatAssumption DEF Text
  <2>3. /\ Pristine /\ tokens' = p
        /\ pc' \in {"idle", "hot"}
        /\ pc' = "hot" => kind' = "prompt" /\ Len(p) < ContextLimit
    BY <2>1 DEF StartPrompt
  <2>4. sysEnd' = 0
    BY <2>1 DEF StartPrompt, WorkerInv, Asked
  <2>5. Located'
    BY <2>2, <2>3, PristineLocated
  <2>6. Asked'
    BY <2>2, <2>3, <2>4 DEF Asked, Busy, Pristine
  <2>. QED  BY <2>3, <2>5, <2>6 DEF WorkerInv, Chosen, Generating
<1>2. CASE Reset \/ ClearHot \/ Crash
  <2>1. Pristine /\ tokens' = << >> /\ pc' = "idle" /\ sysEnd' = 0
    BY <1>2 DEF Reset, ClearHot, Crash, WorkerInv, Asked
  <2>2. << >> \in Text
    BY DEF Text
  <2>3. Located'
    BY <2>1, <2>2, PristineLocated
  <2>. QED  BY <2>1, <2>3 DEF WorkerInv, Asked, Busy, Chosen, Generating
<1>3. CASE HotRejected \/ Recover
  <2>1. /\ Pristine /\ tokens' = tokens /\ kind' = kind /\ sysEnd' = sysEnd
        /\ pc \in Busy /\ pc' \in {"lookup", "prompt"}
    BY <1>3 DEF HotRejected, Recover, Busy
  <2>2. /\ tokens \in Text /\ tokens # << >>
        /\ kind \in {"turn", "prompt"}
        /\ kind = "prompt" => Len(tokens) < ContextLimit
        /\ sysEnd \in 0 .. Len(tokens)
    BY <2>1 DEF WorkerInv, Located, Asked
  <2>3. 0 < Len(tokens)
    BY <2>2 DEF Text
  <2>4. Located'
    BY <2>1, <2>2, PristineLocated
  <2>5. Asked'
    BY <2>1, <2>2, <2>3 DEF Asked, Pristine
  <2>. QED  BY <2>1, <2>4, <2>5 DEF WorkerInv, Chosen, Generating
<1>. QED  BY <1>1, <1>2, <1>3

LEMMA HotRestoreKeeps ==
  ASSUME WorkerInv, Cached(hot, hotBytes), HotRestore
  PROVE  WorkerInv'
<1>1. PICK i \in HotHits :
        /\ live' = hot[i].state
        /\ consumed' = Len(hot[i].tokens)
        /\ lastLogits' = hot[i].logits
  BY DEF HotRestore
<1>. DEFINE key == hot[i].tokens
<1>2. hot[i] \in Entry /\ IsPrefix(key, tokens)
  BY <1>1 DEF HotHits, Cached
<1>3. key \in Seq(Token) /\ Len(key) <= ContextLimit /\ hot[i].state = key /\ hot[i].logits = key
  BY <1>2 DEF Entry, Short, Text
<1>4. /\ tokens \in Seq(Token) /\ tokens # << >>
      /\ kind \in {"turn", "prompt"}
      /\ kind = "prompt" => Len(tokens) < ContextLimit
      /\ sysEnd \in 0 .. Len(tokens)
  BY DEF WorkerInv, Located, Asked, Busy, HotRestore, Text
<1>5. pc' = "prompt" /\ tokens' = tokens /\ kind' = kind /\ sysEnd' = sysEnd
  BY DEF HotRestore
<1>. HIDE DEF key
<1>6. /\ Len(key) \in 0 .. Len(tokens)
      /\ key = First(Len(key), tokens)
      /\ key # tokens => Len(key) < Len(tokens)
  BY <1>2, <1>3, <1>4, PrefixIsFirst
<1>7. live' = key /\ consumed' = Len(key) /\ lastLogits' = key
  BY <1>1, <1>3 DEF key
<1>8. Located'
  BY <1>3, <1>4, <1>5, <1>6, <1>7 DEF Located, Text
<1>9. Asked'
  BY <1>4, <1>5, <1>6, <1>7 DEF Asked
<1>. QED  BY <1>5, <1>8, <1>9 DEF WorkerInv, Chosen, Generating

\* Steps between the parts of a request that leave the history alone.
LEMMA MovesOn ==
  ASSUME WorkerInv, HotMiss \/ StoreSkipped \/ StoreTemporary \/ Publish \/ PublishFails
  PROVE  WorkerInv'
<1>1. /\ UNCHANGED << worker, kind, sysEnd >>
      /\ pc \in {"hot", "store", "publish"}
      /\ pc' \in {"lookup", "publish"} \/ pc' = AfterStore
  BY DEF HotMiss, StoreSkipped, StoreTemporary, Publish, PublishFails
<1>2. Located'
  BY <1>1 DEF WorkerInv, Located, AfterStore, worker
<1>3. Asked'
  BY <1>1 DEF WorkerInv, Asked, Busy, AfterStore, worker
<1>4. Generating'
  <2>1. pc' = "take" => ~(consumed < Len(tokens))
    BY <1>1 DEF AfterStore
  <2>2. consumed \in 0 .. Len(tokens) /\ Len(tokens) \in Nat
    BY DEF WorkerInv, Located, Text
  <2>3. pc' = "take" => consumed = Len(tokens)
    BY <2>1, <2>2
  <2>4. consumed < Len(tokens) \/ lastLogits = tokens
    BY <1>1 DEF WorkerInv, Asked, Busy
  <2>5. pc' # "decode"
    BY <1>1 DEF AfterStore
  <2>. QED  BY <1>1, <2>1, <2>3, <2>4, <2>5 DEF Generating, worker
<1>5. Chosen'
  BY <1>1 DEF Chosen, AfterStore
<1>. QED  BY <1>2, <1>3, <1>4, <1>5 DEF WorkerInv

LEMMA LookupKeeps ==
  ASSUME WorkerInv, Stored(disk, tmp), Lookup
  PROVE  WorkerInv'
<1>1. /\ UNCHANGED << worker, kind, sysEnd >> /\ pc = "lookup"
      /\ pc' \in {"prompt", "restore"}
  BY DEF Lookup
<1>2. Located' /\ Asked'
  BY <1>1 DEF WorkerInv, Located, Asked, Busy, worker
<1>3. ASSUME pc' = "restore"
      PROVE  /\ candidate' \in Text
             /\ Len(candidate') < Len(tokens)
             /\ candidate' = First(Len(candidate'), tokens)
  <2>1. PICK k \in Candidates : candidate' = k
    BY <1>3 DEF Lookup
  <2>2. PICK f \in disk : k = f.key /\ IsStrictPrefix(f.key, tokens)
    BY <2>1 DEF Candidates
  <2>3. k \in Seq(Token) /\ tokens \in Seq(Token)
    BY <2>2 DEF Stored, File, WorkerInv, Located, Text
  <2>4. IsPrefix(k, tokens) /\ k # tokens
    BY <2>2 DEF IsStrictPrefix
  <2>5. Len(k) < Len(tokens) /\ k = First(Len(k), tokens)
    BY <2>3, <2>4, PrefixIsFirst
  <2>. QED  BY <2>1, <2>3, <2>5 DEF Text
<1>4. tokens' = tokens
  BY <1>1 DEF worker
<1>. QED  BY <1>1, <1>2, <1>3, <1>4 DEF WorkerInv, Chosen, Generating

LEMMA SsdRestoreKeeps ==
  ASSUME WorkerInv, Stored(disk, tmp), SsdRestore
  PROVE  WorkerInv'
<1>1. PICK f \in disk : f.key = candidate /\ f.whole /\ live' = f.state
  BY DEF SsdRestore
<1>2. live' = candidate
  BY <1>1 DEF Stored, File
<1>3. /\ consumed' = Len(candidate) /\ lastLogits' = Nothing
      /\ pc = "restore" /\ pc' = "prompt" /\ tokens' = tokens
      /\ kind' = kind /\ sysEnd' = sysEnd
      /\ Len(candidate) <= ContextLimit
  BY DEF SsdRestore, Restorable
<1>4. /\ candidate \in Text /\ Len(candidate) < Len(tokens)
      /\ candidate = First(Len(candidate), tokens)
      /\ tokens \in Text
  BY <1>3 DEF WorkerInv, Located, Chosen
<1>5. Len(candidate) \in 0 .. Len(tokens)
  BY <1>4 DEF Text
<1>6. Located'
  BY <1>2, <1>3, <1>4, <1>5 DEF Located
<1>7. Asked'
  BY <1>3, <1>4 DEF WorkerInv, Asked, Busy
<1>. QED  BY <1>3, <1>6, <1>7 DEF WorkerInv, Chosen, Generating

LEMMA SsdRejectedKeeps ==
  ASSUME WorkerInv, SsdRejected
  PROVE  WorkerInv'
<1>1. /\ pc = "restore" /\ pc' = "recover"
      /\ UNCHANGED << kind, sysEnd, tokens, consumed, lastLogits >>
  BY DEF SsdRejected
<1>. QED  BY <1>1 DEF WorkerInv, Located, Asked, Busy, Chosen, Generating

LEMMA BoundaryAhead ==
  ASSUME WorkerInv, pc = "prompt"
  PROVE  Boundary \in consumed .. Len(tokens)
<1>1. /\ consumed \in 0 .. Len(tokens) /\ Len(tokens) \in Nat
      /\ sysEnd \in 0 .. Len(tokens)
  BY DEF WorkerInv, Located, Asked, Busy, Text
<1>. QED  BY <1>1 DEF Boundary

\* What Consume does to the worker, and what it hands to the RAM cache.
LEMMA ConsumeKeeps ==
  ASSUME WorkerInv, Consume
  PROVE  /\ WorkerInv'
         /\ First(Boundary, tokens) \in Short
         /\ live' = First(Boundary, tokens)
         /\ lastLogits' \in {First(Boundary, tokens), Nothing}
<1>. DEFINE end == Boundary
<1>1. /\ pc = "prompt" /\ pc' = "store" /\ tokens' = tokens /\ kind' = kind
      /\ sysEnd' = 0 /\ ConsumeUntil(end)
      /\ ~(kind = "turn" /\ Len(tokens) >= ContextLimit)
  BY DEF Consume
<1>2. /\ Located /\ tokens \in Seq(Token) /\ Len(tokens) \in Nat /\ tokens # << >>
      /\ consumed \in 0 .. Len(tokens) /\ ContextLimit \in Nat
      /\ kind \in {"turn", "prompt"}
      /\ kind = "prompt" => Len(tokens) < ContextLimit
      /\ consumed < Len(tokens) \/ lastLogits = tokens
  BY <1>1, ChatAssumption DEF WorkerInv, Located, Asked, Busy, Text
<1>3. end \in consumed .. Len(tokens)
  BY <1>1, BoundaryAhead
<1>4. Len(tokens) < ContextLimit
  BY <1>1, <1>2
<1>. HIDE DEF end
<1>5. /\ live' = First(end, tokens)
      /\ consumed' = end
      /\ lastLogits' # Nothing => lastLogits' = First(end, tokens)
      /\ consumed < end => lastLogits' = First(end, tokens)
  BY <1>1, <1>2, <1>3, Consumed
<1>6. end \in 0 .. Len(tokens) /\ end <= ContextLimit
  BY <1>2, <1>3, <1>4
<1>7. First(end, tokens) \in Seq(Token) /\ Len(First(end, tokens)) = end
  BY <1>2, <1>6, FirstType
<1>8. First(end, tokens) \in Short
  BY <1>6, <1>7 DEF Short, Text
<1>9. Located'
  BY <1>1, <1>2, <1>5, <1>6 DEF Located, Text
<1>10. end < Len(tokens) \/ lastLogits' = tokens
  <2>1. CASE end = Len(tokens) /\ consumed < end
    <3>1. First(Len(tokens), tokens) = tokens
      BY <1>2, FirstWhole
    <3>. QED  BY <1>5, <2>1, <3>1
  <2>2. CASE end = Len(tokens) /\ consumed = end
    <3>1. lastLogits' = lastLogits
      BY <1>1, <1>2, <2>2 DEF ConsumeUntil
    <3>. QED  BY <1>2, <2>2, <3>1
  <2>. QED  BY <1>2, <1>3, <2>1, <2>2
<1>11. Asked'
  BY <1>1, <1>2, <1>5, <1>10 DEF Asked
<1>12. WorkerInv'
  BY <1>1, <1>9, <1>11 DEF WorkerInv, Chosen, Generating
<1>. QED  BY <1>5, <1>8, <1>12 DEF end

LEMMA PromptTooLongKeeps ==
  ASSUME WorkerInv, PromptTooLong
  PROVE  WorkerInv'
<1>1. UNCHANGED worker /\ pc = "prompt" /\ pc' = "idle" /\ sysEnd' = 0
  BY DEF PromptTooLong, Finish
<1>. QED  BY <1>1 DEF WorkerInv, Located, Asked, Busy, Chosen, Generating, worker

LEMMA TakeKeeps ==
  ASSUME WorkerInv, Take
  PROVE  WorkerInv'
<1>1. /\ pc = "take" /\ tokens \in Text /\ lastLogits = tokens
      /\ consumed = Len(tokens) /\ Located
  BY DEF WorkerInv, Located, Generating, Take
<1>2. lastLogits # Nothing
  BY <1>1, ChatAssumption
<1>3. /\ pc' = "decode" /\ logits' = tokens /\ lastLogits' = Nothing
      /\ UNCHANGED << live, tokens, consumed >>
  BY <1>1, <1>2 DEF Take
<1>. QED  BY <1>1, <1>3 DEF WorkerInv, Located, Asked, Busy, Chosen, Generating

\* The ends of the decode loop: the history may grow, the model stays.
LEMMA DecodeEnds ==
  ASSUME WorkerInv,
         DecodeNone \/ DecodeCancelled \/ DecodeStop \/ DecodeError \/ DecodeLast
  PROVE  WorkerInv'
<1>1. /\ pc = "decode" /\ pc' = "idle" /\ sysEnd' = 0
      /\ UNCHANGED << live, consumed, lastLogits >>
  BY DEF DecodeNone, DecodeCancelled, DecodeStop, DecodeError, DecodeLast,
         Finish, worker
<1>2. tokens \in Text /\ Located
  BY DEF WorkerInv, Located
<1>3. ImEnd \in Token /\ Eos \in Token /\ \A t \in Words : t \in Token
  BY ChatAssumption
<1>4. Continues(tokens, tokens')
  <2>1. CASE DecodeNone
    BY <1>2, <2>1, SameContinues DEF DecodeNone, worker
  <2>2. CASE DecodeCancelled
    BY <1>2, <2>2, ClosedContinues DEF DecodeCancelled
  <2>3. CASE DecodeStop
    <3>1. PICK t \in {ImEnd, Eos} :
            tokens' = IF kind = "turn" THEN Append(tokens, t) ELSE tokens
      BY <2>3 DEF DecodeStop
    <3>2. t \in Token
      BY <1>3
    <3>. QED  BY <1>2, <3>1, <3>2, AppendedContinues, SameContinues
  <2>4. CASE DecodeError
    <3>1. PICK t \in Words : tokens' = Append(tokens, t)
      BY <2>4 DEF DecodeError
    <3>. QED  BY <1>2, <1>3, <3>1, AppendedContinues
  <2>5. CASE DecodeLast
    <3>1. PICK t \in Words : tokens' = Closed(Append(tokens, t))
      BY <2>5 DEF DecodeLast
    <3>2. Continues(tokens, Append(tokens, t))
      BY <1>2, <1>3, AppendedContinues
    <3>3. Append(tokens, t) \in Text
      BY <3>2 DEF Continues
    <3>4. Continues(Append(tokens, t), Closed(Append(tokens, t)))
      BY <3>3, ClosedContinues
    <3>. QED  BY <1>2, <3>1, <3>2, <3>4, ContinuesTwice
  <2>. QED  BY <2>1, <2>2, <2>3, <2>4, <2>5
<1>5. Located'
  BY <1>1, <1>2, <1>4, GrownLocated
<1>. QED  BY <1>1, <1>5 DEF WorkerInv, Asked, Busy, Chosen, Generating

LEMMA DecodeTokenKeeps ==
  ASSUME WorkerInv, DecodeToken
  PROVE  WorkerInv'
<1>1. /\ pc = "decode" /\ tokens \in Seq(Token) /\ logits = tokens
      /\ consumed = Len(tokens) /\ live = First(consumed, tokens)
      /\ lastLogits = Nothing /\ consumed < ContextLimit
      /\ ContextLimit \in Nat
  BY ChatAssumption DEF WorkerInv, Located, Generating, DecodeToken, Text
<1>2. live = tokens
  BY <1>1, FirstWhole
<1>3. PICK t \in Words : tokens' = Append(tokens, t) /\ live' = Append(live, t)
  BY DEF DecodeToken
<1>4. t \in Token
  BY ChatAssumption
<1>5. /\ tokens' \in Seq(Token) /\ Len(tokens') = Len(tokens) + 1
      /\ Last(tokens') = t
  BY <1>1, <1>3, <1>4 DEF Last
<1>6. /\ logits' = tokens' /\ live' = tokens' /\ consumed' = Len(tokens')
      /\ pc' = "decode" /\ lastLogits' = Nothing
  BY <1>1, <1>2, <1>3, <1>5 DEF DecodeToken
<1>7. First(Len(tokens'), tokens') = tokens'
  BY <1>5, FirstWhole
<1>8. Len(tokens') \in 0 .. Len(tokens') /\ Len(tokens') <= ContextLimit
  BY <1>1, <1>5
<1>9. Located'
  BY <1>5, <1>6, <1>7, <1>8 DEF Located, Text
<1>. QED  BY <1>6, <1>9 DEF WorkerInv, Asked, Busy, Chosen, Generating
-----------------------------------------------------------------------------
(***************************************************************************)
(* Every step keeps the invariant.                                         *)
(***************************************************************************)
LEMMA ChatInit == Init => ChatInv
<1>. SUFFICES ASSUME Init PROVE ChatInv
  OBVIOUS
<1>1. << >> \in Text /\ Len(<< >>) = 0 /\ ContextLimit \in Nat
  BY ChatAssumption DEF Text
<1>2. First(0, << >>) = << >>
  BY <1>1, FirstNone DEF Text
<1>3. WorkerInv
  BY <1>1, <1>2 DEF Init, WorkerInv, Located, Asked, Busy, Chosen, Generating
<1>4. Cached(hot, hotBytes)
  BY NothingCached DEF Init
<1>5. Stored(disk, tmp)
  BY DEF Init, Stored
<1>. QED  BY <1>3, <1>4, <1>5 DEF ChatInv

LEMMA WorkerStep ==
  ASSUME ChatInv, Next
  PROVE  WorkerInv'
<1>1. WorkerInv /\ Cached(hot, hotBytes) /\ Stored(disk, tmp)
  BY DEF ChatInv
<1>2. CASE \E u \in Users : StartTurn(u)
  BY <1>1, <1>2, StartTurnKeeps
<1>3. CASE \/ \E p \in ApiPrompts : StartPrompt(p)
           \/ Reset \/ ClearHot \/ HotRejected \/ Recover \/ Crash
  BY <1>1, <1>3, StartOverKeeps
<1>4. CASE StartTurnFull
  BY <1>1, <1>4, StartTurnFullKeeps
<1>5. CASE HotRestore
  BY <1>1, <1>5, HotRestoreKeeps
<1>6. CASE HotMiss \/ StoreSkipped \/ StoreTemporary \/ Publish \/ PublishFails
  BY <1>1, <1>6, MovesOn
<1>7. CASE Lookup
  BY <1>1, <1>7, LookupKeeps
<1>8. CASE SsdRestore
  BY <1>1, <1>8, SsdRestoreKeeps
<1>9. CASE SsdRejected
  BY <1>1, <1>9, SsdRejectedKeeps
<1>10. CASE PromptTooLong
  BY <1>1, <1>10, PromptTooLongKeeps
<1>11. CASE Consume
  BY <1>1, <1>11, ConsumeKeeps
<1>12. CASE Take
  BY <1>1, <1>12, TakeKeeps
<1>13. CASE DecodeNone \/ DecodeCancelled \/ DecodeStop \/ DecodeError \/ DecodeLast
  BY <1>1, <1>13, DecodeEnds
<1>14. CASE DecodeToken
  BY <1>1, <1>14, DecodeTokenKeeps
<1>15. CASE ClearCold \/ PeerPublish \/ Damage
  <2>1. UNCHANGED << pc, kind, sysEnd, candidate, worker, loop >>
    BY <1>15 DEF ClearCold, PeerPublish, Damage
  <2>. QED  BY <1>1, <2>1 DEF WorkerInv, Located, Asked, Chosen, Generating,
                              worker, loop
<1>. QED  BY <1>2, <1>3, <1>4, <1>5, <1>6, <1>7, <1>8, <1>9, <1>10, <1>11,
             <1>12, <1>13, <1>14, <1>15 DEF Next

LEMMA CacheStep ==
  ASSUME ChatInv, Next
  PROVE  Cached(hot, hotBytes)'
<1>1. Cached(hot, hotBytes) /\ WorkerInv
  BY DEF ChatInv
<1>2. CASE HotRestore
  <2>1. PICK i \in HotHits : hot' = Append(RemoveAt(hot, i), hot[i])
    BY <1>2 DEF HotRestore
  <2>2. i \in DOMAIN hot /\ hotBytes' = hotBytes
    BY <1>2 DEF HotHits, HotRestore
  <2>3. Cached(Append(RemoveAt(hot, i), hot[i]), hotBytes)
    BY <1>1, <2>2, TouchedCached
  <2>. QED  BY <2>1, <2>2, <2>3
<1>3. CASE HotRejected \/ ClearHot \/ Crash
  <2>1. hot' = << >> /\ hotBytes' = 0
    BY <1>3 DEF HotRejected, ClearHot, Crash
  <2>. QED  BY <2>1, NothingCached
<1>4. CASE Consume
  <2>. DEFINE key == First(Boundary, tokens)
  <2>1. key \in Short /\ live' = key /\ lastLogits' \in {key, Nothing}
    BY <1>1, <1>4, ConsumeKeeps
  <2>2. HotInsert(key, live', lastLogits')
    BY <1>4 DEF Consume
  <2>. HIDE DEF key
  <2>3. PICK lg \in {key, Nothing} : lg = lastLogits'
    BY <2>1
  <2>4. HotInsert(key, key, lg)
    BY <2>1, <2>2, <2>3
  <2>5. Cached(hot', hotBytes')
    BY <1>1, <2>1, <2>4, HotInsertCached
  <2>. QED  BY <2>5
<1>5. CASE UNCHANGED cache
  BY <1>1, <1>5 DEF cache
<1>6. CASE \/ \E u \in Users : StartTurn(u)
           \/ \E p \in ApiPrompts : StartPrompt(p)
           \/ StartTurnFull \/ Reset
  BY <1>5, <1>6 DEF StartTurn, StartPrompt, StartTurnFull, Reset
<1>7. CASE \/ HotMiss \/ Lookup \/ SsdRestore \/ SsdRejected \/ Recover
           \/ PromptTooLong \/ StoreSkipped \/ StoreTemporary \/ Publish \/ PublishFails
  BY <1>5, <1>7 DEF HotMiss, Lookup, SsdRestore, SsdRejected, Recover,
     PromptTooLong, StoreSkipped, StoreTemporary, Publish, PublishFails
<1>8. CASE \/ Take \/ DecodeNone \/ DecodeCancelled \/ DecodeStop \/ DecodeError
           \/ DecodeLast \/ DecodeToken \/ ClearCold \/ PeerPublish \/ Damage
  BY <1>5, <1>8 DEF Take, DecodeNone, DecodeCancelled, DecodeStop, DecodeError,
     DecodeLast, DecodeToken, ClearCold, PeerPublish, Damage
<1>. QED  BY <1>2, <1>3, <1>4, <1>6, <1>7, <1>8 DEF Next

LEMMA FilesStep ==
  ASSUME ChatInv, Next
  PROVE  Stored(disk, tmp)'
<1>1. /\ disk \subseteq File /\ tmp \in File \cup {Nothing} /\ WorkerInv
  BY DEF ChatInv, Stored
<1>2. CASE StoreTemporary
  <2>1. live = StoreKey
    BY <1>1, <1>2 DEF WorkerInv, Located, StoreTemporary, StoreKey
  <2>2. StoreKey \in Text
    BY <1>1, FirstType DEF WorkerInv, Located, StoreKey, Text
  <2>3. [key |-> StoreKey, state |-> live, whole |-> TRUE] \in File
    BY <2>1, <2>2 DEF File
  <2>. QED  BY <1>1, <1>2, <2>3 DEF StoreTemporary, Stored
<1>3. CASE Publish
  <2>1. disk' \subseteq disk \cup {tmp} /\ tmp # Nothing /\ tmp' = Nothing
    BY <1>3 DEF Publish
  <2>. QED  BY <1>1, <2>1 DEF Stored
<1>4. CASE ClearCold
  BY <1>4 DEF ClearCold, Stored
<1>5. CASE PeerPublish
  <2>1. PICK k \in PeerKeys :
          disk' = disk \cup {[key |-> k, state |-> k, whole |-> TRUE]}
    BY <1>5 DEF PeerPublish
  <2>2. [key |-> k, state |-> k, whole |-> TRUE] \in File
    BY ChatAssumption DEF File
  <2>3. tmp' = tmp
    BY <1>5 DEF PeerPublish
  <2>. QED  BY <1>1, <2>1, <2>2, <2>3 DEF Stored
<1>6. CASE Damage
  <2>1. PICK f \in disk :
          disk' = (disk \ {f}) \cup {[f EXCEPT !.whole = FALSE, !.state = Torn]}
    BY <1>6 DEF Damage
  <2>2. [f EXCEPT !.whole = FALSE, !.state = Torn] \in File
    BY <1>1 DEF File
  <2>3. tmp' = tmp
    BY <1>6 DEF Damage
  <2>. QED  BY <1>1, <2>1, <2>2, <2>3 DEF Stored
<1>7. CASE Crash
  BY <1>1, <1>7 DEF Crash, Stored
<1>8. CASE UNCHANGED files
  BY <1>1, <1>8 DEF files, Stored
<1>9. CASE \/ \E u \in Users : StartTurn(u)
           \/ \E p \in ApiPrompts : StartPrompt(p)
           \/ StartTurnFull \/ Reset \/ ClearHot
  BY <1>8, <1>9 DEF StartTurn, StartPrompt, StartTurnFull, Reset, ClearHot
<1>10. CASE \/ HotRestore \/ HotMiss \/ HotRejected \/ Lookup \/ SsdRestore
            \/ SsdRejected \/ Recover \/ PromptTooLong \/ Consume
            \/ StoreSkipped \/ PublishFails
  BY <1>8, <1>10 DEF HotRestore, HotMiss, HotRejected, Lookup, SsdRestore,
     SsdRejected, Recover, PromptTooLong, Consume, StoreSkipped, PublishFails
<1>11. CASE \/ Take \/ DecodeNone \/ DecodeCancelled \/ DecodeStop
            \/ DecodeError \/ DecodeLast \/ DecodeToken
  BY <1>8, <1>11 DEF Take, DecodeNone, DecodeCancelled, DecodeStop, DecodeError,
     DecodeLast, DecodeToken
<1>. QED  BY <1>2, <1>3, <1>4, <1>5, <1>6, <1>7, <1>9, <1>10, <1>11 DEF Next

\* The invariant is inductive: the model is at the consumed part of the
\* history whatever the caches and the file system did.
THEOREM ChatInvariant == Spec => []ChatInv
<1>1. Init => ChatInv
  BY ChatInit
<1>2. ASSUME ChatInv, [Next]_vars
      PROVE  ChatInv'
  <2>1. CASE Next
    <3>1. WorkerInv'
      BY <1>2, <2>1, WorkerStep
    <3>2. Cached(hot, hotBytes)'
      BY <1>2, <2>1, CacheStep
    <3>3. Stored(disk, tmp)'
      BY <1>2, <2>1, FilesStep
    <3>. QED  BY <3>1, <3>2, <3>3 DEF ChatInv
  <2>2. CASE UNCHANGED vars
    BY <1>2, <2>2 DEF ChatInv, WorkerInv, Located, Asked, Chosen, Generating,
       Cached, Stored, vars, worker, cache, files, loop
  <2>. QED  BY <1>2, <2>1, <2>2
<1>. QED  BY <1>1, <1>2, PTL DEF Spec

\* The state of the model is that of the consumed part of the history: neither
\* cache, a damaged file, a failed restore, a cleared directory nor a cancelled
\* or failed request leaves state of other tokens behind.
THEOREM StateExact == Spec => []StateMatchesHistory
<1>1. ChatInv => StateMatchesHistory
  BY DEF ChatInv, WorkerInv, Located, StateMatchesHistory, Text
<1>. QED  BY <1>1, ChatInvariant, PTL

\* Decoding begins with the logits of the whole prompt, also after a hit in a
\* cache, and every further token is sampled after all the earlier ones.
THEOREM Decodes == Spec => []DecodesFromPrompt
<1>1. ChatInv => DecodesFromPrompt
  BY DEF ChatInv, WorkerInv, Generating, DecodesFromPrompt
<1>. QED  BY <1>1, ChatInvariant, PTL

\* Entries of the RAM cache and whole files hold the state of the tokens they
\* are found by; the RAM cache counts its bytes exactly and keeps its budget.
THEOREM Caches == Spec => []CachesExact
<1>1. ChatInv => CachesExact
  <2>. SUFFICES ASSUME ChatInv PROVE CachesExact
    OBVIOUS
  <2>1. /\ hot \in Seq(Entry) /\ Distinct(hot)
        /\ hotBytes = SumBytes(hot) /\ hotBytes <= HotBudget
        /\ disk \subseteq File
    BY DEF ChatInv, Cached, Stored
  <2>2. DOMAIN hot = 1 .. Len(hot) /\ \A i \in DOMAIN hot : hot[i] \in Entry
    BY <2>1
  <2>3. \A i \in DOMAIN hot :
          hot[i].state = hot[i].tokens /\ hot[i].logits = hot[i].tokens
    BY <2>2 DEF Entry
  <2>4. \A i, j \in DOMAIN hot : hot[i].tokens = hot[j].tokens => i = j
    BY <2>1, <2>2 DEF Distinct
  <2>5. \A f \in disk : f.whole => f.state = f.key
    BY <2>1 DEF File
  <2>. QED  BY <2>1, <2>3, <2>4, <2>5 DEF CachesExact
<1>. QED  BY <1>1, ChatInvariant, PTL
=============================================================================
