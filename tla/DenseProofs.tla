----------------------------- MODULE DenseProofs ----------------------------
(***************************************************************************)
(* Proofs about the dense engine: what Dspark's mirrors and verified       *)
(* blocks hold whatever is drafted, rejected or restored, and that a reply *)
(* of DenseEngine starts from exactly its prompt.                          *)
(***************************************************************************)
EXTENDS DenseEngine, Dspark, HelperProofs, SequenceTheorems

-----------------------------------------------------------------------------
(* Sequences                                                               *)

\* The first n elements are a sequence of n elements.
LEMMA PrefixSeq ==
  ASSUME NEW S, NEW s \in Seq(S), NEW n \in 0 .. Len(s)
  PROVE  /\ SubSeq(s, 1, n) \in Seq(S)
         /\ Len(SubSeq(s, 1, n)) = n
         /\ \A i \in 1 .. n : SubSeq(s, 1, n)[i] = s[i]
<1>1. Len(s) \in Nat /\ \A i \in 1 .. n : s[i] \in S
  OBVIOUS
<1>2. n \in Int /\ 1 \in Int /\ n \in Nat
  BY <1>1
<1>3. /\ SubSeq(s, 1, n) \in Seq(S)
      /\ Len(SubSeq(s, 1, n)) = IF 1 <= n THEN n - 1 + 1 ELSE 0
      /\ \A i \in 1 .. n - 1 + 1 : SubSeq(s, 1, n)[i] = s[1 + i - 1]
  BY <1>1, <1>2, SubSeqProperties
<1>. QED  BY <1>2, <1>3

\* The first n elements of an extension are those of the sequence.
LEMMA PrefixOfConcat ==
  ASSUME NEW S, NEW s \in Seq(S), NEW t \in Seq(S), NEW n \in 0 .. Len(s)
  PROVE  /\ n \in 0 .. Len(s \o t)
         /\ SubSeq(s \o t, 1, n) = SubSeq(s, 1, n)
<1>1. /\ s \o t \in Seq(S) /\ Len(s) \in Nat /\ Len(t) \in Nat
      /\ Len(s \o t) = Len(s) + Len(t)
      /\ \A i \in 1 .. Len(s) : (s \o t)[i] = s[i]
  OBVIOUS
<1>2. n \in 0 .. Len(s \o t)
  BY <1>1
<1>. DEFINE a == SubSeq(s \o t, 1, n)
            b == SubSeq(s, 1, n)
<1>3. a \in Seq(S) /\ Len(a) = n /\ \A i \in 1 .. n : a[i] = (s \o t)[i]
  BY <1>1, <1>2, PrefixSeq
<1>4. b \in Seq(S) /\ Len(b) = n /\ \A i \in 1 .. n : b[i] = s[i]
  BY PrefixSeq
<1>. HIDE DEF a, b
<1>5. Len(a) = Len(b) /\ \A i \in 1 .. Len(a) : a[i] = b[i]
  BY <1>1, <1>3, <1>4
<1>6. a = b
  BY <1>3, <1>4, <1>5, SeqEqual
<1>. QED  BY <1>2, <1>6 DEF a, b

\* The elements after the first b, up to the n-th.
LEMMA MiddleSeq ==
  ASSUME NEW S, NEW s \in Seq(S), NEW b \in Nat, NEW n \in b .. Len(s)
  PROVE  /\ SubSeq(s, b + 1, n) \in Seq(S)
         /\ Len(SubSeq(s, b + 1, n)) = n - b
         /\ \A i \in 1 .. n - b : SubSeq(s, b + 1, n)[i] = s[b + i]
<1>1. Len(s) \in Nat /\ n \in Nat /\ b + 1 \in Int /\ n \in Int /\ b <= n
  OBVIOUS
<1>2. \A i \in b + 1 .. n : s[i] \in S
  <2>1. \A i \in b + 1 .. n : i \in 1 .. Len(s)
    BY <1>1
  <2>. QED  BY <2>1
<1>3. /\ SubSeq(s, b + 1, n) \in Seq(S)
      /\ Len(SubSeq(s, b + 1, n)) = IF b + 1 <= n THEN n - (b + 1) + 1 ELSE 0
      /\ \A i \in 1 .. n - (b + 1) + 1 : SubSeq(s, b + 1, n)[i] = s[(b + 1) + i - 1]
  BY <1>1, <1>2, SubSeqProperties
<1>4. n - (b + 1) + 1 = n - b
  BY <1>1
<1>5. \A i \in 1 .. n - b : (b + 1) + i - 1 = b + i
  BY <1>1
<1>. QED  BY <1>1, <1>3, <1>4, <1>5

\* They stay the same in an extension, and those up to its end are extended.
LEMMA MiddleOfConcat ==
  ASSUME NEW S, NEW s \in Seq(S), NEW t \in Seq(S), NEW b \in 0 .. Len(s)
  PROVE  /\ \A n \in b .. Len(s) :
              SubSeq(s \o t, b + 1, n) = SubSeq(s, b + 1, n)
         /\ SubSeq(s \o t, b + 1, Len(s \o t)) = SubSeq(s, b + 1, Len(s)) \o t
<1>1. /\ s \o t \in Seq(S) /\ Len(s) \in Nat /\ Len(t) \in Nat /\ b \in Nat
      /\ Len(s \o t) = Len(s) + Len(t)
      /\ \A i \in 1 .. Len(s) : (s \o t)[i] = s[i]
      /\ \A i \in 1 .. Len(t) : (s \o t)[Len(s) + i] = t[i]
  OBVIOUS
<1>. DEFINE st == s \o t
<1>. HIDE DEF st
<1>2. ASSUME NEW n \in b .. Len(s)
      PROVE  SubSeq(st, b + 1, n) = SubSeq(s, b + 1, n)
  <2>. DEFINE x == SubSeq(st, b + 1, n)
              y == SubSeq(s, b + 1, n)
  <2>1. n \in b .. Len(st)
    BY <1>1 DEF st
  <2>2. x \in Seq(S) /\ Len(x) = n - b /\ \A i \in 1 .. n - b : x[i] = st[b + i]
    BY <1>1, <2>1, MiddleSeq DEF st
  <2>3. y \in Seq(S) /\ Len(y) = n - b /\ \A i \in 1 .. n - b : y[i] = s[b + i]
    BY <1>1, MiddleSeq
  <2>4. \A i \in 1 .. n - b : b + i \in 1 .. Len(s)
    BY <1>1
  <2>. HIDE DEF x, y
  <2>5. Len(x) = Len(y) /\ \A i \in 1 .. Len(x) : x[i] = y[i]
    BY <1>1, <2>2, <2>3, <2>4 DEF st
  <2>6. x = y
    BY <2>2, <2>3, <2>5, SeqEqual
  <2>. QED  BY <2>6 DEF x, y
<1>3. SubSeq(st, b + 1, Len(st)) = SubSeq(s, b + 1, Len(s)) \o t
  <2>. DEFINE x == SubSeq(st, b + 1, Len(st))
              y == SubSeq(s, b + 1, Len(s))
              k == Len(s) - b
  <2>0. Len(st) \in b .. Len(st) /\ Len(s) \in b .. Len(s) /\ k \in Nat
        /\ Len(st) - b = k + Len(t)
    BY <1>1 DEF st
  <2>1. /\ x \in Seq(S) /\ Len(x) = Len(st) - b
        /\ \A i \in 1 .. Len(st) - b : x[i] = st[b + i]
    BY <1>1, <2>0, MiddleSeq DEF st
  <2>2. y \in Seq(S) /\ Len(y) = k /\ \A i \in 1 .. k : y[i] = s[b + i]
    BY <1>1, <2>0, MiddleSeq
  <2>. HIDE DEF x, y, k
  <2>3. /\ y \o t \in Seq(S) /\ Len(y \o t) = k + Len(t)
        /\ \A i \in 1 .. k + Len(t) :
             (y \o t)[i] = IF i <= k THEN y[i] ELSE t[i - k]
    BY <2>2, ConcatProperties
  <2>4. ASSUME NEW i \in 1 .. k + Len(t) PROVE x[i] = (y \o t)[i]
    <3>1. CASE i <= k
      <4>1. i \in 1 .. k /\ b + i \in 1 .. Len(s)
        BY <1>1, <2>0, <3>1 DEF k
      <4>2. x[i] = st[b + i] /\ (y \o t)[i] = y[i] /\ y[i] = s[b + i]
        BY <1>1, <2>0, <2>1, <2>2, <2>3, <3>1, <4>1
      <4>3. st[b + i] = s[b + i]
        BY <1>1, <4>1 DEF st
      <4>. QED  BY <4>2, <4>3
    <3>2. CASE i > k
      <4>1. i - k \in 1 .. Len(t) /\ b + i = Len(s) + (i - k) /\ i = k + (i - k)
        BY <1>1, <2>0, <3>2 DEF k
      <4>2. x[i] = st[Len(s) + (i - k)]
        BY <2>0, <2>1, <4>1
      <4>3. (y \o t)[i] = t[i - k]
        BY <1>1, <2>0, <2>3, <3>2
      <4>. QED  BY <1>1, <4>1, <4>2, <4>3 DEF st
    <3>3. i <= k \/ i > k
      BY <1>1, <2>0
    <3>. QED  BY <3>1, <3>2, <3>3
  <2>5. x = y \o t
    BY <2>0, <2>1, <2>3, <2>4, SeqEqual
  <2>. QED  BY <2>5 DEF x, y
<1>. QED  BY <1>2, <1>3 DEF st

\* Nor does cutting the sequence behind them change them.
LEMMA MiddleOfPrefix ==
  ASSUME NEW S, NEW s \in Seq(S), NEW b \in Nat, NEW n \in 0 .. Len(s),
         NEW m \in b .. n
  PROVE  SubSeq(SubSeq(s, 1, n), b + 1, m) = SubSeq(s, b + 1, m)
<1>. DEFINE p == SubSeq(s, 1, n)
            x == SubSeq(p, b + 1, m)
            y == SubSeq(s, b + 1, m)
<1>1. Len(s) \in Nat /\ m \in b .. Len(s)
  OBVIOUS
<1>2. p \in Seq(S) /\ Len(p) = n /\ \A i \in 1 .. n : p[i] = s[i]
  BY PrefixSeq
<1>. HIDE DEF p
<1>3. x \in Seq(S) /\ Len(x) = m - b /\ \A i \in 1 .. m - b : x[i] = p[b + i]
  BY <1>2, MiddleSeq
<1>4. y \in Seq(S) /\ Len(y) = m - b /\ \A i \in 1 .. m - b : y[i] = s[b + i]
  BY <1>1, MiddleSeq
<1>5. \A i \in 1 .. m - b : b + i \in 1 .. n
  BY <1>1
<1>. HIDE DEF x, y
<1>6. Len(x) = Len(y) /\ \A i \in 1 .. Len(x) : x[i] = y[i]
  BY <1>2, <1>3, <1>4, <1>5
<1>7. x = y
  BY <1>3, <1>4, <1>6, SeqEqual
<1>. QED  BY <1>7 DEF x, y, p

\* A prefix of a prefix.
LEMMA PrefixOfPrefix ==
  ASSUME NEW S, NEW s \in Seq(S), NEW n \in 0 .. Len(s), NEW m \in 0 .. n
  PROVE  SubSeq(SubSeq(s, 1, n), 1, m) = SubSeq(s, 1, m)
<1>1. 0 \in Nat /\ 0 + 1 = 1
  OBVIOUS
<1>2. SubSeq(SubSeq(s, 1, n), 0 + 1, m) = SubSeq(s, 0 + 1, m)
  BY <1>1, MiddleOfPrefix
<1>. QED  BY <1>1, <1>2

\* What LastN returns: at most n elements, the last ones.
LEMMA LastNProperties ==
  ASSUME NEW S, NEW s \in Seq(S), NEW n \in Nat
  PROVE  /\ LastN(n, s) \in Seq(S)
         /\ Len(LastN(n, s)) = IF Len(s) > n THEN n ELSE Len(s)
         /\ \A i \in 1 .. Len(LastN(n, s)) :
              LastN(n, s)[i] = s[Len(s) - Len(LastN(n, s)) + i]
<1>. DEFINE l == Len(s)
            m == IF l > n THEN l - n + 1 ELSE 1
            r == SubSeq(s, m, l)
<1>1. l \in Nat /\ m \in Int /\ l \in Int /\ m >= 1
  OBVIOUS
<1>2. \A i \in m .. l : s[i] \in S
  <2>1. \A i \in m .. l : i \in 1 .. Len(s)
    BY <1>1
  <2>. QED  BY <2>1
<1>3. r = LastN(n, s)
  BY DEF LastN
<1>. HIDE DEF m
<1>4. /\ r \in Seq(S)
      /\ Len(r) = IF m <= l THEN l - m + 1 ELSE 0
      /\ \A i \in 1 .. l - m + 1 : r[i] = s[m + i - 1]
  BY <1>1, <1>2, SubSeqProperties
<1>. HIDE DEF r
<1>. HIDE DEF l
<1>5. Len(r) = IF l > n THEN n ELSE l
  <2>1. CASE l > n
    <3>1. m = l - n + 1 /\ l - m + 1 = n
      BY <1>1, <2>1 DEF m
    <3>. QED  BY <1>1, <1>4, <2>1, <3>1
  <2>2. CASE ~ (l > n)
    BY <1>1, <1>4, <2>2 DEF m
  <2>. QED  BY <2>1, <2>2
<1>6. l - m + 1 = Len(r)
  <2>1. CASE l > n
    BY <1>1, <1>5, <2>1 DEF m
  <2>2. CASE ~ (l > n)
    BY <1>1, <1>5, <2>2 DEF m
  <2>. QED  BY <2>1, <2>2
<1>7. \A i \in 1 .. Len(r) : m + i - 1 = l - Len(r) + i
  BY <1>1, <1>6
<1>8. \A i \in 1 .. Len(r) : r[i] = s[l - Len(r) + i]
  BY <1>4, <1>6, <1>7
<1>. QED  BY <1>3, <1>4, <1>5, <1>8 DEF l

\* Committing rows to a window of the last rows is the window of all rows.
LEMMA LastNConcat ==
  ASSUME NEW S, NEW s \in Seq(S), NEW t \in Seq(S), NEW n \in Nat
  PROVE  LastN(n, LastN(n, s) \o t) = LastN(n, s \o t)
<1>. DEFINE u == LastN(n, s)
            ut == u \o t
            st == s \o t
            a == LastN(n, ut)
            b == LastN(n, st)
<1>1. /\ u \in Seq(S)
      /\ Len(u) = IF Len(s) > n THEN n ELSE Len(s)
      /\ \A i \in 1 .. Len(u) : u[i] = s[Len(s) - Len(u) + i]
  BY LastNProperties
<1>2. Len(s) \in Nat /\ Len(t) \in Nat /\ Len(u) \in Nat /\ Len(u) <= Len(s)
  <2>1. Len(s) \in Nat /\ Len(t) \in Nat
    OBVIOUS
  <2>. HIDE DEF u
  <2>. QED  BY <1>1, <2>1
<1>. HIDE DEF u
<1>3. /\ ut \in Seq(S) /\ Len(ut) = Len(u) + Len(t)
      /\ \A i \in 1 .. Len(u) + Len(t) :
           ut[i] = IF i <= Len(u) THEN u[i] ELSE t[i - Len(u)]
  BY <1>1, ConcatProperties
<1>4. /\ st \in Seq(S) /\ Len(st) = Len(s) + Len(t)
      /\ \A i \in 1 .. Len(s) + Len(t) :
           st[i] = IF i <= Len(s) THEN s[i] ELSE t[i - Len(s)]
  BY ConcatProperties
<1>. HIDE DEF ut, st
<1>5. \A i \in 1 .. Len(ut) : ut[i] = st[Len(s) - Len(u) + i]
  <2>. SUFFICES ASSUME NEW i \in 1 .. Len(ut)
                PROVE  ut[i] = st[Len(s) - Len(u) + i]
    OBVIOUS
  <2>1. i \in Nat /\ Len(s) - Len(u) + i \in 1 .. Len(s) + Len(t)
    BY <1>2, <1>3
  <2>2. CASE i <= Len(u)
    <3>1. i \in 1 .. Len(u) /\ ut[i] = u[i]
      BY <1>2, <1>3, <2>1, <2>2
    <3>2. st[Len(s) - Len(u) + i] = s[Len(s) - Len(u) + i]
      BY <1>2, <1>4, <2>1, <2>2
    <3>. QED  BY <1>1, <3>1, <3>2
  <2>3. CASE ~ (i <= Len(u))
    <3>1. ut[i] = t[i - Len(u)]
      BY <1>2, <1>3, <2>1, <2>3
    <3>2. st[Len(s) - Len(u) + i] = t[Len(s) - Len(u) + i - Len(s)]
      BY <1>2, <1>4, <2>1, <2>3, SMTT(30)
    <3>3. Len(s) - Len(u) + i - Len(s) = i - Len(u)
      BY <1>2, <2>1
    <3>. QED  BY <3>1, <3>2, <3>3
  <2>. QED  BY <2>2, <2>3
<1>6. /\ a \in Seq(S)
      /\ Len(a) = IF Len(ut) > n THEN n ELSE Len(ut)
      /\ \A i \in 1 .. Len(a) : a[i] = ut[Len(ut) - Len(a) + i]
  BY <1>3, LastNProperties
<1>7. /\ b \in Seq(S)
      /\ Len(b) = IF Len(st) > n THEN n ELSE Len(st)
      /\ \A i \in 1 .. Len(b) : b[i] = st[Len(st) - Len(b) + i]
  BY <1>4, LastNProperties
<1>. HIDE DEF a, b
<1>8. Len(a) = Len(b)
  <2>1. CASE Len(s) > n
    <3>1. Len(u) = n /\ Len(ut) = n + Len(t) /\ Len(st) = Len(s) + Len(t)
      BY <1>1, <1>3, <1>4, <2>1
    <3>. QED  BY <1>2, <1>6, <1>7, <2>1, <3>1
  <2>2. CASE ~ (Len(s) > n)
    <3>1. Len(ut) = Len(st)
      BY <1>1, <1>3, <1>4, <2>2
    <3>. QED  BY <1>6, <1>7, <3>1
  <2>. QED  BY <2>1, <2>2
<1>9. ASSUME NEW i \in 1 .. Len(a) PROVE a[i] = b[i]
  <2>0. Len(a) \in Nat /\ Len(ut) \in Nat /\ Len(st) \in Nat /\ Len(a) <= Len(ut)
    BY <1>2, <1>3, <1>4, <1>6
  <2>1. Len(ut) - Len(a) + i \in 1 .. Len(ut)
    BY <2>0
  <2>2. Len(s) - Len(u) + (Len(ut) - Len(a) + i) = Len(st) - Len(b) + i
    BY <1>2, <1>3, <1>4, <1>8, <2>0
  <2>. QED  BY <1>5, <1>6, <1>7, <1>8, <2>1, <2>2
<1>10. a = b
  BY <1>6, <1>7, <1>8, <1>9, SeqEqual
<1>. QED  BY <1>10 DEF a, b, ut, st, u
-----------------------------------------------------------------------------
(* Sessions of the dense engine                                            *)

CacheCheckpoints == [generation : Nat, processed : Nat]

Sessions == [rows : Seq(Token), gen : Nat, hist : SUBSET CacheCheckpoints,
             gpu : Seq(Token)]

\* The device holds nothing or what the session holds.
GpuFollows(s) == s.gpu = << >> \/ s.gpu = s.rows
-----------------------------------------------------------------------------
(* The inductive invariant of Dspark                                       *)

Anchors == Token \cup {NoToken}

Mirrors(h, c, rows) ==
  h = LastN(HistoryCapacity, rows) /\ c = LastN(BlockWidth + 1, rows)

CheckpointRecord(c) ==
  c = [target |-> c.target, history |-> c.history, committed |-> c.committed,
       provisional |-> c.provisional, anchor |-> c.anchor,
       cancelled |-> c.cancelled, left |-> c.left]

\* A checkpoint goes back to no fewer than the b rows the session began with.
\* Unless it was left, the rows it goes back to are still the first ones of
\* the cache, and its mirrors are those of the ones among them that the
\* session has added.
CheckpointHolds(c, rows, b) ==
  /\ CheckpointRecord(c)
  /\ c.target \in CacheCheckpoints
  /\ c.anchor \in Anchors
  /\ c.left \in BOOLEAN
  /\ b <= c.target.processed
  /\ ~c.left =>
       /\ c.target.processed <= Len(rows)
       /\ Mirrors(c.history, c.committed, SubSeq(rows, b + 1, c.target.processed))

SavedHold(ss, rows, b) ==
  /\ ss \in Seq(Range(ss))
  /\ \A i \in 1 .. Len(ss) : CheckpointHolds(ss[i], rows, b)

DsparkInv ==
  /\ target \in Sessions
  /\ base \in 0 .. Len(target.rows)
  /\ astray \in BOOLEAN
  /\ anchor \in Anchors
  /\ MirrorsFollowCache
  /\ SavedHold(saved, target.rows, base)
  /\ VerifiedIsGreedy

-----------------------------------------------------------------------------
(* What a forward leaves                                                   *)

\* The session t is s after forwarding toks.
Extends(t, s, toks) ==
  /\ t \in Sessions
  /\ t.rows = s.rows \o toks
  /\ DeviceCoherent(s) => DeviceCoherent(t)
  /\ GpuFollows(s) => GpuFollows(t)

LEMMA ForwardedExtends ==
  ASSUME NEW s \in Sessions, NEW toks \in Seq(Token), NEW tapped \in BOOLEAN,
         NEW t \in Forwarded(s, toks, tapped)
  PROVE  Extends(t, s, toks)
<1>. DEFINE c == Commit(s, toks)
<1>1. /\ s.rows \in Seq(Token) /\ s.gen \in Nat /\ s.gpu \in Seq(Token)
      /\ s.hist \in SUBSET CacheCheckpoints
      /\ Len(s.rows) \in Nat /\ Len(s.gpu) \in Nat
  BY DEF Sessions
<1>2. (s.gen + 1) % Generations \in Nat
  BY <1>1, SessionAssumption
<1>3. s.hist \cup {Checkpoint(s)} \in SUBSET CacheCheckpoints
  BY <1>1 DEF Checkpoint, CacheCheckpoints
<1>4. s.rows \o toks \in Seq(Token) /\ s.gpu \o toks \in Seq(Token)
  BY <1>1
<1>5. c = [rows |-> s.rows \o toks, gen |-> (s.gen + 1) % Generations,
           hist |-> s.hist \cup {Checkpoint(s)}, gpu |-> s.gpu]
  <2>1. s = [rows |-> s.rows, gen |-> s.gen, hist |-> s.hist, gpu |-> s.gpu]
    BY DEF Sessions
  <2>. DEFINE r == s.rows \o toks
              g == (s.gen + 1) % Generations
              h == s.hist \cup {Checkpoint(s)}
  <2>2. c = [s EXCEPT !.hist = h, !.rows = r, !.gen = g]
    BY DEF Commit
  <2>. HIDE DEF r, g, h, c
  <2>3. c = [rows |-> r, gen |-> g, hist |-> h, gpu |-> s.gpu]
    BY ONLY <2>1, <2>2
  <2>. QED  BY <2>3 DEF r, g, h
<1>6. \/ t = [c EXCEPT !.gpu = << >>]
      \/ Len(s.gpu) = Len(s.rows) /\ t = [c EXCEPT !.gpu = @ \o toks]
  BY DEF Forwarded, DropDevice
<1>. HIDE DEF c
<1>7. CASE t = [c EXCEPT !.gpu = << >>]
  <2>1. t = [rows |-> s.rows \o toks, gen |-> (s.gen + 1) % Generations,
             hist |-> s.hist \cup {Checkpoint(s)}, gpu |-> << >>]
    BY <1>5, <1>7
  <2>2. t \in Sessions /\ t.rows = s.rows \o toks /\ t.gpu = << >>
    BY <1>2, <1>3, <1>4, <2>1 DEF Sessions
  <2>3. Len(t.gpu) = Len(t.rows) => t.gpu = t.rows
    BY <1>4, <2>2
  <2>. QED  BY <2>2, <2>3 DEF Extends, DeviceCoherent, GpuFollows
<1>8. CASE Len(s.gpu) = Len(s.rows) /\ t = [c EXCEPT !.gpu = @ \o toks]
  <2>1. t = [rows |-> s.rows \o toks, gen |-> (s.gen + 1) % Generations,
             hist |-> s.hist \cup {Checkpoint(s)}, gpu |-> s.gpu \o toks]
    BY <1>5, <1>8
  <2>2. t \in Sessions /\ t.rows = s.rows \o toks /\ t.gpu = s.gpu \o toks
    BY <1>2, <1>3, <1>4, <2>1 DEF Sessions
  <2>3. DeviceCoherent(s) => s.gpu = s.rows
    BY <1>8 DEF DeviceCoherent
  <2>4. GpuFollows(s) => s.gpu = s.rows
    BY <1>1, <1>8 DEF GpuFollows
  <2>. QED  BY <2>2, <2>3, <2>4 DEF Extends, DeviceCoherent, GpuFollows
<1>. QED  BY <1>6, <1>7, <1>8

\* A session taken back to n rows.
LEMMA RestoredSession ==
  ASSUME NEW s \in Sessions, NEW c \in CacheCheckpoints,
         c.processed <= Len(s.rows)
  PROVE  /\ Restored(s, c) \in Sessions
         /\ Restored(s, c).rows = SubSeq(s.rows, 1, c.processed)
         /\ Restored(s, c).gpu = << >>
         /\ DeviceCoherent(Restored(s, c))
<1>1. s.rows \in Seq(Token) /\ Len(s.rows) \in Nat /\ c.processed \in Nat /\ c.generation \in Nat
  BY DEF Sessions, CacheCheckpoints
<1>2. c.processed \in 0 .. Len(s.rows)
  BY <1>1
<1>3. SubSeq(s.rows, 1, c.processed) \in Seq(Token)
  BY <1>1, <1>2, PrefixSeq
<1>4. {h \in s.hist : h.generation <= c.generation} \in SUBSET CacheCheckpoints
  BY DEF Sessions
<1>5. /\ Restored(s, c) \in Sessions
      /\ Restored(s, c).rows = SubSeq(s.rows, 1, c.processed)
      /\ Restored(s, c).gpu = << >>
  BY <1>1, <1>3, <1>4 DEF Restored, Sessions
<1>. HIDE DEF Restored
<1>6. DeviceCoherent(Restored(s, c))
  BY <1>3, <1>5 DEF DeviceCoherent
<1>. QED  BY <1>5, <1>6
-----------------------------------------------------------------------------
(* The mirrors and the checkpoints                                         *)

\* Committed inputs move the mirrors along with the cache.
LEMMA MirrorsExtend ==
  ASSUME NEW rows \in Seq(Token), NEW inputs \in Seq(Token),
         Mirrors(targetHistory, committed, rows), CommitInputs(inputs)
  PROVE  Mirrors(targetHistory', committed', rows \o inputs)
<1>1. HistoryCapacity \in Nat /\ BlockWidth + 1 \in Nat
  BY DsparkAssumption
<1>2. LastN(HistoryCapacity, LastN(HistoryCapacity, rows) \o inputs) =
        LastN(HistoryCapacity, rows \o inputs)
  BY <1>1, LastNConcat
<1>3. LastN(BlockWidth + 1, LastN(BlockWidth + 1, rows) \o inputs) =
        LastN(BlockWidth + 1, rows \o inputs)
  BY <1>1, LastNConcat
<1>. QED  BY <1>2, <1>3 DEF Mirrors, CommitInputs

\* So they follow the rows that the session has added.
LEMMA MirrorsGrow ==
  ASSUME DsparkInv, NEW inputs \in Seq(Token), CommitInputs(inputs),
         target' \in Sessions, target'.rows = target.rows \o inputs,
         DeviceCoherent(target'), base' = base, astray' = astray
  PROVE  MirrorsFollowCache' /\ base' \in 0 .. Len(target'.rows)
<1>. DEFINE rows == target.rows
            own == SubSeq(rows, base + 1, Len(rows))
<1>1. /\ rows \in Seq(Token) /\ Len(rows) \in Nat
      /\ base \in 0 .. Len(rows) /\ base \in Nat /\ Len(rows) \in base .. Len(rows)
  BY DEF DsparkInv, Sessions
<1>2. own \in Seq(Token)
  BY <1>1, MiddleSeq
<1>3. SubSeq(rows \o inputs, base + 1, Len(rows \o inputs)) = own \o inputs
  BY <1>1, MiddleOfConcat
<1>4. ~astray => Mirrors(targetHistory, committed, own)
  BY DEF DsparkInv, MirrorsFollowCache, Mirrors
<1>. HIDE DEF own
<1>5. ~astray => Mirrors(targetHistory', committed', own \o inputs)
  BY <1>2, <1>4, MirrorsExtend
<1>6. base' \in 0 .. Len(target'.rows)
  BY <1>1
<1>. QED  BY <1>3, <1>5, <1>6 DEF MirrorsFollowCache, Mirrors

\* Checkpoints hold what they held when the cache grows.
LEMMA SavedExtend ==
  ASSUME NEW ss, NEW rows \in Seq(Token), NEW t \in Seq(Token),
         NEW b \in 0 .. Len(rows), SavedHold(ss, rows, b)
  PROVE  SavedHold(ss, rows \o t, b)
<1>1. /\ Len(rows) \in Nat /\ b \in Nat /\ Len(rows \o t) \in Nat
      /\ Len(rows) <= Len(rows \o t)
  OBVIOUS
<1>2. ASSUME NEW i \in 1 .. Len(ss)
      PROVE  CheckpointHolds(ss[i], rows \o t, b)
  <2>. DEFINE c == ss[i]
  <2>1. CheckpointHolds(c, rows, b)
    BY DEF SavedHold
  <2>. HIDE DEF c
  <2>2. c.target.processed \in Nat
    BY <2>1 DEF CheckpointHolds, CacheCheckpoints
  <2>3. CASE c.left
    BY <2>1, <2>3 DEF CheckpointHolds, c
  <2>4. CASE ~c.left
    <3>1. /\ c.target.processed \in b .. Len(rows)
          /\ c.target.processed <= Len(rows \o t)
      BY <1>1, <2>1, <2>2, <2>4 DEF CheckpointHolds
    <3>2. SubSeq(rows \o t, b + 1, c.target.processed) =
            SubSeq(rows, b + 1, c.target.processed)
      BY <3>1, MiddleOfConcat
    <3>. QED  BY <2>1, <2>4, <3>1, <3>2 DEF CheckpointHolds, c
  <2>5. c.left \in BOOLEAN
    BY <2>1 DEF CheckpointHolds
  <2>. QED  BY <2>3, <2>4, <2>5
<1>. QED  BY <1>2 DEF SavedHold

\* A checkpoint of the present joins the others.
LEMMA SavedAppend ==
  ASSUME NEW ss, NEW rows, NEW b, NEW c, SavedHold(ss, rows, b),
         CheckpointHolds(c, rows, b)
  PROVE  SavedHold(Append(ss, c), rows, b)
<1>. DEFINE T == Range(ss) \cup {c}
            r == Append(ss, c)
<1>1. ss \in Seq(T) /\ c \in T
  <2>1. ss \in Seq(Range(ss)) /\ Range(ss) \subseteq T
    BY DEF SavedHold
  <2>. HIDE DEF T
  <2>2. ss \in Seq(T)
    BY <2>1, SeqMonotonic
  <2>. QED  BY <2>2 DEF T
<1>. HIDE DEF T
<1>2. /\ r \in Seq(T) /\ Len(ss) \in Nat /\ Len(r) = Len(ss) + 1
      /\ \A i \in 1 .. Len(ss) : r[i] = ss[i]
      /\ r[Len(ss) + 1] = c
  BY <1>1
<1>. HIDE DEF r
<1>3. r \in Seq(Range(r))
  BY <1>2, SeqOfRange
<1>4. ASSUME NEW i \in 1 .. Len(r) PROVE CheckpointHolds(r[i], rows, b)
  <2>1. i \in 1 .. Len(ss) \/ i = Len(ss) + 1
    BY <1>2
  <2>. QED  BY <1>2, <2>1 DEF SavedHold
<1>5. SavedHold(r, rows, b)
  BY <1>3, <1>4 DEF SavedHold
<1>. QED  BY <1>5 DEF r

\* Going back to n rows leaves the checkpoints of more rows behind; the others
\* hold what they held.
MarkBehind(ss, n) ==
  [j \in DOMAIN ss |-> [ss[j] EXCEPT !.left = @ \/ ss[j].target.processed > n]]

LEMMA SavedCut ==
  ASSUME NEW ss, NEW rows \in Seq(Token), NEW b \in 0 .. Len(rows),
         NEW n \in b .. Len(rows), SavedHold(ss, rows, b)
  PROVE  SavedHold(MarkBehind(ss, n), SubSeq(rows, 1, n), b)
<1>. DEFINE cut == SubSeq(rows, 1, n)
            r == MarkBehind(ss, n)
<1>1. /\ ss \in Seq(Range(ss)) /\ Len(ss) \in Nat /\ DOMAIN ss = 1 .. Len(ss)
      /\ Len(rows) \in Nat /\ b \in Nat /\ n \in Nat /\ n \in 0 .. Len(rows)
  BY DEF SavedHold
<1>2. cut \in Seq(Token) /\ Len(cut) = n
  BY <1>1, PrefixSeq
<1>3. r \in Seq(Range(r)) /\ Len(r) = Len(ss)
  <2>. DEFINE f(j) == [ss[j] EXCEPT !.left = @ \/ ss[j].target.processed > n]
  <2>1. r = [j \in 1 .. Len(ss) |-> f(j)]
    BY <1>1 DEF MarkBehind
  <2>. HIDE DEF f, r
  <2>2. /\ DOMAIN r = 1 .. Len(ss)
        /\ \A j \in 1 .. Len(ss) : r[j] \in Range(r)
    BY <2>1 DEF Range
  <2>3. r \in [1 .. Len(ss) -> Range(r)]
    BY <2>1, <2>2
  <2>. QED  BY <1>1, <2>3
<1>. HIDE DEF r
<1>4. ASSUME NEW j \in 1 .. Len(r) PROVE CheckpointHolds(r[j], cut, b)
  <2>. DEFINE c == ss[j]
              l == c.left \/ c.target.processed > n
  <2>1. CheckpointHolds(c, rows, b)
    BY <1>3 DEF SavedHold
  <2>2. r[j] = [c EXCEPT !.left = l] /\ l \in BOOLEAN
    BY <1>1, <1>3 DEF r, MarkBehind
  <2>. HIDE DEF c, l
  <2>3. /\ CheckpointRecord(r[j]) /\ r[j].left = l
        /\ r[j].target = c.target /\ r[j].anchor = c.anchor
        /\ r[j].history = c.history /\ r[j].committed = c.committed
    <3>. DEFINE d == r[j]
                t == c.target
                h == c.history
                w == c.committed
                v == c.provisional
                a == c.anchor
                x == c.cancelled
                y == c.left
    <3>1. c = [target |-> t, history |-> h, committed |-> w, provisional |-> v,
               anchor |-> a, cancelled |-> x, left |-> y]
      BY <2>1 DEF CheckpointHolds, CheckpointRecord
    <3>2. d = [c EXCEPT !.left = l]
      BY <2>2
    <3>. HIDE DEF d, t, h, w, v, a, x, y
    <3>3. d = [target |-> t, history |-> h, committed |-> w, provisional |-> v,
               anchor |-> a, cancelled |-> x, left |-> l]
      BY <3>1, <3>2
    <3>4. CheckpointRecord(d) /\ d.left = l
      BY <3>3 DEF CheckpointRecord
    <3>5. d.target = t /\ d.anchor = a /\ d.history = h /\ d.committed = w
      BY <3>3
    <3>. QED  BY <3>4, <3>5 DEF d, t, a, h, w
  <2>4. c.target.processed \in Nat /\ b <= c.target.processed
    BY <2>1 DEF CheckpointHolds, CacheCheckpoints
  <2>5. CASE l
    BY <2>1, <2>2, <2>3, <2>5 DEF CheckpointHolds
  <2>6. CASE ~l
    <3>1. ~c.left /\ c.target.processed <= n
      BY <1>1, <2>4, <2>6 DEF l
    <3>2. c.target.processed \in b .. n
      BY <1>1, <2>4, <3>1
    <3>3. SubSeq(cut, b + 1, c.target.processed) =
            SubSeq(rows, b + 1, c.target.processed)
      BY <1>1, <3>2, MiddleOfPrefix
    <3>. QED  BY <1>2, <2>1, <2>2, <2>3, <3>1, <3>3 DEF CheckpointHolds
  <2>. QED  BY <2>2, <2>5, <2>6
<1>. QED  BY <1>3, <1>4 DEF SavedHold, r

-----------------------------------------------------------------------------
(* The verdict on a block of drafts                                        *)

\* The rows before the block and the anchor, then i - 1 drafts, are the rows
\* before the block and the first i inputs.
LEMMA InputPrefix ==
  ASSUME NEW rows \in Seq(Token), NEW a \in Token, NEW drafts \in Seq(Token),
         NEW i \in 1 .. Len(drafts) + 1
  PROVE  Append(rows, a) \o SubSeq(drafts, 1, i - 1) =
           rows \o SubSeq(<< a >> \o drafts, 1, i)
<1>. DEFINE in == << a >> \o drafts
            p == SubSeq(drafts, 1, i - 1)
            q == SubSeq(in, 1, i)
            l == Append(rows, a)
            x == l \o p
            y == rows \o q
<1>1. Len(drafts) \in Nat /\ Len(rows) \in Nat /\ i \in Nat
  OBVIOUS
<1>2. /\ in \in Seq(Token) /\ Len(in) = Len(drafts) + 1 /\ in[1] = a
      /\ \A k \in 1 .. Len(drafts) : in[k + 1] = drafts[k]
  <2>1. << a >> \in Seq(Token) /\ Len(<< a >>) = 1 /\ << a >>[1] = a
    OBVIOUS
  <2>. DEFINE one == << a >>
  <2>2. one \in Seq(Token) /\ Len(one) = 1 /\ one[1] = a
    BY <2>1
  <2>. HIDE DEF one
  <2>3. /\ one \o drafts \in Seq(Token)
        /\ Len(one \o drafts) = 1 + Len(drafts)
        /\ \A k \in 1 .. 1 + Len(drafts) :
             (one \o drafts)[k] = IF k <= 1 THEN one[k] ELSE drafts[k - 1]
    <3>1. /\ one \o drafts \in Seq(Token)
          /\ Len(one \o drafts) = Len(one) + Len(drafts)
          /\ \A k \in 1 .. Len(one) + Len(drafts) :
               (one \o drafts)[k] =
                 IF k <= Len(one) THEN one[k] ELSE drafts[k - Len(one)]
      BY <2>2, ConcatProperties
    <3>. QED  BY <2>2, <3>1
  <2>4. in = one \o drafts
    BY DEF one
  <2>. HIDE DEF in
  <2>5. Len(in) = Len(drafts) + 1 /\ in[1] = a
    BY <1>1, <2>2, <2>3, <2>4
  <2>6. ASSUME NEW k \in 1 .. Len(drafts) PROVE in[k + 1] = drafts[k]
    <3>1. k + 1 \in 1 .. 1 + Len(drafts) /\ ~ (k + 1 <= 1) /\ (k + 1) - 1 = k
      BY <1>1
    <3>. QED  BY <2>3, <2>4, <3>1
  <2>. QED  BY <2>3, <2>4, <2>5, <2>6
<1>. HIDE DEF in
<1>3. p \in Seq(Token) /\ Len(p) = i - 1 /\ \A k \in 1 .. i - 1 : p[k] = drafts[k]
  <2>1. i - 1 \in 0 .. Len(drafts)
    BY <1>1
  <2>. QED  BY <2>1, PrefixSeq
<1>4. q \in Seq(Token) /\ Len(q) = i /\ \A k \in 1 .. i : q[k] = in[k]
  <2>1. i \in 0 .. Len(in)
    BY <1>1, <1>2
  <2>. QED  BY <1>2, <2>1, PrefixSeq
<1>5. /\ l \in Seq(Token) /\ Len(l) = Len(rows) + 1
      /\ \A k \in 1 .. Len(rows) : l[k] = rows[k]
      /\ l[Len(rows) + 1] = a
  BY AppendProperties
<1>. HIDE DEF p, q, l
<1>6. /\ x \in Seq(Token) /\ Len(x) = Len(rows) + i
      /\ \A k \in 1 .. Len(rows) + i :
           x[k] = IF k <= Len(rows) + 1 THEN l[k] ELSE p[k - (Len(rows) + 1)]
  <2>1. /\ x \in Seq(Token)
        /\ Len(x) = Len(l) + Len(p)
        /\ \A k \in 1 .. Len(l) + Len(p) :
             x[k] = IF k <= Len(l) THEN l[k] ELSE p[k - Len(l)]
    BY <1>3, <1>5, ConcatProperties
  <2>. HIDE DEF x
  <2>2. Len(l) + Len(p) = Len(rows) + i
    BY <1>1, <1>3, <1>5
  <2>. QED  BY <1>5, <2>1, <2>2
<1>7. /\ y \in Seq(Token) /\ Len(y) = Len(rows) + i
      /\ \A k \in 1 .. Len(rows) + i :
           y[k] = IF k <= Len(rows) THEN rows[k] ELSE q[k - Len(rows)]
  BY <1>4, ConcatProperties
<1>. HIDE DEF x, y
<1>8. ASSUME NEW k \in 1 .. Len(rows) + i PROVE x[k] = y[k]
  <2>1. CASE k <= Len(rows)
    BY <1>1, <1>5, <1>6, <1>7, <2>1, SMTT(30)
  <2>2. CASE k = Len(rows) + 1
    <3>1. x[k] = a
      BY <1>1, <1>5, <1>6, <2>2
    <3>2. k - Len(rows) = 1 /\ ~ (k <= Len(rows)) /\ 1 \in 1 .. i
      BY <1>1, <2>2
    <3>. QED  BY <1>2, <1>4, <1>7, <3>1, <3>2
  <2>3. CASE k > Len(rows) + 1
    <3>. DEFINE j == k - Len(rows) - 1
    <3>1. /\ j \in 1 .. i - 1 /\ j \in 1 .. Len(drafts) /\ j + 1 \in 1 .. i
          /\ k - (Len(rows) + 1) = j /\ k - Len(rows) = j + 1
          /\ ~ (k <= Len(rows) + 1) /\ ~ (k <= Len(rows))
      BY <1>1, <2>3
    <3>. HIDE DEF j
    <3>2. x[k] = drafts[j]
      BY <1>3, <1>6, <3>1
    <3>3. y[k] = in[j + 1]
      BY <1>4, <1>7, <3>1
    <3>. QED  BY <1>2, <3>1, <3>2, <3>3
  <2>. QED  BY <1>1, <2>1, <2>2, <2>3
<1>9. x = y
  BY <1>6, <1>7, <1>8, SeqEqual
<1>. QED  BY <1>9 DEF x, y, l, p, q, in

\* The target's choices after each input of a block.
Predictions(rows, in) ==
  [i \in DOMAIN in |-> Greedy(rows \o SubSeq(in, 1, i))]

\* The result r of verifying a block is what greedy decoding would do.
BlockGreedy(r, rows, a, in, cap) ==
  /\ r.retained \in 0 .. Len(in)
  /\ r.next \in Anchors
  /\ r.next # NoToken => r.next = Greedy(rows \o SubSeq(in, 1, r.retained))
  /\ \A i \in DOMAIN r.emitted :
       r.emitted[i] = Greedy(Append(rows, a) \o SubSeq(r.emitted, 1, i - 1))
  /\ Len(r.emitted) <= cap
  /\ \A i \in 1 .. Len(r.emitted) - 1 : r.emitted[i] \notin Eos

LEMMA VerdictGreedy ==
  ASSUME NEW rows \in Seq(Token), NEW a \in Token, NEW drafts \in Seq(Token),
         NEW cap \in Nat, cap # 0,
         Len(rows) + Len(drafts) + 1 <= MaxPositions
  PROVE  BlockGreedy(Verdict(Predictions(rows, << a >> \o drafts), drafts, cap),
                     rows, a, << a >> \o drafts, cap)
<1>. DEFINE in == << a >> \o drafts
            P == Predictions(rows, in)
            D == Len(drafts)
            stops == Stops(P, drafts, cap)
            n == IF stops = {} THEN D ELSE Min(stops)
            rejected == stops # {} /\ P[n] # drafts[n]
            v == Verdict(P, drafts, cap)
<1>1. /\ in \in Seq(Token) /\ Len(in) = D + 1 /\ D \in Nat /\ Len(rows) \in Nat
      /\ DOMAIN in = 1 .. D + 1 /\ DOMAIN drafts = 1 .. D
      /\ \A i \in 1 .. D : drafts[i] \in Token
  <2>1. << a >> \in Seq(Token) /\ Len(<< a >>) = 1
    OBVIOUS
  <2>2. D \in Nat /\ Len(rows) \in Nat /\ DOMAIN drafts = 1 .. D
    OBVIOUS
  <2>3. in \in Seq(Token) /\ Len(in) = 1 + D
    BY <2>1, ConcatProperties
  <2>. HIDE DEF in
  <2>4. DOMAIN in = 1 .. Len(in)
    BY <2>3
  <2>. QED  BY <2>2, <2>3, <2>4
<1>2. ASSUME NEW i \in 1 .. D + 1
      PROVE  /\ P[i] = Greedy(rows \o SubSeq(in, 1, i))
             /\ P[i] = Greedy(Append(rows, a) \o SubSeq(drafts, 1, i - 1))
             /\ P[i] \in Token
  <2>1. P[i] = Greedy(rows \o SubSeq(in, 1, i))
    <3>. HIDE DEF in
    <3>. QED  BY <1>1 DEF Predictions
  <2>2. Append(rows, a) \o SubSeq(drafts, 1, i - 1) = rows \o SubSeq(in, 1, i)
    BY InputPrefix
  <2>. DEFINE q == SubSeq(in, 1, i)
              s == rows \o q
  <2>. HIDE DEF in
  <2>3. q \in Seq(Token) /\ Len(q) = i
    <3>1. i \in 0 .. Len(in)
      BY <1>1
    <3>. QED  BY <1>1, <3>1, PrefixSeq
  <2>. HIDE DEF q
  <2>4. s \in Seq(Token) /\ Len(s) = Len(rows) + i
    BY <2>3
  <2>. HIDE DEF s
  <2>5. s \in BoundedSeq(Token, MaxPositions)
    <3>1. Len(s) \in 0 .. MaxPositions
      BY <1>1, <2>4, SessionAssumption DEF D
    <3>2. s \in [1 .. Len(s) -> Token]
      BY <2>4
    <3>. QED  BY <3>1, <3>2 DEF BoundedSeq, SeqOf
  <2>6. Greedy(s) \in Token
    BY <2>5, DsparkAssumption
  <2>. QED  BY <2>1, <2>2, <2>6 DEF s, q
<1>3. v = [retained |-> IF rejected THEN n ELSE n + 1,
           emitted |-> IF rejected THEN Append(SubSeq(drafts, 1, n - 1), P[n])
                       ELSE SubSeq(drafts, 1, n),
           next |-> IF rejected THEN P[n]
                    ELSE IF stops = {} THEN P[n + 1] ELSE NoToken]
  BY DEF Verdict
<1>4. \A i \in 1 .. D :
        i \in stops <=> P[i] # drafts[i] \/ drafts[i] \in Eos \/ i = cap
  BY <1>1 DEF Stops
<1>5. stops \subseteq 1 .. D
  BY <1>1 DEF Stops
<1>. HIDE DEF in, P, D, stops, v
<1>6. /\ n \in 0 .. D
      /\ stops # {} => n \in stops /\ n \in 1 .. D
      /\ stops = {} => n = D
      /\ \A i \in 1 .. D : i < n => i \notin stops
      /\ stops = {} => \A i \in 1 .. D : i \notin stops
  <2>1. CASE stops = {}
    BY <1>1, <2>1
  <2>2. CASE stops # {}
    <3>1. stops \subseteq Nat
      BY <1>1, <1>5
    <3>2. \E x \in stops : \A y \in stops : x <= y
      BY <2>2, <3>1, LeastNatural
    <3>3. n = CHOOSE x \in stops : \A y \in stops : x <= y
      BY <2>2 DEF Min
    <3>. HIDE DEF n
    <3>4. n \in stops /\ \A y \in stops : n <= y
      BY <3>2, <3>3
    <3>. QED  BY <1>1, <1>5, <2>2, <3>4
  <2>. QED  BY <2>1, <2>2
<1>. HIDE DEF n
<1>7. \A i \in 1 .. D : i \notin stops => P[i] = drafts[i] /\ drafts[i] \notin Eos /\ i # cap
  BY <1>4
<1>8. CASE rejected
  <2>. DEFINE p == SubSeq(drafts, 1, n - 1)
              e == Append(p, P[n])
  <2>1. n \in 1 .. D /\ n \in Nat /\ n - 1 \in 0 .. D /\ n \in 1 .. D + 1
    BY <1>1, <1>6, <1>8
  <2>2. v.retained = n /\ v.emitted = e /\ v.next = P[n]
    <3>. HIDE DEF rejected
    <3>. QED  BY <1>3, <1>8
  <2>. HIDE DEF rejected
  <2>3. p \in Seq(Token) /\ Len(p) = n - 1 /\ \A i \in 1 .. n - 1 : p[i] = drafts[i]
    BY <2>1, PrefixSeq DEF D
  <2>. HIDE DEF p
  <2>4. P[n] \in Token
    BY <1>2, <2>1
  <2>5. /\ e \in Seq(Token) /\ Len(e) = n
        /\ \A i \in 1 .. n - 1 : e[i] = drafts[i]
        /\ e[n] = P[n]
    BY <2>1, <2>3, <2>4, AppendProperties
  <2>. HIDE DEF e
  <2>6. ASSUME NEW i \in 1 .. n
        PROVE  /\ e[i] = P[i]
               /\ SubSeq(e, 1, i - 1) = SubSeq(drafts, 1, i - 1)
    <3>1. e[i] = P[i]
      <4>1. CASE i < n
        <5>1. i \in 1 .. n - 1 /\ i \in 1 .. D
          BY <1>1, <2>1, <4>1
        <5>. QED  BY <1>6, <1>7, <2>5, <4>1, <5>1
      <4>2. CASE i = n
        BY <2>5, <4>2
      <4>. QED  BY <2>1, <4>1, <4>2
    <3>. DEFINE x == SubSeq(e, 1, i - 1)
                y == SubSeq(drafts, 1, i - 1)
    <3>2. i - 1 \in 0 .. n /\ i - 1 \in 0 .. D
      BY <1>1, <2>1
    <3>3. x \in Seq(Token) /\ Len(x) = i - 1 /\ \A k \in 1 .. i - 1 : x[k] = e[k]
      BY <2>5, <3>2, PrefixSeq
    <3>4. y \in Seq(Token) /\ Len(y) = i - 1 /\ \A k \in 1 .. i - 1 : y[k] = drafts[k]
      BY <3>2, PrefixSeq DEF D
    <3>. HIDE DEF x, y
    <3>5. \A k \in 1 .. i - 1 : k \in 1 .. n - 1
      BY <2>1
    <3>6. \A k \in 1 .. Len(x) : x[k] = y[k]
      BY <2>5, <3>3, <3>4, <3>5
    <3>7. x = y
      BY <3>3, <3>4, <3>6, SeqEqual
    <3>. QED  BY <3>1, <3>7 DEF x, y
  <2>7. \A i \in 1 .. n : e[i] = Greedy(Append(rows, a) \o SubSeq(e, 1, i - 1))
    <3>1. \A i \in 1 .. n : i \in 1 .. D + 1
      BY <1>1, <2>1
    <3>. QED  BY <1>2, <2>6, <3>1
  <2>8. n <= cap
    <3>1. cap \in 1 .. n - 1 => FALSE
      BY <1>1, <1>6, <1>7, <2>1
    <3>. QED  BY <2>1, <3>1
  <2>9. \A i \in 1 .. n - 1 : e[i] \notin Eos
    <3>1. \A i \in 1 .. n - 1 : i \in 1 .. D /\ i < n
      BY <1>1, <2>1
    <3>. QED  BY <1>6, <1>7, <2>5, <3>1
  <2>10. P[n] = Greedy(rows \o SubSeq(in, 1, n))
    BY <1>2, <2>1
  <2>11. n \in 0 .. Len(in) /\ DOMAIN e = 1 .. n
    BY <1>1, <2>1, <2>5
  <2>12. BlockGreedy(v, rows, a, in, cap)
    BY <2>2, <2>4, <2>5, <2>7, <2>8, <2>9, <2>10, <2>11 DEF BlockGreedy, Anchors
  <2>. QED  BY <2>12 DEF v, in, P
<1>9. CASE ~ rejected
  <2>. DEFINE e == SubSeq(drafts, 1, n)
  <2>1. n \in 0 .. D /\ n \in Nat /\ n + 1 \in 1 .. D + 1
    BY <1>1, <1>6
  <2>2. /\ v.retained = n + 1 /\ v.emitted = e
        /\ v.next = IF stops = {} THEN P[n + 1] ELSE NoToken
    <3>. HIDE DEF rejected
    <3>. QED  BY <1>3, <1>9
  <2>3. stops # {} => P[n] = drafts[n]
    BY <1>9
  <2>. HIDE DEF rejected
  <2>4. e \in Seq(Token) /\ Len(e) = n /\ \A i \in 1 .. n : e[i] = drafts[i]
    BY <2>1, PrefixSeq DEF D
  <2>5. ASSUME NEW i \in 1 .. n
        PROVE  /\ e[i] = P[i]
               /\ SubSeq(e, 1, i - 1) = SubSeq(drafts, 1, i - 1)
    <3>1. e[i] = P[i]
      <4>1. i \in 1 .. D
        BY <1>1, <2>1
      <4>2. CASE i < n
        BY <1>6, <1>7, <2>4, <4>1, <4>2
      <4>3. CASE i = n
        BY <1>6, <1>7, <2>3, <2>4, <4>1, <4>3
      <4>. QED  BY <2>1, <4>2, <4>3
    <3>2. i - 1 \in 0 .. n /\ n \in 0 .. Len(drafts)
      BY <1>1, <2>1 DEF D
    <3>3. SubSeq(SubSeq(drafts, 1, n), 1, i - 1) = SubSeq(drafts, 1, i - 1)
      BY <3>2, PrefixOfPrefix
    <3>. QED  BY <3>1, <3>3
  <2>. HIDE DEF e
  <2>6. \A i \in 1 .. n : e[i] = Greedy(Append(rows, a) \o SubSeq(e, 1, i - 1))
    <3>1. \A i \in 1 .. n : i \in 1 .. D + 1
      BY <1>1, <2>1
    <3>. QED  BY <1>2, <2>5, <3>1
  <2>7. n <= cap
    <3>1. CASE stops = {}
      <4>1. cap \in 1 .. D => FALSE
        BY <1>6, <1>7, <3>1
      <4>. QED  BY <1>1, <1>6, <3>1, <4>1
    <3>2. CASE stops # {}
      <4>1. cap \in 1 .. n - 1 => FALSE
        BY <1>1, <1>6, <1>7, <2>1
      <4>. QED  BY <2>1, <4>1
    <3>. QED  BY <3>1, <3>2
  <2>8. \A i \in 1 .. n - 1 : e[i] \notin Eos
    <3>1. \A i \in 1 .. n - 1 : i \in 1 .. D /\ i < n /\ i \in 1 .. n
      BY <1>1, <2>1
    <3>. QED  BY <1>6, <1>7, <2>4, <3>1
  <2>9. /\ P[n + 1] = Greedy(rows \o SubSeq(in, 1, n + 1))
        /\ P[n + 1] \in Token
    BY <1>2, <2>1
  <2>10. n + 1 \in 0 .. Len(in) /\ DOMAIN e = 1 .. n
    BY <1>1, <2>1, <2>4
  <2>11. /\ v.next \in Anchors
         /\ v.next # NoToken => v.next = Greedy(rows \o SubSeq(in, 1, v.retained))
    BY <2>2, <2>9 DEF Anchors
  <2>12. BlockGreedy(v, rows, a, in, cap)
    BY <2>2, <2>4, <2>6, <2>7, <2>8, <2>10, <2>11 DEF BlockGreedy
  <2>. QED  BY <2>12 DEF v, in, P
<1>. QED  BY <1>8, <1>9

-----------------------------------------------------------------------------
(* DsparkInv is inductive                                                  *)

LEMMA DsparkInvInit ==
  DsparkInit => DsparkInv
<1>. SUFFICES ASSUME DsparkInit PROVE DsparkInv
  OBVIOUS
<1>0. << >> \in Seq(Token) /\ Len(<< >>) = 0
  OBVIOUS
<1>1. target \in Sessions /\ DeviceCoherent(target)
  <2>1. NewSession \in Sessions /\ NewSession.rows = << >> /\ NewSession.gpu = << >>
    BY <1>0 DEF NewSession, Sessions
  <2>2. DeviceCoherent(NewSession)
    BY <2>1 DEF DeviceCoherent
  <2>3. CASE target = NewSession
    BY <2>1, <2>2, <2>3
  <2>4. CASE \E p \in DsparkPrompts : target \in Forwarded(NewSession, p, FALSE)
    <3>1. PICK p \in DsparkPrompts : target \in Forwarded(NewSession, p, FALSE)
      BY <2>4
    <3>2. p \in Seq(Token)
      BY DsparkAssumption
    <3>3. Extends(target, NewSession, p)
      BY <2>1, <3>1, <3>2, ForwardedExtends
    <3>. QED  BY <2>2, <3>3 DEF Extends
  <2>5. \/ target = NewSession
        \/ \E p \in DsparkPrompts : target \in Forwarded(NewSession, p, FALSE)
    BY DEF DsparkInit
  <2>. QED  BY <2>3, <2>4, <2>5
<1>2. ASSUME NEW n \in Nat PROVE LastN(n, << >>) = << >>
  <2>1. /\ LastN(n, << >>) \in Seq(Token)
        /\ Len(LastN(n, << >>)) = IF Len(<< >>) > n THEN n ELSE Len(<< >>)
    BY <1>0, LastNProperties
  <2>2. Len(LastN(n, << >>)) = 0
    BY <1>0, <2>1
  <2>. QED  BY <2>1, <2>2
<1>3. HistoryCapacity \in Nat /\ BlockWidth + 1 \in Nat
  BY DsparkAssumption
<1>4. MirrorsFollowCache /\ base \in 0 .. Len(target.rows) /\ astray \in BOOLEAN
  <2>1. base = Len(target.rows) /\ Len(target.rows) \in Nat /\ astray = FALSE
    BY <1>1 DEF DsparkInit, Sessions
  <2>2. SubSeq(target.rows, base + 1, Len(target.rows)) = << >>
    <3>1. base + 1 \in Int /\ Len(target.rows) \in Int /\ Len(target.rows) < base + 1
      BY <2>1
    <3>. QED  BY <3>1, SubSeqEmpty
  <2>3. MirrorsFollowCache
    <3>1. LastN(HistoryCapacity, << >>) = << >> /\ LastN(BlockWidth + 1, << >>) = << >>
      BY <1>2, <1>3
    <3>2. targetHistory = << >> /\ committed = << >>
      BY DEF DsparkInit
    <3>. QED  BY <1>1, <2>2, <3>1, <3>2 DEF MirrorsFollowCache
  <2>4. astray \in BOOLEAN
    BY <2>1
  <2>5. base \in 0 .. Len(target.rows)
    BY <2>1
  <2>. QED  BY <2>3, <2>4, <2>5
<1>5. SavedHold(saved, target.rows, base)
  <2>1. saved = << >> /\ Len(saved) = 0 /\ saved \in Seq(Range(saved))
    BY DEF DsparkInit
  <2>. QED  BY <2>1 DEF SavedHold
<1>6. VerifiedIsGreedy
  BY DEF DsparkInit, VerifiedIsGreedy
<1>7. anchor \in Anchors
  BY DEF DsparkInit, Anchors
<1>. QED  BY <1>1, <1>4, <1>5, <1>6, <1>7 DEF DsparkInv

LEMMA PrefillStep ==
  ASSUME DsparkInv, NEW p \in DsparkPrompts, NEW tapped \in BOOLEAN,
         Prefill(p, tapped)
  PROVE  DsparkInv'
<1>1. p \in Seq(Token) /\ p # << >>
  BY DsparkAssumption
<1>2. target \in Sessions /\ target.rows \in Seq(Token)
  BY DEF DsparkInv, Sessions
<1>3. Extends(target', target, p)
  <2>1. target' \in Forwarded(target, p, tapped)
    BY DEF Prefill
  <2>. QED  BY <1>1, <1>2, <2>1, ForwardedExtends
<1>4. target' \in Sessions /\ target'.rows = target.rows \o p
  BY <1>3 DEF Extends
<1>5. DeviceCoherent(target')
  BY <1>3 DEF Extends, DsparkInv, MirrorsFollowCache
<1>6. CommitInputs(p) /\ base' = base /\ astray' = astray /\ saved' = saved
  BY DEF Prefill, branch
<1>7. MirrorsFollowCache' /\ base' \in 0 .. Len(target'.rows)
  BY <1>1, <1>4, <1>5, <1>6, MirrorsGrow
<1>8. SavedHold(saved', target'.rows, base') /\ astray' \in BOOLEAN
  <2>1. SavedHold(saved, target.rows \o p, base)
    BY <1>1, <1>2, SavedExtend DEF DsparkInv
  <2>. QED  BY <1>4, <1>6, <2>1 DEF DsparkInv
<1>9. VerifiedIsGreedy'
  BY DEF Prefill, VerifiedIsGreedy
<1>10. anchor' \in Anchors
  <2>1. Last(p) \in Token
    BY <1>1 DEF Last
  <2>. QED  BY <2>1 DEF Prefill, Anchors
<1>. QED  BY <1>4, <1>7, <1>8, <1>9, <1>10 DEF DsparkInv

\* The block is evaluated, the session rewound, and what is retained
\* replayed: the cache has grown by exactly the retained inputs.
LEMMA VerifyStep ==
  ASSUME DsparkInv, NEW drafts \in Blocks, NEW cap \in Caps, Verify(drafts, cap)
  PROVE  DsparkInv'
<1>. DEFINE in == << anchor >> \o drafts
            rows == target.rows
            r == IF cap = 0
                 THEN [retained |-> 0, emitted |-> << >>, next |-> NoToken]
                 ELSE Verdict(Predictions(rows, in), drafts, cap)
            kept == SubSeq(in, 1, r.retained)
<1>1. anchor \in Token /\ drafts \in Seq(Token) /\ cap \in Nat
  <2>1. anchor \in Token
    BY DEF DsparkInv, Anchors, Verify
  <2>2. drafts \in Seq(Token)
    <3>1. PICK m \in 0 .. BlockWidth : drafts \in [1 .. m -> Token]
      BY DEF Blocks, BoundedSeq, SeqOf
    <3>2. m \in Nat
      BY <3>1, DsparkAssumption
    <3>. QED  BY <3>1, <3>2
  <2>. QED  BY <2>1, <2>2, DsparkAssumption
<1>2. target \in Sessions /\ rows \in Seq(Token) /\ Len(rows) \in Nat
  BY DEF DsparkInv, Sessions
<1>3. in \in Seq(Token) /\ Len(in) = Len(drafts) + 1 /\ Len(drafts) \in Nat
  <2>1. << anchor >> \in Seq(Token) /\ Len(<< anchor >>) = 1
    BY <1>1
  <2>2. in \in Seq(Token) /\ Len(in) = 1 + Len(drafts)
    BY <1>1, <2>1, ConcatProperties
  <2>3. Len(drafts) \in Nat
    BY <1>1
  <2>. HIDE DEF in
  <2>. QED  BY <2>2, <2>3
<1>4. /\ \E evaluated \in Forwarded(target, in, TRUE) :
           LET back == Rewound(evaluated, Checkpoint(target))
           IN  target' \in IF kept = << >> THEN {back}
                           ELSE Forwarded(back, kept, FALSE)
      /\ CommitInputs(kept)
      /\ anchor' = r.next
      /\ block' = [before |-> Append(rows, anchor), cap |-> cap,
                   emitted |-> r.emitted]
      /\ saved' = saved /\ base' = base /\ astray' = astray
      /\ ~ Exceeds(target, in)
  BY DEF Verify, Predictions, branch
<1>5. BlockGreedy(r, rows, anchor, in, cap)
  <2>1. CASE cap = 0
    <3>1. r.retained = 0 /\ r.emitted = << >> /\ r.next = NoToken
      BY <2>1
    <3>. HIDE DEF r, in
    <3>2. 0 \in 0 .. Len(in) /\ Len(<< >>) <= cap /\ DOMAIN << >> = {}
          /\ Len(<< >>) = 0
      BY <1>1, <1>3
    <3>. QED  BY <3>1, <3>2 DEF BlockGreedy, Anchors
  <2>2. CASE cap # 0
    <3>1. Len(rows) + Len(drafts) + 1 <= MaxPositions
      <4>1. ~ (Len(rows) + Len(in) > MaxPositions)
        BY <1>4 DEF Exceeds
      <4>2. MaxPositions \in Nat
        BY SessionAssumption
      <4>3. Len(in) = Len(drafts) + 1 /\ Len(drafts) \in Nat
        BY <1>3
      <4>4. Len(rows) \in Nat
        BY <1>2
      <4>. HIDE DEF in, rows
      <4>. QED  BY ONLY <4>1, <4>2, <4>3, <4>4
    <3>2. BlockGreedy(Verdict(Predictions(rows, << anchor >> \o drafts), drafts, cap),
                      rows, anchor, << anchor >> \o drafts, cap)
      BY <1>1, <1>2, <2>2, <3>1, VerdictGreedy
    <3>. QED  BY <2>2, <3>2
  <2>. QED  BY <2>1, <2>2
<1>. HIDE DEF in, r
<1>6. kept \in Seq(Token) /\ r.retained \in 0 .. Len(in)
  <2>1. r.retained \in 0 .. Len(in)
    BY <1>5 DEF BlockGreedy
  <2>. QED  BY <1>3, <2>1, PrefixSeq
<1>. HIDE DEF kept
<1>7. PICK evaluated \in Forwarded(target, in, TRUE) :
        target' \in IF kept = << >> THEN {Rewound(evaluated, Checkpoint(target))}
                    ELSE Forwarded(Rewound(evaluated, Checkpoint(target)), kept, FALSE)
  BY <1>4
<1>. DEFINE back == Rewound(evaluated, Checkpoint(target))
<1>8. back \in Sessions /\ back.rows = rows /\ DeviceCoherent(back)
  <2>1. Extends(evaluated, target, in)
    BY <1>2, <1>3, ForwardedExtends
  <2>2. evaluated \in Sessions /\ evaluated.rows = rows \o in
    BY <2>1 DEF Extends
  <2>3. /\ Checkpoint(target) \in CacheCheckpoints
        /\ Checkpoint(target).processed = Len(rows)
    BY <1>2 DEF Checkpoint, CacheCheckpoints, Sessions
  <2>4. Len(rows) \in 0 .. Len(rows \o in) /\ Len(rows \o in) \in Nat
    BY <1>2, <1>3
  <2>5. Checkpoint(target).processed <= Len(evaluated.rows)
    BY <1>2, <2>2, <2>3, <2>4
  <2>6. /\ Restored(evaluated, Checkpoint(target)) \in Sessions
        /\ Restored(evaluated, Checkpoint(target)).rows =
             SubSeq(evaluated.rows, 1, Checkpoint(target).processed)
        /\ DeviceCoherent(Restored(evaluated, Checkpoint(target)))
    BY <2>2, <2>3, <2>5, RestoredSession
  <2>7. SubSeq(rows \o in, 1, Len(rows)) = rows
    <3>1. Len(rows) \in 0 .. Len(rows)
      BY <1>2
    <3>2. SubSeq(rows \o in, 1, Len(rows)) = SubSeq(rows, 1, Len(rows))
      BY <1>2, <1>3, <3>1, PrefixOfConcat
    <3>3. SubSeq(rows, 1, Len(rows)) = rows
      BY <1>2, SubSeqFull
    <3>. QED  BY <3>2, <3>3
  <2>. QED  BY <2>2, <2>3, <2>6, <2>7 DEF Rewound
<1>. HIDE DEF back
<1>9. /\ target' \in Sessions /\ target'.rows = rows \o kept
      /\ DeviceCoherent(target')
  <2>1. CASE kept = << >>
    <3>1. target' = back
      BY <1>7, <2>1 DEF back
    <3>2. rows \o << >> = rows
      BY <1>2, ConcatEmptySeq
    <3>. QED  BY <1>8, <2>1, <3>1, <3>2
  <2>2. CASE kept # << >>
    <3>1. target' \in Forwarded(back, kept, FALSE)
      BY <1>7, <2>2 DEF back
    <3>2. Extends(target', back, kept)
      BY <1>6, <1>8, <3>1, ForwardedExtends
    <3>. QED  BY <1>8, <3>2 DEF Extends
  <2>. QED  BY <2>1, <2>2
<1>10. MirrorsFollowCache' /\ base' \in 0 .. Len(target'.rows)
  BY <1>4, <1>6, <1>9, MirrorsGrow
<1>11. SavedHold(saved', target'.rows, base') /\ astray' \in BOOLEAN
  <2>1. SavedHold(saved, rows \o kept, base)
    BY <1>2, <1>6, SavedExtend DEF DsparkInv
  <2>. QED  BY <1>4, <1>9, <2>1 DEF DsparkInv
<1>12. anchor' \in Anchors
  BY <1>4, <1>5 DEF BlockGreedy
<1>13. VerifiedIsGreedy'
  <2>1. /\ block'.emitted = r.emitted /\ block'.cap = cap
        /\ block'.before = Append(rows, anchor)
    BY <1>4
  <2>2. anchor' # NoToken => anchor' = Greedy(target'.rows)
    BY <1>4, <1>5, <1>9 DEF BlockGreedy, kept
  <2>3. /\ \A i \in DOMAIN r.emitted :
             r.emitted[i] = Greedy(Append(rows, anchor) \o SubSeq(r.emitted, 1, i - 1))
        /\ Len(r.emitted) <= cap
        /\ \A i \in 1 .. Len(r.emitted) - 1 : r.emitted[i] \notin Eos
    BY <1>5 DEF BlockGreedy
  <2>. QED  BY <2>1, <2>2, <2>3 DEF VerifiedIsGreedy
<1>. QED  BY <1>9, <1>10, <1>11, <1>12, <1>13 DEF DsparkInv

LEMMA SaveStep ==
  ASSUME DsparkInv, Save
  PROVE  DsparkInv'
<1>. DEFINE c == SessionCheckpoint
<1>1. target \in Sessions /\ target.rows \in Seq(Token) /\ Len(target.rows) \in Nat
  BY DEF DsparkInv, Sessions
<1>2. /\ CheckpointRecord(c)
      /\ c.target = Checkpoint(target) /\ c.left = astray
      /\ c.history = targetHistory /\ c.committed = committed /\ c.anchor = anchor
  BY DEF SessionCheckpoint, CheckpointRecord
<1>3. /\ c.target \in CacheCheckpoints
      /\ c.target.processed = Len(target.rows)
  <2>1. Checkpoint(target) \in CacheCheckpoints
    BY <1>1 DEF Checkpoint, CacheCheckpoints, Sessions
  <2>2. Checkpoint(target).processed = Len(target.rows)
    BY DEF Checkpoint
  <2>. QED  BY <1>2, <2>1, <2>2
<1>. HIDE DEF c
<1>4. base <= c.target.processed /\ c.target.processed <= Len(target.rows)
  BY <1>1, <1>3 DEF DsparkInv
<1>5. CheckpointHolds(c, target.rows, base)
  <2>1. ~astray => Mirrors(c.history, c.committed,
                           SubSeq(target.rows, base + 1, c.target.processed))
    BY <1>2, <1>3 DEF DsparkInv, MirrorsFollowCache, Mirrors
  <2>. QED  BY <1>2, <1>3, <1>4, <2>1 DEF CheckpointHolds, DsparkInv
<1>6. SavedHold(Append(saved, c), target.rows, base)
  BY <1>5, SavedAppend DEF DsparkInv
<1>7. SavedHold(saved', target'.rows, base')
  BY <1>6 DEF Save, c, branch
<1>. QED  BY <1>7 DEF DsparkInv, Save, MirrorsFollowCache, VerifiedIsGreedy, mirrors, branch

LEMMA RestoreStep ==
  ASSUME DsparkInv, NEW i \in DOMAIN saved, Restore(i)
  PROVE  DsparkInv'
<1>. DEFINE c == saved[i]
            rows == target.rows
<1>1. target \in Sessions /\ rows \in Seq(Token) /\ Len(rows) \in Nat
  BY DEF DsparkInv, Sessions
<1>2. /\ saved \in Seq(Range(saved)) /\ SavedHold(saved, rows, base)
      /\ base \in 0 .. Len(rows) /\ base \in Nat
  BY <1>1 DEF DsparkInv, SavedHold
<1>3. i \in 1 .. Len(saved) /\ Len(saved) \in Nat
  BY <1>2
<1>4. CheckpointHolds(c, rows, base)
  BY <1>2, <1>3 DEF SavedHold
<1>5. /\ c.target \in CacheCheckpoints /\ c.target.processed \in Nat
      /\ c.anchor \in Anchors /\ c.left \in BOOLEAN
      /\ base <= c.target.processed
      /\ ~c.left => Mirrors(c.history, c.committed,
                            SubSeq(rows, base + 1, c.target.processed))
  BY <1>4 DEF CheckpointHolds, CacheCheckpoints
<1>6. block' = NoBlock /\ base' = base
  BY DEF Restore
<1>8. VerifiedIsGreedy'
  BY <1>6 DEF VerifiedIsGreedy
<1>9. CASE Known(target, c.target)
  <2>1. /\ target' = Restored(target, c.target)
        /\ targetHistory' = c.history /\ committed' = c.committed
        /\ anchor' = c.anchor /\ astray' = c.left
        /\ saved' = MarkBehind(saved, c.target.processed)
    BY <1>9 DEF Restore, MarkBehind
  <2>. HIDE DEF c
  <2>2. c.target.processed \in base .. Len(rows)
    BY <1>1, <1>2, <1>5, <1>9 DEF Known, Checkpoint
  <2>. DEFINE n == c.target.processed
  <2>3. /\ n \in 0 .. Len(rows) /\ n <= Len(rows) /\ n \in base .. n
        /\ base \in 0 .. n
    BY <1>1, <1>2, <1>5, <2>2
  <2>4. /\ target' \in Sessions
        /\ target'.rows = SubSeq(rows, 1, n)
        /\ DeviceCoherent(target')
    BY <1>1, <1>5, <2>1, <2>3, RestoredSession
  <2>5. Len(target'.rows) = n
    BY <1>1, <2>3, <2>4, PrefixSeq
  <2>6. SubSeq(target'.rows, base' + 1, Len(target'.rows)) = SubSeq(rows, base + 1, n)
    <3>1. SubSeq(SubSeq(rows, 1, n), base + 1, n) = SubSeq(rows, base + 1, n)
      BY <1>1, <1>2, <2>3, MiddleOfPrefix
    <3>. QED  BY <1>6, <2>4, <2>5, <3>1
  <2>7. MirrorsFollowCache'
    <3>. HIDE DEF n, rows
    <3>1. ~astray' => Mirrors(targetHistory', committed', SubSeq(rows, base + 1, n))
      BY <1>5, <2>1 DEF n
    <3>. QED  BY <2>4, <2>6, <3>1 DEF MirrorsFollowCache, Mirrors
  <2>8. SavedHold(saved', target'.rows, base')
    BY <1>1, <1>2, <1>6, <2>1, <2>2, <2>4, SavedCut
  <2>. QED  BY <1>5, <1>6, <1>8, <2>1, <2>3, <2>4, <2>5, <2>7, <2>8 DEF DsparkInv
<1>10. CASE ~Known(target, c.target)
  <2>0. /\ target' = DropDevice(target)
        /\ targetHistory' = targetHistory /\ committed' = committed
        /\ anchor' = anchor /\ saved' = saved /\ astray' = astray
    BY <1>10 DEF Restore, mirrors
  <2>1. target' \in Sessions /\ target'.rows = rows /\ target'.gpu = << >>
    <3>1. target = [rows |-> rows, gen |-> target.gen, hist |-> target.hist,
                    gpu |-> target.gpu]
      BY <1>1 DEF Sessions
    <3>2. target' = [rows |-> rows, gen |-> target.gen, hist |-> target.hist,
                     gpu |-> << >>]
      BY <2>0, <3>1 DEF DropDevice
    <3>. QED  BY <1>1, <3>2 DEF Sessions
  <2>2. DeviceCoherent(target')
    BY <1>1, <2>1 DEF DeviceCoherent
  <2>3. MirrorsFollowCache'
    BY <1>6, <2>0, <2>1, <2>2 DEF MirrorsFollowCache, DsparkInv
  <2>4. SavedHold(saved', target'.rows, base')
    BY <1>2, <1>6, <2>0, <2>1
  <2>5. anchor' \in Anchors /\ astray' \in BOOLEAN
    BY <2>0 DEF DsparkInv
  <2>. QED  BY <1>2, <1>6, <1>8, <2>1, <2>3, <2>4, <2>5 DEF DsparkInv
<1>. QED  BY <1>9, <1>10

\* Steps that leave the cache, its mirrors and the anchor alone.
LEMMA DsparkIdle ==
  ASSUME DsparkInv,
         UNCHANGED << target, targetHistory, committed, anchor, saved, block,
                      base, astray >>
  PROVE  DsparkInv'
BY DEF DsparkInv, MirrorsFollowCache, VerifiedIsGreedy

LEMMA DsparkInvStep ==
  DsparkInv /\ [DsparkNext]_dsparkVars => DsparkInv'
<1>. SUFFICES ASSUME DsparkInv, [DsparkNext]_dsparkVars PROVE DsparkInv'
  OBVIOUS
<1>1. CASE \E p \in DsparkPrompts, tapped \in BOOLEAN : Prefill(p, tapped)
  BY <1>1, PrefillStep
<1>2. CASE \E n \in DraftCounts : Propose(n)
  <2>1. PICK n \in DraftCounts : Propose(n)
    BY <1>2
  <2>. QED  BY <2>1, DsparkIdle DEF Propose, mirrors, branch
<1>3. CASE VerifyCancelled
  BY <1>3, DsparkIdle DEF VerifyCancelled, mirrors, branch
<1>4. CASE \E d \in Blocks, cap \in Caps : Verify(d, cap)
  BY <1>4, VerifyStep
<1>5. CASE SetCancelled
  BY <1>5, DsparkIdle DEF SetCancelled, mirrors, branch
<1>6. CASE Save
  BY <1>6, SaveStep
<1>7. CASE \E i \in DOMAIN saved : Restore(i)
  BY <1>7, RestoreStep
<1>8. CASE UNCHANGED dsparkVars
  BY <1>8, DsparkIdle DEF dsparkVars, mirrors, branch
<1>. QED  BY <1>1, <1>2, <1>3, <1>4, <1>5, <1>6, <1>7, <1>8 DEF DsparkNext

\* Dspark's inductive invariant holds in every reachable state.
THEOREM DsparkInductive == DsparkSpec => []DsparkInv
<1>1. DsparkInit => DsparkInv
  BY DsparkInvInit
<1>2. DsparkInv /\ [DsparkNext]_dsparkVars => DsparkInv'
  BY DsparkInvStep
<1>. QED  BY <1>1, <1>2, PTL DEF DsparkSpec

\* Whatever was drafted, rejected or cancelled, and whichever checkpoint was
\* restored or refused, target_history and the drafter's window are the last of
\* the rows the target's cache has taken from the session, unless a checkpoint
\* the session had left was restored; and the device is coherent with the cache
\* (dspark/model.rs, verify_block, prefill, restore; kv.rs, restore).
THEOREM MirrorsFollow == DsparkSpec => []MirrorsFollowCache
<1>1. DsparkInv => MirrorsFollowCache
  BY DEF DsparkInv
<1>. QED  BY <1>1, DsparkInductive, PTL

\* A verified block emits what greedy decoding one token at a time would,
\* within its cap and not beyond an EOS, whatever the target's model and the
\* drafts are (dspark/verify.rs, verify_greedy_with_options).
THEOREM BlocksAreGreedy == DsparkSpec => []VerifiedIsGreedy
<1>1. DsparkInv => VerifiedIsGreedy
  BY DEF DsparkInv
<1>. QED  BY <1>1, DsparkInductive, PTL

-----------------------------------------------------------------------------
(* The inductive invariant of DenseEngine                                  *)

\* The recency order of a cache lists exactly the keys it has an entry for,
\* each once, and the total is the sum of their sizes.
CacheBooks(c) ==
  /\ c = [lru |-> c.lru, value |-> c.value, total |-> c.total]
  /\ Keys(c) \subseteq Prompts
  /\ c.lru \in Seq(Prompts) /\ NoDuplicates(c.lru)
  /\ \A k \in Prompts : Queued(c.lru, k) <=> k \in Keys(c)
  /\ c.total = SumBytes(Keys(c))

Snapshots == [rows : Seq(Token), gen : Nat]

\* A snapshot in RAM is one of the rows of its key, and so are its logits.
RamHolds(c) ==
  \A k \in Keys(c) : /\ c.value[k].state \in Snapshots
                     /\ c.value[k].state.rows = k
                     /\ c.value[k].logits = k

FileKeys(fs) == {f.key : f \in fs}

\* A file holds the rows of its key; damage shows in its form.
FilesHold(fs) ==
  \A f \in fs : /\ f \in [key : Prompts, state : Snapshots,
                          form : {"whole", "truncated", "corrupt"}]
                /\ f.state.rows = f.key

\* What the session and the locals of the request hold where it is.
RequestHolds ==
  /\ pc \in {"idle", "ram", "read", "prefill", "evict", "write", "decode", "down",
             "rebuild"}
  /\ pc \in {"idle", "down", "rebuild"} \/ prompt \in Prompts
  /\ pc = "decode" \/ said = << >>
  /\ pc = "read" => candidate \in Prompts /\ IsPrefix(candidate, Front(prompt))
  /\ pc = "prefill" => /\ fed \in 0 .. Len(prompt)
                       /\ session.rows = SubSeq(prompt, 1, fed)
                       /\ fed = Len(prompt) => logits = prompt
  /\ pc \in {"evict", "write"} => session.rows = prompt /\ logits = prompt
  /\ pc = "decode" => /\ said \in Seq(Token)
                      /\ session.rows = prompt \o said
                      /\ logits = session.rows

\* How the directory and the index differ while a store or a rebuild is under
\* way, as long as the file system has not failed and there is a store.
DirectoryFollows ==
  /\ faults \in Nat /\ doomed \subseteq Prompts /\ unread \subseteq Prompts
  /\ pc = "down" => index = NoEntries /\ doomed = {}
  /\ pc = "write" => doomed = {}
  /\ faults = 0 => \A f \in files : f.form = "whole"
  /\ faults = 0 /\ budget > 0 =>
       /\ pc \notin {"evict", "write", "down", "rebuild"} =>
            FileKeys(files) = Keys(index)
       /\ pc \in {"evict", "write"} =>
            /\ FileKeys(files) \cup {prompt} = Keys(index) \cup doomed
            /\ doomed \cap Keys(index) = {} /\ prompt \notin doomed
       /\ pc = "rebuild" =>
            /\ FileKeys(files) = Keys(index) \cup unread \cup doomed
            /\ Keys(index) \cap (unread \cup doomed) = {}
            /\ unread \cap doomed = {}

SessionSound == session \in Sessions /\ GpuFollows(session)
RamSound == CacheBooks(ram) /\ RamHolds(ram) /\ ram.total <= RamBudget
IndexSound == CacheBooks(index) /\ budget \in SsdBudgets /\ index.total <= budget

EngineInv ==
  /\ SessionSound
  /\ RamSound
  /\ IndexSound
  /\ FilesHold(files)
  /\ RequestHolds
  /\ DirectoryFollows
-----------------------------------------------------------------------------
(* Both caches                                                             *)

LEMMA SumBytesType ==
  ASSUME NEW S \in SUBSET Prompts
  PROVE  SumBytes(S) \in Nat
<1>1. IsFiniteSet(Prompts) /\ [p \in Prompts |-> Bytes(p)] \in [Prompts -> Nat]
  BY EngineAssumption
<1>. QED  BY <1>1, TallyType DEF SumBytes

LEMMA SumBytesOne ==
  ASSUME NEW k \in Prompts
  PROVE  SumBytes({k}) = Bytes(k) /\ Bytes(k) \in Nat
<1>. DEFINE b == [p \in Prompts |-> Bytes(p)]
<1>1. IsFiniteSet(Prompts) /\ b \in [Prompts -> Nat] /\ Bytes(k) \in Nat
  BY EngineAssumption
<1>2. b[k] = Bytes(k)
  OBVIOUS
<1>. HIDE DEF b
<1>3. Tally(b, {k}) = b[k]
  BY <1>1, TallyOne
<1>. QED  BY <1>1, <1>2, <1>3 DEF SumBytes, b

LEMMA SumBytesSplit ==
  ASSUME NEW S \in SUBSET Prompts, NEW T \in SUBSET S
  PROVE  SumBytes(S) = SumBytes(S \ T) + SumBytes(T)
<1>. DEFINE b == [p \in Prompts |-> Bytes(p)]
            R == S \ T
<1>1. IsFiniteSet(Prompts) /\ b \in [Prompts -> Nat]
  BY EngineAssumption
<1>2. R \in SUBSET Prompts /\ T \in SUBSET Prompts /\ R \cap T = {} /\ R \cup T = S
  OBVIOUS
<1>. HIDE DEF b, R
<1>3. Tally(b, R \cup T) = Tally(b, R) + Tally(b, T)
  BY <1>1, <1>2, TallyJoin
<1>. QED  BY <1>2, <1>3 DEF SumBytes, b, R

\* What is left of a queue without its n oldest elements.
LEMMA SuffixQueue ==
  ASSUME NEW S, NEW q \in Seq(S), NoDuplicates(q), NEW n \in 0 .. Len(q)
  PROVE  /\ SubSeq(q, n + 1, Len(q)) \in Seq(S)
         /\ NoDuplicates(SubSeq(q, n + 1, Len(q)))
         /\ \A x \in S : Queued(SubSeq(q, n + 1, Len(q)), x)
                           <=> Queued(q, x) /\ x \notin {q[i] : i \in 1 .. n}
<1>. DEFINE l == Len(q)
            s == SubSeq(q, n + 1, l)
<1>1. l \in Nat /\ n \in Nat /\ n <= l /\ n + 1 \in Int /\ l \in Int
  OBVIOUS
<1>2. \A i \in n + 1 .. l : q[i] \in S
  <2>1. \A i \in n + 1 .. l : i \in 1 .. Len(q)
    BY <1>1
  <2>. QED  BY <2>1
<1>3. /\ s \in Seq(S)
      /\ Len(s) = IF n + 1 <= l THEN l - (n + 1) + 1 ELSE 0
      /\ \A i \in 1 .. l - (n + 1) + 1 : s[i] = q[n + 1 + i - 1]
  BY <1>1, <1>2, SubSeqProperties
<1>. HIDE DEF s
<1>4. Len(s) = l - n /\ \A i \in 1 .. l - n : s[i] = q[n + i]
  <2>1. Len(s) = l - n /\ l - (n + 1) + 1 = l - n
    BY <1>1, <1>3
  <2>2. \A i \in 1 .. l - n : n + 1 + i - 1 = n + i
    BY <1>1
  <2>. QED  BY <1>3, <2>1, <2>2
<1>5. \A i, j \in 1 .. l : q[i] = q[j] => i = j
  BY DEF NoDuplicates
<1>. HIDE DEF l
<1>6. NoDuplicates(s)
  <2>. SUFFICES ASSUME NEW i \in 1 .. Len(s), NEW j \in 1 .. Len(s), s[i] = s[j]
                PROVE  i = j
    BY DEF NoDuplicates
  <2>1. i \in 1 .. l - n /\ j \in 1 .. l - n
    BY <1>4
  <2>2. n + i \in 1 .. l /\ n + j \in 1 .. l /\ q[n + i] = q[n + j]
    BY <1>1, <1>4, <2>1
  <2>3. n + i = n + j
    BY <1>5, <2>2
  <2>. QED  BY <1>1, <2>1, <2>3
<1>7. ASSUME NEW x \in S
      PROVE  Queued(s, x) <=> Queued(q, x) /\ x \notin {q[i] : i \in 1 .. n}
  <2>1. ASSUME Queued(s, x)
        PROVE  Queued(q, x) /\ x \notin {q[i] : i \in 1 .. n}
    <3>1. PICK i \in 1 .. Len(s) : s[i] = x
      BY <2>1 DEF Queued
    <3>2. i \in 1 .. l - n
      BY <1>4, <3>1
    <3>3. n + i \in 1 .. l /\ q[n + i] = x /\ n + i > n
      BY <1>1, <1>4, <3>1, <3>2
    <3>4. \A j \in 1 .. n : q[j] # x
      <4>1. \A j \in 1 .. n : j \in 1 .. l /\ j # n + i
        BY <1>1, <3>3
      <4>. QED  BY <1>5, <3>3, <4>1
    <3>. QED  BY <3>3, <3>4 DEF Queued, l
  <2>2. ASSUME Queued(q, x), x \notin {q[i] : i \in 1 .. n}
        PROVE  Queued(s, x)
    <3>1. PICK i \in 1 .. l : q[i] = x
      BY <2>2 DEF Queued, l
    <3>2. ~ (i \in 1 .. n)
      BY <2>2, <3>1
    <3>3. i - n \in 1 .. l - n /\ n + (i - n) = i
      BY <1>1, <3>1, <3>2
    <3>4. s[i - n] = x
      BY <1>4, <3>1, <3>3
    <3>. QED  BY <1>4, <3>3, <3>4 DEF Queued
  <2>. QED  BY <2>1, <2>2
<1>. QED  BY <1>3, <1>6, <1>7 DEF s, l

LEMMA NoEntriesBooks ==
  CacheBooks(NoEntries) /\ Keys(NoEntries) = {} /\ NoEntries.total = 0
<1>1. /\ NoEntries.lru = << >> /\ NoEntries.value = << >> /\ NoEntries.total = 0
      /\ NoEntries = [lru |-> NoEntries.lru, value |-> NoEntries.value,
                      total |-> NoEntries.total]
  BY DEF NoEntries
<1>2. Keys(NoEntries) = {}
  BY <1>1 DEF Keys
<1>3. SumBytes({}) = 0
  BY TallyNone DEF SumBytes
<1>4. << >> \in Seq(Prompts) /\ Len(<< >>) = 0
  OBVIOUS
<1>. HIDE DEF NoEntries
<1>. QED  BY <1>1, <1>2, <1>3, <1>4 DEF CacheBooks, NoDuplicates, Queued

\* remove
LEMMA DropBooks ==
  ASSUME NEW c, CacheBooks(c), NEW k \in Prompts
  PROVE  /\ CacheBooks(Drop(c, k))
         /\ Keys(Drop(c, k)) = Keys(c) \ {k}
         /\ Drop(c, k).total <= c.total
         /\ \A j \in Keys(c) \ {k} : Drop(c, k).value[j] = c.value[j]
<1>. DEFINE d == Drop(c, k)
<1>0. c.total \in Nat
  BY SumBytesType DEF CacheBooks
<1>1. CASE k \notin Keys(c)
  <2>1. d = c /\ Keys(c) \ {k} = Keys(c)
    BY <1>1 DEF Drop
  <2>. QED  BY <1>0, <2>1
<1>2. CASE k \in Keys(c)
  <2>1. /\ d.lru = Retain(c.lru, k)
        /\ d.value = [j \in Keys(c) \ {k} |-> c.value[j]]
        /\ d.total = c.total - Bytes(k)
        /\ d = [lru |-> d.lru, value |-> d.value, total |-> d.total]
    BY <1>2 DEF Drop, Restrict
  <2>. HIDE DEF d
  <2>2. /\ Keys(d) = Keys(c) \ {k}
        /\ \A j \in Keys(c) \ {k} : d.value[j] = c.value[j]
    BY <2>1 DEF Keys
  <2>3. /\ Keys(c) \in SUBSET Prompts /\ c.lru \in Seq(Prompts)
        /\ NoDuplicates(c.lru)
        /\ \A j \in Prompts : Queued(c.lru, j) <=> j \in Keys(c)
        /\ c.total = SumBytes(Keys(c))
    BY DEF CacheBooks
  <2>4. /\ Retain(c.lru, k) \in Seq(Prompts)
        /\ NoDuplicates(Retain(c.lru, k))
        /\ \A j \in Prompts :
             Queued(Retain(c.lru, k), j) <=> j # k /\ Queued(c.lru, j)
    BY <2>3, RetainQueue
  <2>5. /\ SumBytes(Keys(c)) = SumBytes(Keys(c) \ {k}) + SumBytes({k})
        /\ SumBytes(Keys(c) \ {k}) \in Nat
        /\ SumBytes({k}) = Bytes(k) /\ Bytes(k) \in Nat
    <3>1. {k} \in SUBSET Keys(c) /\ Keys(c) \ {k} \in SUBSET Prompts
      BY <1>2, <2>3
    <3>. QED  BY <2>3, <3>1, SumBytesSplit, SumBytesType, SumBytesOne
  <2>6. d.total = SumBytes(Keys(d)) /\ d.total <= c.total
    BY <2>1, <2>2, <2>3, <2>5
  <2>7. CacheBooks(d)
    <3>1. Keys(d) \subseteq Prompts
      BY <2>2, <2>3
    <3>2. d.lru \in Seq(Prompts) /\ NoDuplicates(d.lru)
      BY <2>1, <2>4
    <3>3. \A j \in Prompts : Queued(d.lru, j) <=> j \in Keys(d)
      BY <2>1, <2>2, <2>3, <2>4
    <3>. QED  BY <2>1, <2>6, <3>1, <3>2, <3>3 DEF CacheBooks
  <2>. QED  BY <2>2, <2>6, <2>7 DEF d
<1>. QED  BY <1>1, <1>2

\* touch
LEMMA TouchBooks ==
  ASSUME NEW c, CacheBooks(c), NEW k \in Keys(c)
  PROVE  /\ CacheBooks(Touch(c, k))
         /\ Touch(c, k).value = c.value
         /\ Keys(Touch(c, k)) = Keys(c)
         /\ Touch(c, k).total = c.total
<1>. DEFINE d == Touch(c, k)
            r == Retain(c.lru, k)
<1>1. /\ Keys(c) \in SUBSET Prompts /\ c.lru \in Seq(Prompts)
      /\ NoDuplicates(c.lru) /\ k \in Prompts
      /\ \A j \in Prompts : Queued(c.lru, j) <=> j \in Keys(c)
      /\ c.total = SumBytes(Keys(c))
      /\ c = [lru |-> c.lru, value |-> c.value, total |-> c.total]
  BY DEF CacheBooks
<1>2. /\ d.lru = Append(r, k) /\ d.value = c.value /\ d.total = c.total
      /\ d = [lru |-> d.lru, value |-> d.value, total |-> d.total]
  <2>1. d = [c EXCEPT !.lru = Append(r, k)]
    BY DEF Touch
  <2>. HIDE DEF d, r
  <2>2. d = [lru |-> Append(r, k), value |-> c.value, total |-> c.total]
    BY ONLY <1>1, <2>1
  <2>. QED  BY <2>2
<1>. HIDE DEF d
<1>3. /\ r \in Seq(Prompts) /\ NoDuplicates(r)
      /\ \A j \in Prompts : Queued(r, j) <=> j # k /\ Queued(c.lru, j)
  BY <1>1, RetainQueue
<1>. HIDE DEF r
<1>4. /\ Append(r, k) \in Seq(Prompts) /\ NoDuplicates(Append(r, k))
      /\ \A j \in Prompts : Queued(Append(r, k), j) <=> j = k \/ Queued(r, j)
  <2>1. ~ Queued(r, k)
    BY <1>1, <1>3
  <2>. QED  BY <1>1, <1>3, <2>1, AppendQueue
<1>5. Keys(d) = Keys(c)
  BY <1>2 DEF Keys
<1>6. CacheBooks(d)
  <2>1. \A j \in Prompts : Queued(d.lru, j) <=> j \in Keys(d)
    BY <1>1, <1>2, <1>3, <1>4, <1>5
  <2>. QED  BY <1>1, <1>2, <1>4, <1>5, <2>1 DEF CacheBooks
<1>. QED  BY <1>2, <1>5, <1>6 DEF d

LEMMA OldestKeys ==
  ASSUME NEW c, CacheBooks(c), NEW n \in 0 .. Len(c.lru)
  PROVE  /\ Oldest(c, n) \in SUBSET Keys(c)
         /\ n = Len(c.lru) => Oldest(c, n) = Keys(c)
<1>1. /\ c.lru \in Seq(Prompts) /\ Len(c.lru) \in Nat
      /\ Keys(c) \subseteq Prompts
      /\ \A k \in Prompts : Queued(c.lru, k) <=> k \in Keys(c)
  BY DEF CacheBooks
<1>2. \A i \in 1 .. n : i \in 1 .. Len(c.lru) /\ c.lru[i] \in Prompts
  BY <1>1
<1>3. \A i \in 1 .. n : c.lru[i] \in Keys(c)
  BY <1>1, <1>2 DEF Queued
<1>4. n = Len(c.lru) => \A k \in Keys(c) : \E i \in 1 .. n : c.lru[i] = k
  BY <1>1 DEF Queued
<1>. QED  BY <1>3, <1>4 DEF Oldest

\* evict_for stops where the entry fits, if it fits into the budget at all.
LEMMA EvictionsFit ==
  ASSUME NEW c, CacheBooks(c), NEW size \in Nat, NEW max \in Nat, size <= max
  PROVE  /\ Evictions(c, size, max) \in 0 .. Len(c.lru)
         /\ c.total - SumBytes(Oldest(c, Evictions(c, size, max))) + size <= max
<1>. DEFINE l == Len(c.lru)
            fits(n) == c.total - SumBytes(Oldest(c, n)) + size <= max
            T == {n \in 0 .. l : fits(n)}
            U == T \cup {l}
            m == Evictions(c, size, max)
<1>1. l \in Nat /\ c.total = SumBytes(Keys(c)) /\ Keys(c) \in SUBSET Prompts
  BY DEF CacheBooks
<1>2. m = CHOOSE x \in U : \A y \in U : x <= y
  BY DEF Evictions, Min
<1>3. l \in T
  <2>1. l \in 0 .. Len(c.lru)
    BY <1>1
  <2>2. Oldest(c, l) = Keys(c)
    BY <2>1, OldestKeys
  <2>3. SumBytes(Keys(c)) \in Nat
    BY <1>1, SumBytesType
  <2>4. c.total - SumBytes(Oldest(c, l)) = 0
    BY <1>1, <2>2, <2>3
  <2>5. fits(l)
    BY <2>4
  <2>. HIDE DEF fits
  <2>. QED  BY <2>1, <2>5
<1>4. T \subseteq Nat
  BY <1>1
<1>. HIDE DEF m, T, fits
<1>5. U = T
  BY <1>3
<1>6. \E x \in T : \A y \in T : x <= y
  BY <1>3, <1>4, LeastNatural
<1>7. m \in T
  BY <1>2, <1>5, <1>6
<1>. QED  BY <1>7 DEF T, fits, m

\* The cache d is c with the value v for the key k, after the keys gone went.
Inserted(d, c, k, v, gone, max) ==
  /\ CacheBooks(d)
  /\ gone \in SUBSET (Keys(c) \ {k})
  /\ Keys(d) = (Keys(c) \ gone) \cup {k}
  /\ d.value[k] = v
  /\ \A j \in Keys(d) \ {k} : d.value[j] = c.value[j]
  /\ d.total <= max

LEMMA InsertBooks ==
  ASSUME NEW c, CacheBooks(c), NEW k \in Prompts, NEW v, NEW max \in Nat,
         Bytes(k) <= max
  PROVE  Inserted(Insert(c, k, v, max), c, k, v, Evicted(c, k, max), max)
<1>. DEFINE rest == Drop(c, k)
            n == Evictions(rest, Bytes(k), max)
            gone == Oldest(rest, n)
            q == SubSeq(rest.lru, n + 1, Len(rest.lru))
            d == Insert(c, k, v, max)
            left_ == Keys(rest) \ gone
<1>1. /\ CacheBooks(rest) /\ Keys(rest) = Keys(c) \ {k}
      /\ \A j \in Keys(c) \ {k} : rest.value[j] = c.value[j]
  BY DropBooks
<1>2. gone = Evicted(c, k, max)
  BY DEF Evicted
<1>3. /\ d.lru = Append(q, k)
      /\ d.value = [j \in left_ \cup {k} |-> IF j = k THEN v ELSE rest.value[j]]
      /\ d.total = rest.total - SumBytes(gone) + Bytes(k)
      /\ d = [lru |-> d.lru, value |-> d.value, total |-> d.total]
  BY DEF Insert
<1>. HIDE DEF d, rest
<1>4. Bytes(k) \in Nat /\ SumBytes({k}) = Bytes(k)
  BY SumBytesOne
<1>5. /\ n \in 0 .. Len(rest.lru)
      /\ rest.total - SumBytes(gone) + Bytes(k) <= max
  BY <1>1, <1>4, EvictionsFit
<1>. HIDE DEF n
<1>6. gone \in SUBSET Keys(rest)
  BY <1>1, <1>5, OldestKeys
<1>7. /\ rest.lru \in Seq(Prompts) /\ NoDuplicates(rest.lru)
      /\ \A j \in Prompts : Queued(rest.lru, j) <=> j \in Keys(rest)
      /\ Keys(rest) \in SUBSET Prompts
      /\ rest.total = SumBytes(Keys(rest))
  BY <1>1 DEF CacheBooks
<1>8. /\ q \in Seq(Prompts) /\ NoDuplicates(q)
      /\ \A j \in Prompts : Queued(q, j) <=> Queued(rest.lru, j) /\ j \notin gone
  <2>1. gone = {rest.lru[i] : i \in 1 .. n}
    BY DEF Oldest
  <2>. HIDE DEF gone
  <2>. QED  BY <1>5, <1>7, <2>1, SuffixQueue
<1>. HIDE DEF q, gone
<1>9. /\ Keys(d) = left_ \cup {k}
      /\ d.value[k] = v
      /\ \A j \in left_ : d.value[j] = rest.value[j]
  <2>1. k \notin left_
    BY <1>1
  <2>. QED  BY <1>3, <2>1 DEF Keys
<1>10. d.total = SumBytes(Keys(d))
  <2>1. SumBytes(Keys(rest)) = SumBytes(left_) + SumBytes(gone)
    BY <1>6, <1>7, SumBytesSplit
  <2>2. left_ \in SUBSET Prompts /\ gone \in SUBSET Prompts /\ k \notin left_
    BY <1>1, <1>6, <1>7
  <2>. DEFINE S == left_ \cup {k}
  <2>3. S \in SUBSET Prompts /\ {k} \in SUBSET S /\ S \ {k} = left_
    BY <2>2
  <2>. HIDE DEF S, left_
  <2>4. SumBytes(S) = SumBytes(S \ {k}) + SumBytes({k})
    BY <2>3, SumBytesSplit
  <2>5. SumBytes(left_) \in Nat /\ SumBytes(gone) \in Nat
    BY <2>2, SumBytesType
  <2>6. SumBytes(Keys(d)) = SumBytes(left_) + Bytes(k)
    BY <1>4, <1>9, <2>3, <2>4 DEF S
  <2>. QED  BY <1>3, <1>4, <1>7, <2>1, <2>5, <2>6
<1>11. CacheBooks(d)
  <2>1. ~ Queued(q, k)
    BY <1>1, <1>7, <1>8
  <2>2. /\ Append(q, k) \in Seq(Prompts) /\ NoDuplicates(Append(q, k))
        /\ \A j \in Prompts : Queued(Append(q, k), j) <=> j = k \/ Queued(q, j)
    BY <1>8, <2>1, AppendQueue
  <2>3. \A j \in Prompts : Queued(d.lru, j) <=> j \in Keys(d)
    BY <1>3, <1>7, <1>8, <1>9, <2>2
  <2>4. Keys(d) \subseteq Prompts
    BY <1>7, <1>9
  <2>. QED  BY <1>3, <1>10, <2>2, <2>3, <2>4 DEF CacheBooks
<1>12. d.total <= max
  BY <1>3, <1>5
<1>13. gone \in SUBSET (Keys(c) \ {k}) /\ Keys(d) = (Keys(c) \ gone) \cup {k}
  BY <1>1, <1>6, <1>9
<1>14. \A j \in Keys(d) \ {k} : d.value[j] = c.value[j]
  BY <1>1, <1>9
<1>. QED  BY <1>2, <1>9, <1>11, <1>12, <1>13, <1>14 DEF Inserted, d

-----------------------------------------------------------------------------
(* Sessions and prefixes of the engine                                     *)

LEMMA NewSessions ==
  /\ NewSession \in Sessions /\ GpuFollows(NewSession) /\ NewSession.rows = << >>
  /\ \A s \in Sessions : /\ Cleared(s) \in Sessions /\ GpuFollows(Cleared(s))
                         /\ Cleared(s).rows = << >>
  /\ \A e \in Snapshots : /\ Imported(e) \in Sessions /\ GpuFollows(Imported(e))
                          /\ Imported(e).rows = e.rows
  /\ \A s \in Sessions : Exported(s) \in Snapshots /\ Exported(s).rows = s.rows
<1>1. << >> \in Seq(Token)
  OBVIOUS
<1>2. NewSession \in Sessions /\ GpuFollows(NewSession) /\ NewSession.rows = << >>
  BY <1>1 DEF NewSession, Sessions, GpuFollows
<1>3. ASSUME NEW s \in Sessions
      PROVE  /\ Cleared(s) \in Sessions /\ GpuFollows(Cleared(s))
             /\ Cleared(s).rows = << >>
  <2>1. s.gen \in Nat
    BY DEF Sessions
  <2>2. (s.gen + 1) % Generations \in Nat
    BY <2>1, SessionAssumption
  <2>. QED  BY <1>1, <2>2 DEF Cleared, Sessions, GpuFollows
<1>4. ASSUME NEW e \in Snapshots
      PROVE  /\ Imported(e) \in Sessions /\ GpuFollows(Imported(e))
             /\ Imported(e).rows = e.rows
  BY <1>1 DEF Imported, Snapshots, Sessions, GpuFollows
<1>5. ASSUME NEW s \in Sessions
      PROVE  Exported(s) \in Snapshots /\ Exported(s).rows = s.rows
  BY DEF Exported, Snapshots, Sessions
<1>. QED  BY <1>2, <1>3, <1>4, <1>5

LEMMA PromptFacts ==
  ASSUME NEW p \in Prompts
  PROVE  p \in Seq(Token) /\ p # << >> /\ Len(p) \in Nat /\ Len(p) > 0
<1>1. p \in Seq(Token) /\ p # << >>
  BY EngineAssumption
<1>2. Len(p) \in Nat /\ Len(p) # 0
  BY <1>1
<1>. QED  BY <1>1, <1>2

\* A key that is a prefix of the prompt is its first tokens.
LEMMA PrefixIsFirst ==
  ASSUME NEW k \in Prompts, NEW p \in Prompts, IsPrefix(k, p)
  PROVE  /\ Len(k) \in 0 .. Len(p)
         /\ k = SubSeq(p, 1, Len(k))
         /\ Len(k) = Len(p) => k = p
<1>1. /\ k \in Seq(Token) /\ Len(k) \in Nat
      /\ p \in Seq(Token) /\ Len(p) \in Nat
  BY PromptFacts
<1>2. Len(k) <= Len(p) /\ SubSeq(k, 1, Len(k)) = SubSeq(p, 1, Len(k))
  BY DEF IsPrefix
<1>3. SubSeq(k, 1, Len(k)) = k /\ SubSeq(p, 1, Len(p)) = p
  BY <1>1, SubSeqFull
<1>4. Len(k) \in 0 .. Len(p)
  BY <1>1, <1>2
<1>5. k = SubSeq(p, 1, Len(k))
  BY <1>2, <1>3
<1>6. ASSUME Len(k) = Len(p) PROVE k = p
  <2>. DEFINE n == Len(k)
  <2>1. n = Len(p) /\ k = SubSeq(p, 1, n)
    BY <1>5, <1>6
  <2>. HIDE DEF n
  <2>. QED  BY <1>3, <2>1
<1>. QED  BY <1>4, <1>5, <1>6

\* A key that is a prefix of all but the last token leaves one to forward.
LEMMA StrictPrefixIsFirst ==
  ASSUME NEW k \in Prompts, NEW p \in Prompts, IsPrefix(k, Front(p))
  PROVE  /\ Len(k) \in 0 .. Len(p) /\ Len(k) # Len(p)
         /\ k = SubSeq(p, 1, Len(k))
<1>. DEFINE l == Len(p)
<1>1. /\ k \in Seq(Token) /\ Len(k) \in Nat
      /\ p \in Seq(Token) /\ l \in Nat /\ l > 0
  BY PromptFacts
<1>2. l - 1 \in 0 .. Len(p)
  BY <1>1
<1>3. Front(p) = SubSeq(p, 1, l - 1) /\ Len(SubSeq(p, 1, l - 1)) = l - 1
  BY <1>1, <1>2, PrefixSeq DEF Front
<1>4. Len(k) <= l - 1 /\ SubSeq(k, 1, Len(k)) = SubSeq(Front(p), 1, Len(k))
  BY <1>3 DEF IsPrefix
<1>5. Len(k) \in 0 .. l - 1
  BY <1>1, <1>4
<1>6. SubSeq(SubSeq(p, 1, l - 1), 1, Len(k)) = SubSeq(p, 1, Len(k))
  BY <1>1, <1>2, <1>5, PrefixOfPrefix
<1>7. SubSeq(k, 1, Len(k)) = k
  BY <1>1, SubSeqFull
<1>. QED  BY <1>1, <1>3, <1>4, <1>5, <1>6, <1>7
-----------------------------------------------------------------------------
(* EngineInv is inductive                                                  *)

LEMMA EngineInvInit ==
  Init => EngineInv
<1>. SUFFICES ASSUME Init PROVE EngineInv
  OBVIOUS
<1>1. SessionSound
  BY NewSessions DEF Init, SessionSound
<1>2. RamSound
  <2>1. ram = NoEntries /\ RamBudget \in Nat
    BY EngineAssumption DEF Init
  <2>. QED  BY <2>1, NoEntriesBooks DEF RamSound, RamHolds
<1>3. IndexSound
  <2>1. index = NoEntries /\ budget \in SsdBudgets /\ budget \in Nat
    BY EngineAssumption DEF Init
  <2>. QED  BY <2>1, NoEntriesBooks DEF IndexSound
<1>4. FilesHold(files)
  BY DEF Init, FilesHold
<1>5. RequestHolds
  BY DEF Init, RequestHolds
<1>6. DirectoryFollows
  <2>1. files = {} /\ Keys(index) = {} /\ pc = "idle" /\ faults = 0
        /\ doomed = {} /\ unread = {}
    BY NoEntriesBooks DEF Init
  <2>. QED  BY <2>1 DEF DirectoryFollows, FileKeys
<1>. QED  BY <1>1, <1>2, <1>3, <1>4, <1>5, <1>6 DEF EngineInv

\* Between requests and while one is served, a step that leaves the directory
\* and the index's keys alone.
LEMMA QuietDirectory ==
  ASSUME DirectoryFollows,
         pc \notin {"evict", "write", "down", "rebuild"},
         pc' \notin {"evict", "write", "down", "rebuild"},
         files' = files, Keys(index') = Keys(index), budget' = budget,
         doomed' \subseteq Prompts, unread' = unread, faults' = faults
  PROVE  DirectoryFollows'
BY DEF DirectoryFollows

\* After a failure nothing more is claimed of the directory.
LEMMA FaultyDirectory ==
  ASSUME DirectoryFollows, Fault, pc' \notin {"down", "write"},
         doomed' \subseteq Prompts, unread' \subseteq Prompts
  PROVE  DirectoryFollows'
<1>1. faults' \in Nat /\ faults' # 0
  BY DEF DirectoryFollows, Fault
<1>. QED  BY <1>1 DEF DirectoryFollows

LEMMA StartStep ==
  ASSUME EngineInv, NEW p \in Prompts, Start(p)
  PROVE  EngineInv'
<1>1. /\ pc = "idle" /\ pc' = "ram" /\ prompt' = p
      /\ UNCHANGED << session, said, doomed, ram, index, budget, files, unread,
                      faults >>
  BY DEF Start, bounds, disk
<1>2. SessionSound' /\ RamSound' /\ IndexSound' /\ FilesHold(files')
  BY <1>1 DEF EngineInv, SessionSound, RamSound, IndexSound
<1>3. RequestHolds'
  BY <1>1 DEF EngineInv, RequestHolds
<1>4. DirectoryFollows'
  <2>1. doomed' \subseteq Prompts
    BY <1>1 DEF EngineInv, DirectoryFollows
  <2>. QED  BY <1>1, <2>1, QuietDirectory DEF EngineInv
<1>. QED  BY <1>2, <1>3, <1>4 DEF EngineInv

LEMMA ResetStep ==
  ASSUME EngineInv, NEW clear \in BOOLEAN, Reset(clear)
  PROVE  EngineInv'
<1>1. /\ pc = "idle" /\ pc' = "idle" /\ session' = Cleared(session)
      /\ ram' = NoEntries \/ ram' = ram
      /\ UNCHANGED << said, doomed, index, budget, files, unread, faults >>
  BY DEF Reset, bounds, request, disk
<1>2. SessionSound'
  BY <1>1, NewSessions DEF EngineInv, SessionSound
<1>3. RamSound'
  <2>1. CASE ram' = NoEntries
    BY <2>1, NoEntriesBooks, EngineAssumption DEF RamSound, RamHolds
  <2>2. CASE ram' = ram
    BY <2>2 DEF EngineInv, RamSound
  <2>. QED  BY <1>1, <2>1, <2>2
<1>4. IndexSound' /\ FilesHold(files')
  BY <1>1 DEF EngineInv, IndexSound
<1>5. RequestHolds'
  BY <1>1 DEF EngineInv, RequestHolds
<1>6. DirectoryFollows'
  <2>1. doomed' \subseteq Prompts
    BY <1>1 DEF EngineInv, DirectoryFollows
  <2>. QED  BY <1>1, <2>1, QuietDirectory DEF EngineInv
<1>. QED  BY <1>2, <1>3, <1>4, <1>5, <1>6 DEF EngineInv

LEMMA RamHitStep ==
  ASSUME EngineInv, RamHit
  PROVE  EngineInv'
<1>1. PICK k \in Keys(ram) :
        /\ IsLongest(k, Hits(ram, prompt))
        /\ session' = Imported(ram.value[k].state)
        /\ Resume(Len(k), ram.value[k].logits)
        /\ ram' = Touch(ram, k)
  BY DEF RamHit
<1>2. /\ pc = "ram" /\ pc' = "prefill"
      /\ fed' = Len(k) /\ logits' = ram.value[k].logits
      /\ UNCHANGED << prompt, said, doomed, index, budget, files, unread, faults >>
  BY <1>1 DEF RamHit, Resume, bounds, disk
<1>3. IsPrefix(k, prompt)
  BY <1>1 DEF IsLongest, Hits
<1>4. k \in Prompts /\ prompt \in Prompts
  BY <1>2 DEF EngineInv, RamSound, CacheBooks, RequestHolds
<1>5. /\ ram.value[k].state \in Snapshots /\ ram.value[k].state.rows = k
      /\ ram.value[k].logits = k
  BY <1>1 DEF EngineInv, RamSound, RamHolds
<1>6. SessionSound' /\ session'.rows = k
  BY <1>1, <1>5, NewSessions DEF SessionSound
<1>7. RamSound'
  <2>1. CacheBooks(ram)
    BY DEF EngineInv, RamSound
  <2>2. /\ CacheBooks(Touch(ram, k)) /\ Touch(ram, k).value = ram.value
        /\ Keys(Touch(ram, k)) = Keys(ram) /\ Touch(ram, k).total = ram.total
    BY <1>1, <2>1, TouchBooks
  <2>. QED  BY <1>1, <2>2 DEF EngineInv, RamSound, RamHolds
<1>8. IndexSound' /\ FilesHold(files')
  BY <1>2 DEF EngineInv, IndexSound
<1>9. RequestHolds'
  <2>1. /\ Len(k) \in 0 .. Len(prompt) /\ k = SubSeq(prompt, 1, Len(k))
        /\ Len(k) = Len(prompt) => k = prompt
    BY <1>3, <1>4, PrefixIsFirst
  <2>2. said = << >>
    BY <1>2 DEF EngineInv, RequestHolds
  <2>. QED  BY <1>2, <1>4, <1>5, <1>6, <2>1, <2>2 DEF RequestHolds
<1>10. DirectoryFollows'
  <2>1. doomed' \subseteq Prompts
    BY <1>2 DEF EngineInv, DirectoryFollows
  <2>. QED  BY <1>2, <2>1, QuietDirectory DEF EngineInv
<1>. QED  BY <1>6, <1>7, <1>8, <1>9, <1>10 DEF EngineInv

\* The prefill that starts from nothing.
LEMMA ColdStart ==
  ASSUME RequestHolds, pc \in {"ram", "read"}, pc' = "prefill",
         prompt' = prompt, said' = said, fed' = 0, session'.rows = << >>
  PROVE  RequestHolds'
<1>1. prompt \in Prompts /\ said = << >>
  BY DEF RequestHolds
<1>2. prompt \in Seq(Token) /\ Len(prompt) \in Nat /\ Len(prompt) > 0
  BY <1>1, PromptFacts
<1>3. SubSeq(prompt, 1, 0) = << >> /\ 0 \in 0 .. Len(prompt) /\ 0 # Len(prompt)
  BY <1>2, SubSeqEmpty
<1>. QED  BY <1>1, <1>3 DEF RequestHolds

LEMMA RamMissStep ==
  ASSUME EngineInv, RamMiss
  PROVE  EngineInv'
<1>1. /\ pc = "ram"
      /\ UNCHANGED << prompt, said, doomed, ram, budget, files, unread, faults >>
  BY DEF RamMiss, bounds, disk
<1>2. RamSound' /\ FilesHold(files')
  BY <1>1 DEF EngineInv, RamSound
<1>3. CASE /\ session' = Cleared(session) /\ Resume(0, Nothing)
           /\ UNCHANGED << candidate, index >>
  <2>1. pc' = "prefill" /\ fed' = 0 /\ index' = index
    BY <1>3 DEF Resume
  <2>2. SessionSound' /\ session'.rows = << >>
    BY <1>3, NewSessions DEF EngineInv, SessionSound
  <2>3. IndexSound'
    BY <1>1, <2>1 DEF EngineInv, IndexSound
  <2>4. RequestHolds'
    BY <1>1, <2>1, <2>2, ColdStart DEF EngineInv
  <2>5. DirectoryFollows'
    <3>1. doomed' \subseteq Prompts
      BY <1>1 DEF EngineInv, DirectoryFollows
    <3>. QED  BY <1>1, <2>1, <3>1, QuietDirectory DEF EngineInv
  <2>. QED  BY <1>2, <2>2, <2>3, <2>4, <2>5 DEF EngineInv
<1>4. CASE /\ \E k \in Keys(index) :
                /\ IsLongest(k, Hits(index, StrictQuery))
                /\ candidate' = k
                /\ index' = Touch(index, k)
           /\ pc' = "read"
           /\ UNCHANGED << session, fed, logits >>
  <2>1. PICK k \in Keys(index) :
          /\ IsLongest(k, Hits(index, StrictQuery))
          /\ candidate' = k
          /\ index' = Touch(index, k)
    BY <1>4
  <2>2. IsPrefix(k, Front(prompt))
    BY <2>1 DEF IsLongest, Hits, StrictQuery
  <2>3. CacheBooks(index)
    BY DEF EngineInv, IndexSound
  <2>4. /\ CacheBooks(Touch(index, k)) /\ Keys(Touch(index, k)) = Keys(index)
        /\ Touch(index, k).total = index.total
    BY <2>1, <2>3, TouchBooks
  <2>5. IndexSound' /\ Keys(index') = Keys(index)
    BY <1>1, <2>1, <2>4 DEF EngineInv, IndexSound
  <2>6. SessionSound'
    BY <1>4 DEF EngineInv, SessionSound
  <2>7. RequestHolds'
    <3>1. k \in Prompts /\ prompt \in Prompts /\ said = << >>
      BY <1>1, <2>1, <2>3 DEF EngineInv, CacheBooks, RequestHolds
    <3>. QED  BY <1>1, <1>4, <2>1, <2>2, <3>1 DEF RequestHolds
  <2>8. DirectoryFollows'
    <3>1. doomed' \subseteq Prompts
      BY <1>1 DEF EngineInv, DirectoryFollows
    <3>. QED  BY <1>1, <1>4, <2>5, <3>1, QuietDirectory DEF EngineInv
  <2>. QED  BY <1>2, <2>5, <2>6, <2>7, <2>8 DEF EngineInv
<1>. QED  BY <1>3, <1>4 DEF RamMiss

LEMMA ReadWholeStep ==
  ASSUME EngineInv, ReadWhole
  PROVE  EngineInv'
<1>1. PICK f \in files : f.key = candidate /\ session' = Imported(f.state)
  BY DEF ReadWhole
<1>2. /\ pc = "read" /\ pc' = "prefill" /\ fed' = Len(candidate)
      /\ UNCHANGED << prompt, said, doomed, ram, index, budget, files, unread,
                      faults >>
  BY DEF ReadWhole, Resume, bounds, disk
<1>3. /\ prompt \in Prompts /\ said = << >>
      /\ candidate \in Prompts /\ IsPrefix(candidate, Front(prompt))
  BY <1>2 DEF EngineInv, RequestHolds
<1>4. f.state \in Snapshots /\ f.state.rows = candidate
  BY <1>1 DEF EngineInv, FilesHold
<1>5. SessionSound' /\ session'.rows = candidate
  BY <1>1, <1>4, NewSessions DEF SessionSound
<1>6. RamSound' /\ IndexSound' /\ FilesHold(files')
  BY <1>2 DEF EngineInv, RamSound, IndexSound
<1>7. RequestHolds'
  <2>1. /\ Len(candidate) \in 0 .. Len(prompt) /\ Len(candidate) # Len(prompt)
        /\ candidate = SubSeq(prompt, 1, Len(candidate))
    BY <1>3, StrictPrefixIsFirst
  <2>. QED  BY <1>2, <1>3, <1>5, <2>1 DEF RequestHolds
<1>8. DirectoryFollows'
  <2>1. doomed' \subseteq Prompts
    BY <1>2 DEF EngineInv, DirectoryFollows
  <2>. QED  BY <1>2, <2>1, QuietDirectory DEF EngineInv
<1>. QED  BY <1>5, <1>6, <1>7, <1>8 DEF EngineInv

\* Withdrawing an entry keeps the index sound.
LEMMA DropIndex ==
  ASSUME IndexSound, NEW k \in Prompts, index' = Drop(index, k), budget' = budget
  PROVE  IndexSound' /\ Keys(index') = Keys(index) \ {k}
<1>1. CacheBooks(index)
  BY DEF IndexSound
<1>2. /\ CacheBooks(index') /\ Keys(index') = Keys(index) \ {k}
      /\ index'.total <= index.total
  BY <1>1, DropBooks
<1>3. index.total \in Nat /\ index'.total \in Nat /\ budget \in Nat
  <2>1. Keys(index) \in SUBSET Prompts /\ index.total = SumBytes(Keys(index))
    BY <1>1 DEF CacheBooks
  <2>2. Keys(index') \in SUBSET Prompts /\ index'.total = SumBytes(Keys(index'))
    BY <1>2 DEF CacheBooks
  <2>. QED  BY <2>1, <2>2, SumBytesType, EngineAssumption DEF IndexSound
<1>. QED  BY <1>2, <1>3 DEF IndexSound

LEMMA ReadMissStep ==
  ASSUME EngineInv, ReadMiss
  PROVE  EngineInv'
<1>1. /\ pc = "read" /\ pc' = "prefill" /\ fed' = 0
      /\ session' = Cleared(session) /\ index' = Drop(index, candidate)
      /\ \A f \in files : f.key = candidate => f.form = "corrupt"
      /\ UNCHANGED << prompt, said, doomed, ram, budget, files, unread, faults >>
  BY DEF ReadMiss, Resume, bounds, disk
<1>2. candidate \in Prompts
  BY <1>1 DEF EngineInv, RequestHolds
<1>3. SessionSound' /\ session'.rows = << >>
  BY <1>1, NewSessions DEF EngineInv, SessionSound
<1>4. RamSound' /\ FilesHold(files')
  BY <1>1 DEF EngineInv, RamSound
<1>5. IndexSound' /\ Keys(index') = Keys(index) \ {candidate}
  BY <1>1, <1>2, DropIndex DEF EngineInv
<1>6. RequestHolds'
  BY <1>1, <1>3, ColdStart DEF EngineInv
<1>7. DirectoryFollows'
  <2>1. CASE faults = 0 /\ budget > 0
    <3>1. FileKeys(files) = Keys(index) /\ \A f \in files : f.form = "whole"
      BY <1>1, <2>1 DEF EngineInv, DirectoryFollows
    <3>2. candidate \notin Keys(index)
      BY <1>1, <3>1 DEF FileKeys
    <3>3. Keys(index') = Keys(index)
      BY <1>5, <3>2
    <3>4. doomed' \subseteq Prompts
      BY <1>1 DEF EngineInv, DirectoryFollows
    <3>. QED  BY <1>1, <3>3, <3>4, QuietDirectory DEF EngineInv
  <2>2. CASE ~ (faults = 0 /\ budget > 0)
    BY <1>1, <2>2 DEF EngineInv, DirectoryFollows
  <2>. QED  BY <2>1, <2>2
<1>. QED  BY <1>3, <1>4, <1>5, <1>6, <1>7 DEF EngineInv

LEMMA FinishRequest ==
  ASSUME Finish
  PROVE  RequestHolds' /\ doomed' \subseteq Prompts /\ pc' = "idle"
BY DEF Finish, RequestHolds

LEMMA ReadFailsStep ==
  ASSUME EngineInv, ReadFails
  PROVE  EngineInv'
<1>1. /\ pc = "read" /\ Finish /\ index' = Drop(index, candidate)
      /\ UNCHANGED << session, ram, budget, files, unread >>
      /\ \/ /\ \E f \in files : f.key = candidate /\ f.form = "truncated"
            /\ faults' = faults
         \/ Fault
  BY DEF ReadFails, disk
<1>2. candidate \in Prompts
  BY <1>1 DEF EngineInv, RequestHolds
<1>3. SessionSound' /\ RamSound' /\ FilesHold(files')
  BY <1>1 DEF EngineInv, SessionSound, RamSound
<1>4. IndexSound'
  BY <1>1, <1>2, DropIndex DEF EngineInv
<1>5. RequestHolds' /\ doomed' \subseteq Prompts /\ pc' = "idle"
  BY <1>1, FinishRequest
<1>6. unread' \subseteq Prompts
  BY <1>1 DEF EngineInv, DirectoryFollows
<1>7. DirectoryFollows'
  <2>1. CASE Fault
    BY <1>5, <1>6, <2>1, FaultyDirectory DEF EngineInv
  <2>2. CASE /\ \E f \in files : f.key = candidate /\ f.form = "truncated"
             /\ faults' = faults
    <3>1. faults' # 0 /\ faults' \in Nat
      BY <2>2 DEF EngineInv, DirectoryFollows
    <3>. QED  BY <1>5, <1>6, <3>1 DEF DirectoryFollows
  <2>. QED  BY <1>1, <2>1, <2>2
<1>. QED  BY <1>3, <1>4, <1>5, <1>7 DEF EngineInv

\* What a forward's logits are computed from is what the session holds.
LEMMA OutputIsRows ==
  ASSUME NEW s \in Sessions, GpuFollows(s)
  PROVE  Output(s) = s.rows
BY DEF Output, GpuFollows

LEMMA PrefillChunkStep ==
  ASSUME EngineInv, PrefillChunk
  PROVE  EngineInv'
<1>1. PICK n \in 1 .. Chunk :
        /\ fed + n <= Len(prompt)
        /\ session' \in Forwarded(session, SubSeq(prompt, fed + 1, fed + n), FALSE)
        /\ fed' = fed + n
  BY DEF PrefillChunk, disk
<1>2. /\ pc = "prefill" /\ logits' = Output(session')
      /\ UNCHANGED << pc, prompt, said, doomed, ram, index, budget, files, unread,
                      faults >>
  BY DEF PrefillChunk, bounds, disk
<1>3. /\ prompt \in Prompts /\ said = << >> /\ fed \in 0 .. Len(prompt)
      /\ session.rows = SubSeq(prompt, 1, fed)
  BY <1>2 DEF EngineInv, RequestHolds
<1>4. prompt \in Seq(Token) /\ Len(prompt) \in Nat
  BY <1>3, PromptFacts
<1>5. /\ fed \in Nat /\ n \in Nat /\ fed + n \in 0 .. Len(prompt)
      /\ fed + n \in Int /\ fed + 1 \in Int
  BY <1>1, <1>3, <1>4, EngineAssumption, SMTT(30)
<1>. DEFINE chunk == SubSeq(prompt, fed + 1, fed + n)
<1>6. chunk \in Seq(Token)
  <2>1. \A i \in fed + 1 .. fed + n : prompt[i] \in Token
    <3>1. \A i \in fed + 1 .. fed + n : i \in 1 .. Len(prompt)
      BY <1>4, <1>5
    <3>. QED  BY <1>4, <3>1
  <2>. QED  BY <1>5, <2>1, SubSeqProperties
<1>7. SubSeq(prompt, 1, fed) \o chunk = SubSeq(prompt, 1, fed + n)
  <2>1. /\ 1 \in 1 .. Len(prompt) + 1
        /\ fed \in 1 - 1 .. Len(prompt)
        /\ fed + n \in fed .. Len(prompt)
    BY <1>1, <1>3, <1>4, <1>5
  <2>. QED  BY <1>4, <2>1, ConcatAdjacentSubSeq
<1>. HIDE DEF chunk
<1>8. session \in Sessions /\ GpuFollows(session)
  BY DEF EngineInv, SessionSound
<1>9. Extends(session', session, chunk)
  <2>1. session' \in Forwarded(session, chunk, FALSE)
    BY <1>1 DEF chunk
  <2>. QED  BY <1>6, <1>8, <2>1, ForwardedExtends
<1>10. /\ session' \in Sessions /\ GpuFollows(session')
       /\ session'.rows = SubSeq(prompt, 1, fed + n)
  BY <1>3, <1>7, <1>8, <1>9 DEF Extends
<1>11. logits' = session'.rows
  BY <1>2, <1>10, OutputIsRows
<1>12. SessionSound'
  BY <1>10 DEF SessionSound
<1>13. RamSound' /\ IndexSound' /\ FilesHold(files')
  BY <1>2 DEF EngineInv, RamSound, IndexSound
<1>14. RequestHolds'
  <2>1. fed + n = Len(prompt) => SubSeq(prompt, 1, fed + n) = prompt
    BY <1>4, SubSeqFull
  <2>. QED  BY <1>1, <1>2, <1>3, <1>5, <1>10, <1>11, <2>1 DEF RequestHolds
<1>15. DirectoryFollows'
  <2>1. doomed' \subseteq Prompts
    BY <1>2 DEF EngineInv, DirectoryFollows
  <2>. QED  BY <1>2, <2>1, QuietDirectory DEF EngineInv
<1>. QED  BY <1>12, <1>13, <1>14, <1>15 DEF EngineInv

\* A request that ends where no store is under way.
LEMMA FinishStep ==
  ASSUME EngineInv, pc \in {"prefill", "decode"}, Finish, SessionSound',
         UNCHANGED << ram, index, budget, files, unread, faults >>
  PROVE  EngineInv'
<1>1. RamSound' /\ IndexSound' /\ FilesHold(files')
  BY DEF EngineInv, RamSound, IndexSound
<1>2. RequestHolds' /\ doomed' \subseteq Prompts /\ pc' = "idle"
  BY FinishRequest
<1>3. DirectoryFollows'
  BY <1>2, QuietDirectory DEF EngineInv
<1>. QED  BY <1>1, <1>2, <1>3 DEF EngineInv

LEMMA StoreStep ==
  ASSUME EngineInv, Store
  PROVE  EngineInv'
<1>. DEFINE entry == [state |-> Exported(session), logits |-> logits]
<1>1. /\ pc = "prefill" /\ fed = Len(prompt)
      /\ ram' = (IF RamBudget > 0 /\ Bytes(prompt) <= RamBudget
                 THEN Insert(ram, prompt, entry, RamBudget) ELSE ram)
      /\ \/ /\ Bytes(prompt) <= budget /\ budget > 0
            /\ index' = Insert(index, prompt, Nothing, budget)
            /\ doomed' = Evicted(index, prompt, budget)
            /\ pc' = "evict"
         \/ /\ pc' = "decode"
            /\ UNCHANGED << index, doomed >>
      /\ UNCHANGED << session, prompt, said, logits, budget, files, unread,
                      faults >>
  BY DEF Store, Doomed, bounds, disk
<1>2. /\ prompt \in Prompts /\ said = << >> /\ logits = prompt
      /\ session.rows = SubSeq(prompt, 1, fed)
  BY <1>1 DEF EngineInv, RequestHolds
<1>3. session.rows = prompt
  <2>1. prompt \in Seq(Token)
    BY <1>2, PromptFacts
  <2>. QED  BY <1>1, <1>2, <2>1, SubSeqFull
<1>4. session \in Sessions /\ SessionSound'
  BY <1>1 DEF EngineInv, SessionSound
<1>5. /\ entry.state \in Snapshots /\ entry.state.rows = prompt
      /\ entry.logits = prompt
  <2>1. entry.state = Exported(session) /\ entry.logits = logits
    OBVIOUS
  <2>. HIDE DEF entry
  <2>. QED  BY <1>2, <1>3, <1>4, <2>1, NewSessions
<1>. HIDE DEF entry
<1>6. RamSound'
  <2>1. CASE ram' = ram
    BY <2>1 DEF EngineInv, RamSound
  <2>2. CASE Bytes(prompt) <= RamBudget /\ ram' = Insert(ram, prompt, entry, RamBudget)
    <3>1. CacheBooks(ram) /\ RamHolds(ram) /\ RamBudget \in Nat
      BY EngineAssumption DEF EngineInv, RamSound
    <3>2. Inserted(ram', ram, prompt, entry, Evicted(ram, prompt, RamBudget), RamBudget)
      BY <1>2, <2>2, <3>1, InsertBooks
    <3>3. /\ CacheBooks(ram') /\ ram'.total <= RamBudget
          /\ ram'.value[prompt] = entry
          /\ \A j \in Keys(ram') \ {prompt} :
               j \in Keys(ram) /\ ram'.value[j] = ram.value[j]
      BY <3>2 DEF Inserted
    <3>4. RamHolds(ram')
      BY <1>5, <3>1, <3>3 DEF RamHolds
    <3>. QED  BY <3>3, <3>4 DEF RamSound
  <2>. QED  BY <1>1, <2>1, <2>2
<1>7. FilesHold(files')
  BY <1>1 DEF EngineInv
<1>8. CASE /\ pc' = "decode"
           /\ UNCHANGED << index, doomed >>
  <2>1. IndexSound'
    BY <1>1, <1>8 DEF EngineInv, IndexSound
  <2>2. RequestHolds'
    <3>1. << >> \in Seq(Token) /\ prompt \o << >> = prompt
      BY <1>2, PromptFacts, ConcatEmptySeq
    <3>. QED  BY <1>1, <1>2, <1>3, <1>8, <3>1 DEF RequestHolds
  <2>3. DirectoryFollows'
    <3>1. doomed' \subseteq Prompts
      BY <1>8 DEF EngineInv, DirectoryFollows
    <3>. QED  BY <1>1, <1>8, <3>1, QuietDirectory DEF EngineInv
  <2>. QED  BY <1>4, <1>6, <1>7, <2>1, <2>2, <2>3 DEF EngineInv
<1>9. CASE /\ Bytes(prompt) <= budget /\ budget > 0
           /\ index' = Insert(index, prompt, Nothing, budget)
           /\ doomed' = Evicted(index, prompt, budget)
           /\ pc' = "evict"
  <2>1. CacheBooks(index) /\ budget \in SsdBudgets /\ budget \in Nat
    BY EngineAssumption DEF EngineInv, IndexSound
  <2>2. Inserted(index', index, prompt, Nothing, doomed', budget)
    BY <1>2, <1>9, <2>1, InsertBooks
  <2>3. /\ CacheBooks(index') /\ index'.total <= budget
        /\ doomed' \in SUBSET (Keys(index) \ {prompt})
        /\ Keys(index') = (Keys(index) \ doomed') \cup {prompt}
    BY <2>2 DEF Inserted
  <2>4. IndexSound'
    BY <1>1, <2>1, <2>3 DEF IndexSound
  <2>5. RequestHolds'
    BY <1>1, <1>2, <1>3, <1>9 DEF RequestHolds
  <2>6. DirectoryFollows'
    <3>1. /\ faults' \in Nat /\ unread' \subseteq Prompts
          /\ doomed' \subseteq Prompts
      BY <1>1, <2>1, <2>3 DEF EngineInv, DirectoryFollows, CacheBooks
    <3>2. ASSUME faults' = 0
          PROVE  /\ \A f \in files' : f.form = "whole"
                 /\ FileKeys(files') \cup {prompt'} = Keys(index') \cup doomed'
                 /\ doomed' \cap Keys(index') = {} /\ prompt' \notin doomed'
      <4>1. (\A f \in files : f.form = "whole") /\ FileKeys(files) = Keys(index)
        BY <1>1, <1>9, <3>2 DEF EngineInv, DirectoryFollows
      <4>. QED  BY <1>1, <2>3, <4>1
    <3>. QED  BY <1>9, <3>1, <3>2 DEF DirectoryFollows
  <2>. QED  BY <1>4, <1>6, <1>7, <2>4, <2>5, <2>6 DEF EngineInv
<1>. QED  BY <1>1, <1>8, <1>9

LEMMA RemoveEvictedStep ==
  ASSUME EngineInv, RemoveEvicted
  PROVE  EngineInv'
<1>1. PICK k \in doomed :
        /\ doomed' = doomed \ {k}
        /\ \/ files' = {f \in files : f.key # k} /\ faults' = faults
           \/ Fault /\ files' = files
  BY DEF RemoveEvicted
<1>2. /\ pc \in {"evict", "rebuild"}
      /\ UNCHANGED << pc, session, prompt, fed, said, logits, candidate, ram, index,
                      budget, unread >>
  BY DEF RemoveEvicted
<1>3. SessionSound' /\ RamSound' /\ IndexSound'
  BY <1>2 DEF EngineInv, SessionSound, RamSound, IndexSound
<1>4. FilesHold(files')
  <2>1. files' \subseteq files
    BY <1>1
  <2>. QED  BY <2>1 DEF EngineInv, FilesHold
<1>5. RequestHolds'
  BY <1>2 DEF EngineInv, RequestHolds
<1>6. doomed' \subseteq Prompts /\ unread' \subseteq Prompts
  BY <1>1, <1>2 DEF EngineInv, DirectoryFollows
<1>7. DirectoryFollows'
  <2>1. CASE Fault
    BY <1>2, <1>6, <2>1, FaultyDirectory DEF EngineInv
  <2>2. CASE files' = {f \in files : f.key # k} /\ faults' = faults
    <3>1. FileKeys(files') = FileKeys(files) \ {k}
      BY <2>2 DEF FileKeys
    <3>2. faults' \in Nat
      BY <2>2 DEF EngineInv, DirectoryFollows
    <3>3. ASSUME faults' = 0
          PROVE  \A f \in files' : f.form = "whole"
      BY <2>2, <3>3 DEF EngineInv, DirectoryFollows
    <3>4. ASSUME faults' = 0, budget > 0, pc = "evict"
          PROVE  /\ FileKeys(files') \cup {prompt} = Keys(index) \cup doomed'
                 /\ doomed' \cap Keys(index) = {} /\ prompt \notin doomed'
      <4>1. /\ FileKeys(files) \cup {prompt} = Keys(index) \cup doomed
            /\ doomed \cap Keys(index) = {} /\ prompt \notin doomed
        BY <2>2, <3>4 DEF EngineInv, DirectoryFollows
      <4>. QED  BY <1>1, <3>1, <4>1
    <3>5. ASSUME faults' = 0, budget > 0, pc = "rebuild"
          PROVE  /\ FileKeys(files') = Keys(index) \cup unread \cup doomed'
                 /\ Keys(index) \cap (unread \cup doomed') = {}
                 /\ unread \cap doomed' = {}
      <4>1. /\ FileKeys(files) = Keys(index) \cup unread \cup doomed
            /\ Keys(index) \cap (unread \cup doomed) = {}
            /\ unread \cap doomed = {}
        BY <2>2, <3>5 DEF EngineInv, DirectoryFollows
      <4>. QED  BY <1>1, <3>1, <4>1
    <3>. QED  BY <1>2, <1>6, <3>2, <3>3, <3>4, <3>5 DEF DirectoryFollows
  <2>. QED  BY <1>1, <2>1, <2>2
<1>. QED  BY <1>3, <1>4, <1>5, <1>7 DEF EngineInv

LEMMA CreateTempStep ==
  ASSUME EngineInv, CreateTemp
  PROVE  EngineInv'
<1>1. /\ pc = "evict" /\ doomed = {} /\ pc' = "write"
      /\ UNCHANGED << session, prompt, said, logits, doomed, ram, index, budget,
                      files, unread, faults >>
  BY DEF CreateTemp, request, bounds
<1>2. SessionSound' /\ RamSound' /\ IndexSound' /\ FilesHold(files')
  BY <1>1 DEF EngineInv, SessionSound, RamSound, IndexSound
<1>3. RequestHolds'
  BY <1>1 DEF EngineInv, RequestHolds
<1>4. DirectoryFollows'
  BY <1>1 DEF EngineInv, DirectoryFollows
<1>. QED  BY <1>2, <1>3, <1>4 DEF EngineInv

LEMMA WriteStep ==
  ASSUME EngineInv, Write
  PROVE  EngineInv'
<1>. DEFINE new == [key |-> prompt, state |-> Exported(session), form |-> "whole"]
<1>1. /\ pc = "write" /\ pc' = "decode"
      /\ files' = {f \in files : f.key # prompt} \cup {new}
      /\ UNCHANGED << session, prompt, said, logits, doomed, ram, index, budget,
                      unread, faults >>
  BY DEF Write, request, bounds
<1>8. doomed = {}
  BY <1>1 DEF EngineInv, DirectoryFollows
<1>2. prompt \in Prompts /\ said = << >> /\ session.rows = prompt /\ logits = prompt
  BY <1>1 DEF EngineInv, RequestHolds
<1>3. SessionSound' /\ RamSound' /\ IndexSound'
  BY <1>1 DEF EngineInv, SessionSound, RamSound, IndexSound
<1>4. /\ new \in [key : Prompts, state : Snapshots,
                  form : {"whole", "truncated", "corrupt"}]
      /\ new.state.rows = new.key /\ new.key = prompt /\ new.form = "whole"
  <2>1. Exported(session) \in Snapshots /\ Exported(session).rows = session.rows
    BY NewSessions DEF EngineInv, SessionSound
  <2>2. new.state = Exported(session) /\ new.key = prompt /\ new.form = "whole"
    OBVIOUS
  <2>3. new \in [key : Prompts, state : Snapshots,
                 form : {"whole", "truncated", "corrupt"}]
    BY <1>2, <2>1
  <2>. HIDE DEF new
  <2>. QED  BY <1>2, <2>1, <2>2, <2>3
<1>. HIDE DEF new
<1>5. FilesHold(files')
  BY <1>1, <1>4 DEF EngineInv, FilesHold
<1>6. RequestHolds'
  <2>1. << >> \in Seq(Token) /\ prompt \o << >> = prompt
    BY <1>2, PromptFacts, ConcatEmptySeq
  <2>. QED  BY <1>1, <1>2, <2>1 DEF RequestHolds
<1>7. DirectoryFollows'
  <2>1. faults' \in Nat /\ doomed' \subseteq Prompts /\ unread' \subseteq Prompts
    BY <1>1 DEF EngineInv, DirectoryFollows
  <2>2. FileKeys(files') = FileKeys(files) \cup {prompt}
    BY <1>1, <1>4 DEF FileKeys
  <2>3. ASSUME faults' = 0 PROVE \A f \in files' : f.form = "whole"
    BY <1>1, <1>4, <2>3 DEF EngineInv, DirectoryFollows
  <2>4. ASSUME faults' = 0, budget > 0 PROVE FileKeys(files') = Keys(index')
    <3>1. FileKeys(files) \cup {prompt} = Keys(index) \cup doomed
      BY <1>1, <2>4 DEF EngineInv, DirectoryFollows
    <3>. QED  BY <1>1, <1>8, <2>2, <3>1
  <2>. QED  BY <1>1, <2>1, <2>3, <2>4 DEF DirectoryFollows
<1>. QED  BY <1>3, <1>5, <1>6, <1>7 DEF EngineInv

LEMMA WriteFailsStep ==
  ASSUME EngineInv, WriteFails
  PROVE  EngineInv'
<1>1. /\ pc \in {"evict", "write"} /\ Fault /\ Finish /\ index' = Drop(index, prompt)
      /\ UNCHANGED << session, ram, budget, files, unread >>
  BY DEF WriteFails, disk
<1>2. prompt \in Prompts
  BY <1>1 DEF EngineInv, RequestHolds
<1>3. SessionSound' /\ RamSound' /\ FilesHold(files')
  BY <1>1 DEF EngineInv, SessionSound, RamSound
<1>4. IndexSound'
  BY <1>1, <1>2, DropIndex DEF EngineInv
<1>5. RequestHolds' /\ doomed' \subseteq Prompts /\ pc' = "idle"
  BY <1>1, FinishRequest
<1>6. DirectoryFollows'
  <2>1. unread' \subseteq Prompts
    BY <1>1 DEF EngineInv, DirectoryFollows
  <2>. QED  BY <1>1, <1>5, <2>1, FaultyDirectory DEF EngineInv
<1>. QED  BY <1>3, <1>4, <1>5, <1>6 DEF EngineInv

LEMMA DecodeTokenStep ==
  ASSUME EngineInv, NEW t \in Sampled, DecodeToken(t)
  PROVE  EngineInv'
<1>1. /\ pc = "decode"
      /\ session' \in Forwarded(session, << t >>, FALSE)
      /\ UNCHANGED << ram, index, budget, files, unread, faults >>
      /\ \/ /\ said' = Append(said, t) /\ logits' = Output(session')
            /\ UNCHANGED << pc, prompt, doomed >>
         \/ Finish
  BY DEF DecodeToken, bounds, disk
<1>2. t \in Token /\ << t >> \in Seq(Token)
  <2>1. t \in Token
    BY EngineAssumption
  <2>. QED  BY <2>1
<1>3. session \in Sessions /\ GpuFollows(session)
  BY DEF EngineInv, SessionSound
<1>4. Extends(session', session, << t >>)
  BY <1>1, <1>2, <1>3, ForwardedExtends
<1>5. /\ session' \in Sessions /\ GpuFollows(session')
      /\ session'.rows = session.rows \o << t >>
  BY <1>3, <1>4 DEF Extends
<1>6. SessionSound'
  BY <1>5 DEF SessionSound
<1>7. CASE Finish
  BY <1>1, <1>6, <1>7, FinishStep
<1>8. CASE /\ said' = Append(said, t) /\ logits' = Output(session')
           /\ UNCHANGED << pc, prompt, doomed >>
  <2>1. /\ prompt \in Prompts /\ said \in Seq(Token)
        /\ session.rows = prompt \o said
    BY <1>1 DEF EngineInv, RequestHolds
  <2>2. prompt \in Seq(Token)
    BY <2>1, PromptFacts
  <2>3. Append(said, t) = said \o << t >> /\ Append(said, t) \in Seq(Token)
    BY <1>2, <2>1, AppendIsConcat, AppendProperties
  <2>4. (prompt \o said) \o << t >> = prompt \o (said \o << t >>)
    BY <1>2, <2>1, <2>2, ConcatAssociative
  <2>5. session'.rows = prompt \o said'
    BY <1>5, <1>8, <2>1, <2>3, <2>4
  <2>6. logits' = session'.rows
    BY <1>5, <1>8, OutputIsRows
  <2>7. RequestHolds'
    BY <1>1, <1>8, <2>1, <2>3, <2>5, <2>6 DEF RequestHolds
  <2>8. RamSound' /\ IndexSound' /\ FilesHold(files')
    BY <1>1 DEF EngineInv, RamSound, IndexSound
  <2>9. DirectoryFollows'
    <3>1. doomed' \subseteq Prompts
      BY <1>8 DEF EngineInv, DirectoryFollows
    <3>. QED  BY <1>1, <1>8, <3>1, QuietDirectory DEF EngineInv
  <2>. QED  BY <1>6, <2>7, <2>8, <2>9 DEF EngineInv
<1>. QED  BY <1>1, <1>7, <1>8

LEMMA DamageStep ==
  ASSUME EngineInv, NEW f \in files, Damage(f)
  PROVE  EngineInv'
<1>1. PICK kept \in {{}, {"truncated"}, {"corrupt"}} :
        files' = (files \ {f}) \cup {[f EXCEPT !.form = form] : form \in kept}
  BY DEF Damage
<1>2. /\ Fault
      /\ UNCHANGED << pc, session, prompt, fed, said, logits, candidate, doomed,
                      ram, index, budget, unread >>
  BY DEF Damage, request
<1>3. SessionSound' /\ RamSound' /\ IndexSound'
  BY <1>2 DEF EngineInv, SessionSound, RamSound, IndexSound
<1>. DEFINE Files == [key : Prompts, state : Snapshots,
                      form : {"whole", "truncated", "corrupt"}]
<1>4. FilesHold(files')
  <2>1. f \in Files /\ f.state.rows = f.key
    BY DEF EngineInv, FilesHold
  <2>2. ASSUME NEW form \in {"truncated", "corrupt"}
        PROVE  /\ [f EXCEPT !.form = form] \in Files
               /\ [f EXCEPT !.form = form].state.rows = [f EXCEPT !.form = form].key
    <3>. DEFINE g == [f EXCEPT !.form = form]
    <3>1. f = [key |-> f.key, state |-> f.state, form |-> f.form]
      BY <2>1
    <3>2. g = [key |-> f.key, state |-> f.state, form |-> form]
      BY ONLY <3>1
    <3>. HIDE DEF g
    <3>3. g \in Files /\ g.state = f.state /\ g.key = f.key
      BY <2>1, <3>2
    <3>. QED  BY <2>1, <3>3 DEF g
  <2>3. \A form \in kept : form \in {"truncated", "corrupt"}
    BY <1>1
  <2>4. ASSUME NEW g \in files'
        PROVE  g \in Files /\ g.state.rows = g.key
    <3>1. CASE g \in files
      BY <3>1 DEF EngineInv, FilesHold
    <3>2. CASE g \notin files
      <4>1. PICK form \in kept : g = [f EXCEPT !.form = form]
        BY <1>1, <2>4, <3>2
      <4>. QED  BY <2>2, <2>3, <4>1
    <3>. QED  BY <3>1, <3>2
  <2>. QED  BY <2>4 DEF FilesHold
<1>5. RequestHolds'
  BY <1>2 DEF EngineInv, RequestHolds
<1>6. DirectoryFollows'
  <2>1. faults' \in Nat /\ faults' # 0
    BY <1>2 DEF EngineInv, DirectoryFollows, Fault
  <2>. QED  BY <1>2, <2>1 DEF EngineInv, DirectoryFollows
<1>. QED  BY <1>3, <1>4, <1>5, <1>6 DEF EngineInv

LEMMA CrashStep ==
  ASSUME EngineInv, Crash
  PROVE  EngineInv'
<1>1. /\ pc' = "down" /\ session' = NewSession /\ said' = << >> /\ doomed' = {}
      /\ ram' = NoEntries /\ index' = NoEntries /\ unread' = {}
      /\ UNCHANGED << budget, files, faults >>
  BY DEF Crash, disk
<1>2. SessionSound'
  BY <1>1, NewSessions DEF SessionSound
<1>3. RamSound'
  BY <1>1, NoEntriesBooks, EngineAssumption DEF RamSound, RamHolds
<1>4. IndexSound'
  <2>1. budget \in SsdBudgets /\ budget \in Nat
    BY EngineAssumption DEF EngineInv, IndexSound
  <2>. QED  BY <1>1, <2>1, NoEntriesBooks DEF IndexSound
<1>5. FilesHold(files')
  BY <1>1 DEF EngineInv
<1>6. RequestHolds'
  BY <1>1 DEF RequestHolds
<1>7. DirectoryFollows'
  BY <1>1 DEF EngineInv, DirectoryFollows
<1>. QED  BY <1>2, <1>3, <1>4, <1>5, <1>6, <1>7 DEF EngineInv

LEMMA RestartStep ==
  ASSUME EngineInv, Restart
  PROVE  EngineInv'
<1>1. /\ pc = "down" /\ pc' = "rebuild" /\ budget' \in SsdBudgets
      /\ unread' = {f.key : f \in {g \in files : g.form = "whole" /\ budget' > 0}}
      /\ UNCHANGED << session, prompt, said, doomed, ram, index, files, faults >>
  BY DEF Restart, request, bounds, disk
<1>2. SessionSound' /\ RamSound' /\ FilesHold(files')
  BY <1>1 DEF EngineInv, SessionSound, RamSound
<1>3. index = NoEntries /\ doomed = {} /\ said = << >>
  BY <1>1 DEF EngineInv, DirectoryFollows, RequestHolds
<1>4. IndexSound'
  <2>1. budget' \in Nat
    BY <1>1, EngineAssumption
  <2>. QED  BY <1>1, <1>3, <2>1, NoEntriesBooks DEF IndexSound
<1>5. RequestHolds'
  BY <1>1, <1>3 DEF RequestHolds
<1>6. DirectoryFollows'
  <2>1. faults' \in Nat /\ doomed' \subseteq Prompts /\ unread' \subseteq Prompts
    BY <1>1 DEF EngineInv, DirectoryFollows, FilesHold
  <2>2. ASSUME faults' = 0, budget' > 0
        PROVE  /\ \A f \in files' : f.form = "whole"
               /\ FileKeys(files') = Keys(index') \cup unread' \cup doomed'
               /\ Keys(index') \cap (unread' \cup doomed') = {}
               /\ unread' \cap doomed' = {}
    <3>1. \A f \in files : f.form = "whole"
      BY <1>1, <2>2 DEF EngineInv, DirectoryFollows
    <3>2. unread' = FileKeys(files)
      BY <1>1, <2>2, <3>1 DEF FileKeys
    <3>3. Keys(index') = {} /\ doomed' = {}
      BY <1>1, <1>3, NoEntriesBooks
    <3>. QED  BY <1>1, <3>1, <3>2, <3>3
  <2>3. faults' = 0 => \A f \in files' : f.form = "whole"
    BY <1>1 DEF EngineInv, DirectoryFollows
  <2>. QED  BY <1>1, <2>1, <2>2, <2>3 DEF DirectoryFollows
<1>. QED  BY <1>2, <1>4, <1>5, <1>6 DEF EngineInv

LEMMA RebuildEntryStep ==
  ASSUME EngineInv, NEW k \in unread, RebuildEntry(k)
  PROVE  EngineInv'
<1>1. /\ pc = "rebuild" /\ doomed = {} /\ unread' = unread \ {k}
      /\ \/ doomed' = {k} /\ index' = index
         \/ /\ Bytes(k) <= budget
            /\ index' = Insert(index, k, Nothing, budget)
            /\ doomed' = Evicted(index, k, budget)
      /\ UNCHANGED << pc, session, prompt, fed, said, logits, candidate, ram,
                      budget, files, faults >>
  BY DEF RebuildEntry, Doomed, bounds, disk
<1>2. k \in Prompts /\ unread' \subseteq Prompts /\ faults' \in Nat
  BY <1>1 DEF EngineInv, DirectoryFollows
<1>3. SessionSound' /\ RamSound' /\ FilesHold(files')
  BY <1>1 DEF EngineInv, SessionSound, RamSound
<1>4. RequestHolds'
  BY <1>1 DEF EngineInv, RequestHolds
<1>8. faults' = 0 => \A f \in files' : f.form = "whole"
  BY <1>1 DEF EngineInv, DirectoryFollows
<1>5. ASSUME faults' = 0, budget > 0
      PROVE  /\ FileKeys(files) = Keys(index) \cup unread
             /\ Keys(index) \cap unread = {}
  <2>1. faults = 0
    BY <1>1, <1>5
  <2>2. /\ FileKeys(files) = Keys(index) \cup unread \cup doomed
        /\ Keys(index) \cap (unread \cup doomed) = {}
    BY <1>1, <1>5, <2>1 DEF EngineInv, DirectoryFollows
  <2>. QED  BY <1>1, <2>2
<1>6. CASE doomed' = {k} /\ index' = index
  <2>1. IndexSound'
    BY <1>1, <1>6 DEF EngineInv, IndexSound
  <2>2. ASSUME faults' = 0, budget > 0
        PROVE  /\ FileKeys(files') = Keys(index') \cup unread' \cup doomed'
               /\ Keys(index') \cap (unread' \cup doomed') = {}
               /\ unread' \cap doomed' = {}
    <3>1. /\ FileKeys(files) = Keys(index) \cup unread
          /\ Keys(index) \cap unread = {}
      BY <1>5, <2>2
    <3>. QED  BY <1>1, <1>6, <3>1
  <2>3. DirectoryFollows'
    BY <1>1, <1>2, <1>6, <1>8, <2>2 DEF DirectoryFollows
  <2>. QED  BY <1>3, <1>4, <2>1, <2>3 DEF EngineInv
<1>7. CASE /\ Bytes(k) <= budget
           /\ index' = Insert(index, k, Nothing, budget)
           /\ doomed' = Evicted(index, k, budget)
  <2>1. CacheBooks(index) /\ budget \in SsdBudgets /\ budget \in Nat
    BY EngineAssumption DEF EngineInv, IndexSound
  <2>2. Inserted(index', index, k, Nothing, doomed', budget)
    BY <1>2, <1>7, <2>1, InsertBooks
  <2>3. /\ CacheBooks(index') /\ index'.total <= budget
        /\ doomed' \in SUBSET (Keys(index) \ {k})
        /\ Keys(index') = (Keys(index) \ doomed') \cup {k}
    BY <2>2 DEF Inserted
  <2>4. IndexSound'
    BY <1>1, <2>1, <2>3 DEF IndexSound
  <2>5. doomed' \subseteq Prompts
    BY <2>1, <2>3 DEF CacheBooks
  <2>6. ASSUME faults' = 0, budget > 0
        PROVE  /\ FileKeys(files') = Keys(index') \cup unread' \cup doomed'
               /\ Keys(index') \cap (unread' \cup doomed') = {}
               /\ unread' \cap doomed' = {}
    <3>1. /\ FileKeys(files) = Keys(index) \cup unread
          /\ Keys(index) \cap unread = {}
      BY <1>5, <2>6
    <3>. QED  BY <1>1, <2>3, <3>1
  <2>7. DirectoryFollows'
    BY <1>1, <1>2, <1>8, <2>5, <2>6 DEF DirectoryFollows
  <2>. QED  BY <1>3, <1>4, <2>4, <2>7 DEF EngineInv
<1>. QED  BY <1>1, <1>6, <1>7

LEMMA RebuildDoneStep ==
  ASSUME EngineInv, RebuildDone
  PROVE  EngineInv'
<1>1. /\ pc = "rebuild" /\ doomed = {} /\ unread = {} /\ pc' = "idle"
      /\ UNCHANGED << session, said, doomed, ram, index, budget, files, unread,
                      faults >>
  BY DEF RebuildDone, request, bounds, disk
<1>2. SessionSound' /\ RamSound' /\ IndexSound' /\ FilesHold(files')
  BY <1>1 DEF EngineInv, SessionSound, RamSound, IndexSound
<1>3. RequestHolds'
  BY <1>1 DEF EngineInv, RequestHolds
<1>4. DirectoryFollows'
  BY <1>1 DEF EngineInv, DirectoryFollows
<1>. QED  BY <1>2, <1>3, <1>4 DEF EngineInv

LEMMA EngineInvStep ==
  EngineInv /\ [Next]_vars => EngineInv'
<1>. SUFFICES ASSUME EngineInv, [Next]_vars PROVE EngineInv'
  OBVIOUS
<1>1. CASE \E p \in Prompts : Start(p)
  BY <1>1, StartStep
<1>2. CASE \E clear \in BOOLEAN : Reset(clear)
  BY <1>2, ResetStep
<1>3. CASE RamHit
  BY <1>3, RamHitStep
<1>4. CASE RamMiss
  BY <1>4, RamMissStep
<1>5. CASE ReadWhole
  BY <1>5, ReadWholeStep
<1>6. CASE ReadMiss
  BY <1>6, ReadMissStep
<1>7. CASE ReadFails
  BY <1>7, ReadFailsStep
<1>8. CASE PrefillChunk
  BY <1>8, PrefillChunkStep
<1>9. CASE PrefillCancelled
  <2>1. /\ pc \in {"prefill", "decode"} /\ Finish
        /\ UNCHANGED << session, ram, index, budget, files, unread, faults >>
    BY <1>9 DEF PrefillCancelled, bounds, disk
  <2>2. SessionSound'
    BY <2>1 DEF EngineInv, SessionSound
  <2>. QED  BY <2>1, <2>2, FinishStep
<1>10. CASE Store
  BY <1>10, StoreStep
<1>11. CASE RemoveEvicted
  BY <1>11, RemoveEvictedStep
<1>12. CASE Write
  BY <1>12, WriteStep
<1>22. CASE CreateTemp
  BY <1>22, CreateTempStep
<1>13. CASE WriteFails
  BY <1>13, WriteFailsStep
<1>14. CASE DecodeEnds
  <2>1. /\ pc \in {"prefill", "decode"} /\ Finish
        /\ UNCHANGED << session, ram, index, budget, files, unread, faults >>
    BY <1>14 DEF DecodeEnds, bounds, disk
  <2>2. SessionSound'
    BY <2>1 DEF EngineInv, SessionSound
  <2>. QED  BY <2>1, <2>2, FinishStep
<1>15. CASE \E t \in Sampled : DecodeToken(t)
  BY <1>15, DecodeTokenStep
<1>16. CASE \E f \in files : Damage(f)
  BY <1>16, DamageStep
<1>17. CASE Crash
  BY <1>17, CrashStep
<1>18. CASE Restart
  BY <1>18, RestartStep
<1>19. CASE \E k \in unread : RebuildEntry(k)
  BY <1>19, RebuildEntryStep
<1>20. CASE RebuildDone
  BY <1>20, RebuildDoneStep
<1>21. CASE UNCHANGED vars
  <2>1. UNCHANGED << pc, session, prompt, fed, said, logits, candidate, doomed, ram,
                     index, budget, files, unread, faults >>
    BY <1>21 DEF vars, request, disk, bounds
  <2>. QED  BY <2>1 DEF EngineInv, SessionSound, RamSound, IndexSound, RequestHolds,
                        DirectoryFollows
<1>. QED  BY <1>1, <1>2, <1>3, <1>4, <1>5, <1>6, <1>7, <1>8, <1>9, <1>10, <1>11,
             <1>12, <1>13, <1>14, <1>15, <1>16, <1>17, <1>18, <1>19, <1>20, <1>21,
             <1>22
          DEF Next

\* The inductive invariant of the dense engine and its prefix caches holds in
\* every reachable state.
THEOREM EngineInductive == Spec => []EngineInv
<1>1. Init => EngineInv
  BY EngineInvInit
<1>2. EngineInv /\ [Next]_vars => EngineInv'
  BY EngineInvStep
<1>. QED  BY <1>1, <1>2, PTL DEF Spec

\* A reply is generated from exactly its prompt and what was said since,
\* whichever cache the prefill resumed from, whatever failed before and
\* wherever the process crashed (engine.rs, lookup_prefix, generate_stream).
THEOREM RepliesSeePrompt == Spec => []DecodeSeesPrompt
<1>1. EngineInv => DecodeSeesPrompt
  <2>1. ASSUME GpuFollows(session), session \in Sessions
        PROVE  DeviceCoherent(session)
    BY <2>1 DEF GpuFollows, DeviceCoherent, Sessions
  <2>. QED  BY <2>1 DEF EngineInv, SessionSound, RequestHolds, DecodeSeesPrompt
<1>. QED  BY <1>1, EngineInductive, PTL

-----------------------------------------------------------------------------
(* What write_for leaves behind                                            *)

\* Every temporary file is that of the write under way, or was left by a crash
\* or by a write that failed.
Leftovers ==
  /\ IsFiniteSet(temps) /\ crashes \in Nat /\ faults \in Nat
  /\ pc = "write" => << prompt, crashes >> \in temps
  /\ Cardinality(temps) <= crashes + faults + (IF pc = "write" THEN 1 ELSE 0)

\* Steps that write_for has no part in.
OffDisk ==
  /\ temps' = temps /\ crashes' = crashes /\ (faults' = faults \/ Fault)
  /\ pc # "write" /\ pc' # "write"

LEMMA LeftoversStep ==
  Leftovers /\ [Next]_vars => Leftovers'
<1>. SUFFICES ASSUME Leftovers, [Next]_vars PROVE Leftovers'
  OBVIOUS
<1>1. /\ IsFiniteSet(temps) /\ crashes \in Nat /\ faults \in Nat
      /\ Cardinality(temps) \in Nat
  BY FS_CardinalityType DEF Leftovers
<1>2. CASE OffDisk
  BY <1>1, <1>2 DEF OffDisk, Leftovers, Fault
<1>3. ASSUME CreateTemp PROVE Leftovers'
  <2>. DEFINE e == << prompt, crashes >>
  <2>1. /\ pc = "evict" /\ pc' = "write" /\ temps' = temps \cup {e} /\ e \in temps'
        /\ prompt' = prompt /\ crashes' = crashes /\ faults' = faults
        /\ e = << prompt', crashes' >>
    BY <1>3 DEF CreateTemp, request, bounds
  <2>. HIDE DEF e
  <2>2. IsFiniteSet(temps') /\ Cardinality(temps') \in Nat
        /\ Cardinality(temps') <= Cardinality(temps) + 1
    <3>1. /\ IsFiniteSet(temps \cup {e})
          /\ \/ Cardinality(temps \cup {e}) = Cardinality(temps)
             \/ Cardinality(temps \cup {e}) = Cardinality(temps) + 1
      BY <1>1, FS_AddElement
    <3>. QED  BY <1>1, <2>1, <3>1
  <2>3. Cardinality(temps) <= crashes + faults
    BY <1>1, <2>1 DEF Leftovers
  <2>4. Cardinality(temps') <= crashes' + faults' + 1
    BY <1>1, <2>1, <2>2, <2>3
  <2>. QED  BY <1>1, <2>1, <2>2, <2>4 DEF Leftovers
<1>4. ASSUME Write PROVE Leftovers'
  <2>. DEFINE e == << prompt, crashes >>
  <2>1. /\ pc = "write" /\ pc' = "decode" /\ temps' = temps \ {e} /\ e \in temps
        /\ crashes' = crashes /\ faults' = faults
    BY <1>4 DEF Write, request, bounds, Leftovers
  <2>. HIDE DEF e
  <2>2. IsFiniteSet(temps') /\ Cardinality(temps') = Cardinality(temps) - 1
    BY <1>1, <2>1, FS_RemoveElement
  <2>3. Cardinality(temps) <= crashes + faults + 1
    BY <2>1 DEF Leftovers
  <2>. QED  BY <1>1, <2>1, <2>2, <2>3 DEF Leftovers
<1>5. ASSUME WriteFails PROVE Leftovers'
  <2>1. /\ pc' = "idle" /\ temps' = temps /\ crashes' = crashes /\ faults' = faults + 1
    BY <1>5 DEF WriteFails, Finish, Fault, disk
  <2>. QED  BY <1>1, <2>1 DEF Leftovers
<1>6. ASSUME NEW f \in files, Damage(f) PROVE Leftovers'
  <2>1. /\ pc' = pc /\ prompt' = prompt /\ temps' = temps /\ crashes' = crashes
        /\ faults' = faults + 1
    BY <1>6 DEF Damage, Fault, request
  <2>. QED  BY <1>1, <2>1 DEF Leftovers
<1>7. ASSUME Crash PROVE Leftovers'
  <2>1. /\ pc' = "down" /\ temps' = temps /\ crashes' = crashes + 1 /\ faults' = faults
    BY <1>7 DEF Crash, disk
  <2>. QED  BY <1>1, <2>1 DEF Leftovers
<1>8. ASSUME UNCHANGED vars PROVE Leftovers'
  <2>1. UNCHANGED << pc, prompt, temps, crashes, faults >>
    BY <1>8 DEF vars, request, disk, bounds
  <2>. QED  BY <2>1 DEF Leftovers
<1>9. ASSUME \/ \E p \in Prompts : Start(p)
             \/ \E clear \in BOOLEAN : Reset(clear)
             \/ RamHit \/ RamMiss \/ ReadWhole \/ ReadMiss \/ ReadFails
      PROVE  OffDisk
  BY <1>9 DEF Start, Reset, RamHit, RamMiss, Resume, ReadWhole, ReadMiss, ReadFails,
    Finish, OffDisk, disk, bounds
<1>10. ASSUME \/ PrefillChunk \/ PrefillCancelled \/ Store \/ RemoveEvicted \/ DecodeEnds
              \/ \E t \in Sampled : DecodeToken(t)
       PROVE  OffDisk
  BY <1>10 DEF PrefillChunk, PrefillCancelled, Store, RemoveEvicted, DecodeEnds,
    DecodeToken, Finish, OffDisk, disk, bounds
<1>11. ASSUME Restart \/ RebuildDone \/ \E k \in unread : RebuildEntry(k)
       PROVE  OffDisk
  BY <1>11 DEF Restart, RebuildDone, RebuildEntry, OffDisk, disk, bounds
<1>. QED  BY <1>2, <1>3, <1>4, <1>5, <1>6, <1>7, <1>8, <1>9, <1>10, <1>11 DEF Next

\* Both caches know the bytes they hold and keep to their budgets, and as long
\* as the file system has not failed the directory's entries are the indexed
\* ones, crashes in the middle of a write or of a rebuild notwithstanding; the
\* temporary files beside them are no more than the crashes and failures
\* (prefix/index.rs, insert_with_evictions; prefix/runtime.rs, cache_prefix and
\* rebuild_ssd_index; prefix/disk.rs, write_for).
THEOREM BudgetsKept == Spec => []CachesWithinBudget
<1>1. Init => Leftovers
  BY FS_EmptySet DEF Init, Leftovers
<1>2. Leftovers /\ [Next]_vars => Leftovers'
  BY LeftoversStep
<1>3. Spec => []Leftovers
  BY <1>1, <1>2, PTL DEF Spec
<1>4. EngineInv /\ Leftovers => CachesWithinBudget
  BY DEF EngineInv, RamSound, IndexSound, CacheBooks, DirectoryFollows, FileKeys,
         Leftovers, CachesWithinBudget
<1>. QED  BY <1>3, <1>4, EngineInductive, PTL
=============================================================================
