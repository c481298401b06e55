------------------------------ MODULE MtpProofs -----------------------------
(***************************************************************************)
(* Two ways to decode that change when work is done and never the text:    *)
(* proofs about MtpDecode for every vocabulary, prompt, block length,      *)
(* request length, context length and target, and for every guess of the   *)
(* drafter; and about ScheduledQwen for every number of layers, routing,   *)
(* expert store and command channel.                                       *)
(***************************************************************************)
EXTENDS MtpDecode, ScheduledQwen, SequenceTheorems, HelperProofs

-----------------------------------------------------------------------------
(* Sequences                                                               *)

\* The elements of a concatenation.
LEMMA Concatenated ==
  ASSUME NEW S, NEW s \in Seq(S), NEW t \in Seq(S), NEW u, u = s \o t
  PROVE  /\ u \in Seq(S)
         /\ Len(u) = Len(s) + Len(t)
         /\ \A i \in 1 .. Len(s) : u[i] = s[i]
         /\ \A j \in 1 .. Len(t) : u[Len(s) + j] = t[j]
OBVIOUS

\* A function on 1 .. n is a sequence of length n.
LEMMA TableIsSeq ==
  ASSUME NEW S, NEW n \in Nat, NEW f, f = [i \in 1 .. n |-> f[i]],
         \A i \in 1 .. n : f[i] \in S
  PROVE  f \in Seq(S) /\ Len(f) = n
<1>1. f \in [1 .. n -> S]
  OBVIOUS
<1> QED
  BY <1>1

\* A sequence with one element in front.
LEMMA Prepended ==
  ASSUME NEW S, NEW x \in S, NEW t \in Seq(S), NEW u, u = << x >> \o t
  PROVE  /\ u \in Seq(S)
         /\ Len(u) = 1 + Len(t)
         /\ u[1] = x
         /\ \A j \in 1 .. Len(t) : u[1 + j] = t[j]
OBVIOUS

\* The first n elements of a sequence.
LEMMA FirstOf ==
  ASSUME NEW S, NEW s \in Seq(S), NEW n \in 0 .. Len(s)
  PROVE  /\ First(n, s) \in Seq(S)
         /\ Len(First(n, s)) = n
         /\ \A i \in 1 .. n : First(n, s)[i] = s[i]
BY DEF First

\* Sequences that agree up to n have the same first n elements.
LEMMA FirstAgrees ==
  ASSUME NEW S, NEW s \in Seq(S), NEW t \in Seq(S),
         NEW n \in 0 .. Len(s), n <= Len(t),
         \A i \in 1 .. n : s[i] = t[i]
  PROVE  First(n, s) = First(n, t)
<1>1. /\ First(n, s) \in Seq(S)
      /\ Len(First(n, s)) = n
      /\ \A i \in 1 .. n : First(n, s)[i] = s[i]
  BY FirstOf
<1>2. /\ First(n, t) \in Seq(S)
      /\ Len(First(n, t)) = n
      /\ \A i \in 1 .. n : First(n, t)[i] = t[i]
  BY FirstOf
<1> QED
  BY <1>1, <1>2, SeqEqual

\* A sequence of length n that agrees with s up to n is its first n elements.
LEMMA IsFirst ==
  ASSUME NEW S, NEW s \in Seq(S), NEW n \in 0 .. Len(s), NEW t \in Seq(S),
         Len(t) = n, \A i \in 1 .. n : t[i] = s[i]
  PROVE  t = First(n, s)
<1>1. /\ First(n, s) \in Seq(S)
      /\ Len(First(n, s)) = n
      /\ \A i \in 1 .. n : First(n, s)[i] = s[i]
  BY FirstOf
<1> QED
  BY <1>1, SeqEqual

\* Rows that hold the text as far as attention reads are read as the text.
LEMMA VisibleIsFirst ==
  ASSUME NEW S, NEW s \in Seq(S), NEW n \in 0 .. Len(s), NEW r,
         \A i \in 1 .. n : r[i] = s[i]
  PROVE  Visible(n, r) = First(n, s)
<1>1. /\ Visible(n, r) \in Seq(S)
      /\ Len(Visible(n, r)) = n
      /\ \A i \in 1 .. n : Visible(n, r)[i] = s[i]
  BY DEF Visible
<1> QED
  BY <1>1, IsFirst

\* The target's answer for a text that fits the context is a token.
LEMMA TargetType ==
  ASSUME NEW s \in Seq(Token), Len(s) \in 1 .. MaxT
  PROVE  Target(s, s) \in Token
<1>1. s \in [1 .. Len(s) -> Token]
  OBVIOUS
<1>2. s \in Context
  BY <1>1 DEF Context
<1> QED
  BY <1>2, MtpAssumption
-----------------------------------------------------------------------------
(* The inductive invariant                                                 *)

\* The text with the guesses after it.
Guessed == text \o drafts

\* The rows hold the guessed text up to position n.
HoldGuessed(r, n) ==
  /\ n <= MaxT
  /\ \A i \in 1 .. n : r[i] = Guessed[i]

\* The recurrent state has consumed part of the prompt, and all rows follow.
PrefillInv ==
  /\ text = prompt
  /\ maxNew > 0
  /\ drafts = << >>
  /\ Len(recurrent) < Len(prompt)
  /\ recurrent = First(Len(recurrent), prompt)
  /\ HoldGuessed(rows, Len(recurrent))
  /\ HoldGuessed(draftRows, Len(recurrent))

\* A block is being guessed or verified: at most BlockLen guesses, and the
\* text does not reach max_new yet.
BlockInv ==
  /\ Len(text) > Len(prompt)
  /\ Len(text) - Len(prompt) < maxNew
  /\ Len(drafts) <= BlockLen
  /\ HoldGuessed(draftRows, Len(text) - 1 + Len(drafts))

DraftInv ==
  /\ BlockInv
  /\ Len(drafts) < BlockLen
  /\ recurrent = First(Len(text) - 1, text)
  /\ hidden = First(Len(text) - 1, text)
  /\ HoldGuessed(rows, Len(text) - 1)

VerifyInv ==
  /\ BlockInv
  /\ Len(drafts) > 0
  /\ recurrent = First(Len(text) - 1, text)
  /\ HoldGuessed(rows, Len(text) - 1)

\* The verifier has answered each row from exactly the guessed text before it.
CommitInv ==
  /\ BlockInv
  /\ Len(drafts) > 0
  /\ Len(boundaries) = Len(drafts)
  /\ Len(logits) = Len(drafts)
  /\ HoldGuessed(rows, Len(text) - 1 + Len(drafts))
  /\ \A i \in 1 .. Len(drafts) :
       LET before == First(Len(text) - 1 + i, Guessed)
       IN  boundaries[i] = before /\ logits[i] = Target(before, before)

PhaseInv ==
  /\ pc = "prefill" => PrefillInv
  /\ pc = "draft" => DraftInv
  /\ pc = "verify" => VerifyInv
  /\ pc = "commit" => CommitInv

MtpInv == TypeOK /\ PhaseInv /\ SpeculationIsGreedy

\* The guessed text is the text, then the guesses.
LEMMA GuessedText ==
  ASSUME text \in Seq(Token), drafts \in Seq(Token)
  PROVE  /\ Guessed \in Seq(Token)
         /\ Len(Guessed) = Len(text) + Len(drafts)
         /\ \A i \in 1 .. Len(text) : Guessed[i] = text[i]
         /\ \A j \in 1 .. Len(drafts) : Guessed[Len(text) + j] = drafts[j]
BY DEF Guessed

\* The verifier's inputs are the guessed text from the unconsumed token on.
LEMMA Inputs ==
  ASSUME text \in Seq(Token), Len(text) > 0,
         drafts \in Seq(Token), Len(drafts) > 0
  PROVE  /\ VerifyInputs \in Seq(Token)
         /\ Len(VerifyInputs) = Len(drafts)
         /\ \A j \in 1 .. Len(drafts) :
              VerifyInputs[j] = Guessed[Len(text) - 1 + j]
<1> DEFINE tail == First(Len(drafts) - 1, drafts)
<1>1. /\ tail \in Seq(Token)
      /\ Len(tail) = Len(drafts) - 1
      /\ \A i \in 1 .. Len(drafts) - 1 : tail[i] = drafts[i]
  BY FirstOf
<1>2. text[Len(text)] \in Token
  OBVIOUS
<1>3. VerifyInputs = << text[Len(text)] >> \o tail
  BY DEF VerifyInputs, CurrentPos
<1> HIDE DEF tail
<1>4. /\ VerifyInputs \in Seq(Token)
      /\ Len(VerifyInputs) = 1 + Len(tail)
      /\ VerifyInputs[1] = text[Len(text)]
      /\ \A j \in 1 .. Len(tail) : VerifyInputs[1 + j] = tail[j]
  BY <1>1, <1>2, <1>3, Prepended
<1>5. ASSUME NEW j \in 1 .. Len(drafts)
      PROVE  VerifyInputs[j] = Guessed[Len(text) - 1 + j]
  <2>1. CASE j = 1
    <3>1. Len(text) \in 1 .. Len(text) /\ Len(text) - 1 + j = Len(text)
      BY <2>1
    <3> QED
      BY <2>1, <3>1, <1>4, GuessedText
  <2>2. CASE j > 1
    <3>1. j - 1 \in 1 .. Len(drafts) /\ Len(text) - 1 + j = Len(text) + (j - 1)
      BY <2>2
    <3>2. Guessed[Len(text) + (j - 1)] = drafts[j - 1]
      BY <3>1, GuessedText
    <3>3. VerifyInputs[1 + (j - 1)] = drafts[j - 1]
      BY <2>2, <1>1, <1>4
    <3> QED
      BY <3>1, <3>2, <3>3
  <2> QED
    BY <2>1, <2>2
<1> QED
  BY <1>1, <1>4, <1>5

\* What row i of the verifier has consumed.
LEMMA ConsumedIsGuessed ==
  ASSUME text \in Seq(Token), Len(text) > 0,
         drafts \in Seq(Token), Len(drafts) > 0,
         recurrent = First(Len(text) - 1, text),
         NEW i \in 1 .. Len(drafts)
  PROVE  Consumed(i) = First(Len(text) - 1 + i, Guessed)
<1> DEFINE part == First(i, VerifyInputs)
<1>1. /\ part \in Seq(Token)
      /\ Len(part) = i
      /\ \A j \in 1 .. i : part[j] = Guessed[Len(text) - 1 + j]
  <2>1. /\ VerifyInputs \in Seq(Token) /\ Len(VerifyInputs) = Len(drafts)
        /\ \A j \in 1 .. Len(drafts) :
             VerifyInputs[j] = Guessed[Len(text) - 1 + j]
    BY Inputs
  <2>2. i \in 0 .. Len(VerifyInputs) /\ \A j \in 1 .. i : j \in 1 .. Len(drafts)
    BY <2>1
  <2>3. /\ part \in Seq(Token) /\ Len(part) = i
        /\ \A j \in 1 .. i : part[j] = VerifyInputs[j]
    BY <2>1, <2>2, FirstOf
  <2> HIDE DEF part
  <2> QED
    BY <2>1, <2>2, <2>3
<1>2. /\ recurrent \in Seq(Token)
      /\ Len(recurrent) = Len(text) - 1
      /\ \A j \in 1 .. Len(text) - 1 : recurrent[j] = Guessed[j]
  <2>1. Len(text) - 1 \in 0 .. Len(text)
    OBVIOUS
  <2>2. /\ recurrent \in Seq(Token)
        /\ Len(recurrent) = Len(text) - 1
        /\ \A j \in 1 .. Len(text) - 1 : recurrent[j] = text[j]
    BY <2>1, FirstOf
  <2> QED
    BY <2>2, GuessedText
<1>3. Consumed(i) = recurrent \o part
  BY DEF Consumed
<1> HIDE DEF part
<1>4. /\ Consumed(i) \in Seq(Token)
      /\ Len(Consumed(i)) = Len(text) - 1 + i
      /\ \A k \in 1 .. Len(text) - 1 : Consumed(i)[k] = recurrent[k]
      /\ \A j \in 1 .. i : Consumed(i)[Len(text) - 1 + j] = part[j]
  <2>1. /\ Consumed(i) \in Seq(Token)
        /\ Len(Consumed(i)) = Len(recurrent) + Len(part)
        /\ \A k \in 1 .. Len(recurrent) : Consumed(i)[k] = recurrent[k]
        /\ \A j \in 1 .. Len(part) : Consumed(i)[Len(recurrent) + j] = part[j]
    BY <1>1, <1>2, <1>3, Concatenated
  <2> QED
    BY <1>1, <1>2, <2>1
<1>5. ASSUME NEW k \in 1 .. Len(text) - 1 + i
      PROVE  Consumed(i)[k] = Guessed[k]
  <2>1. CASE k <= Len(text) - 1
    BY <2>1, <1>2, <1>4
  <2>2. CASE k > Len(text) - 1
    <3>1. PICK j \in 1 .. i : k = Len(text) - 1 + j
      <4>1. k - (Len(text) - 1) \in 1 .. i
        BY <2>2
      <4> QED
        BY <4>1
    <3> QED
      BY <3>1, <1>1, <1>4
  <2> QED
    BY <2>1, <2>2
<1>6. Len(text) - 1 + i \in 0 .. Len(Guessed)
  BY GuessedText
<1> QED
  BY <1>4, <1>5, <1>6, GuessedText, IsFirst

\* Accepted is what its definition asks for: there is a first disagreement, or
\* none.
LEMMA AcceptedExists ==
  ASSUME Len(drafts) \in Nat
  PROVE  /\ Accepted \in 0 .. Len(drafts)
         /\ \A i \in 1 .. Accepted : logits[i] = drafts[i]
         /\ Accepted < Len(drafts) => logits[Accepted + 1] # drafts[Accepted + 1]
<1> DEFINE wrong == {i \in 1 .. Len(drafts) : logits[i] # drafts[i]}
           P(a) == /\ \A i \in 1 .. a : logits[i] = drafts[i]
                   /\ a < Len(drafts) => logits[a + 1] # drafts[a + 1]
<1>1. \E a \in 0 .. Len(drafts) : P(a)
  <2>1. CASE wrong = {}
    BY <2>1
  <2>2. CASE wrong # {}
    <3>1. PICK w \in wrong : \A v \in wrong : w <= v
      <4>1. wrong \subseteq Nat
        OBVIOUS
      <4> HIDE DEF wrong
      <4> QED
        BY <4>1, <2>2, LeastNatural
    <3>2. w - 1 \in 0 .. Len(drafts) /\ (w - 1) + 1 = w
      BY <3>1
    <3>3. ASSUME NEW i \in 1 .. (w - 1)
          PROVE  logits[i] = drafts[i]
      BY <3>1
    <3>4. P(w - 1)
      BY <3>1, <3>2, <3>3
    <3> QED
      BY <3>2, <3>4
  <2> QED
    BY <2>1, <2>2
<1>2. Accepted = CHOOSE a \in 0 .. Len(drafts) : P(a)
  BY DEF Accepted
<1> HIDE DEF P
<1>3. Accepted \in 0 .. Len(drafts) /\ P(Accepted)
  BY <1>1, <1>2
<1> QED
  BY <1>3 DEF P
-----------------------------------------------------------------------------
(* Initial states and steps                                                *)

\* A request starts with nothing consumed and nothing emitted.
LEMMA MtpInit == Init => MtpInv
<1> SUFFICES ASSUME Init PROVE MtpInv
  OBVIOUS
<1> USE MtpAssumption
<1>1. prompt \in Seq(Token) /\ Len(prompt) \in 1 .. MaxT
  BY DEF Init
<1>2. TypeOK
  BY <1>1 DEF Init, TypeOK, Pos, Row
<1>3. recurrent = First(Len(recurrent), prompt)
  <2>1. recurrent \in Seq(Token) /\ Len(recurrent) = 0
    BY DEF Init
  <2>2. /\ 0 \in 0 .. Len(prompt)
        /\ \A i \in 1 .. 0 : recurrent[i] = prompt[i]
    BY <1>1
  <2>3. recurrent = First(0, prompt)
    BY <1>1, <2>1, <2>2, IsFirst
  <2> QED
    BY <2>1, <2>3
<1>4. PhaseInv
  BY <1>1, <1>3 DEF Init, PhaseInv, PrefillInv, HoldGuessed
<1>5. SpeculationIsGreedy
  BY <1>1 DEF Init, SpeculationIsGreedy
<1> QED
  BY <1>2, <1>4, <1>5 DEF MtpInv

\* A prompt token is consumed; the first token of the output is the target's.
LEMMA PrefillStep == MtpInv /\ Prefill => MtpInv'
<1> SUFFICES ASSUME MtpInv, Prefill PROVE MtpInv'
  OBVIOUS
<1> USE MtpAssumption
<1> DEFINE p == Len(recurrent) + 1
<1>1. TypeOK /\ PrefillInv /\ pc = "prefill"
  BY DEF MtpInv, PhaseInv, Prefill
<1>2. /\ prompt \in Seq(Token) /\ Len(prompt) \in 1 .. MaxT
      /\ recurrent \in Seq(Token) /\ p \in 1 .. Len(prompt)
      /\ text = prompt /\ drafts = << >>
  BY <1>1 DEF TypeOK, PrefillInv
<1>3. /\ recurrent' = Append(recurrent, prompt[p])
      /\ hidden' = recurrent'
      /\ rows' = [rows EXCEPT ![p] = prompt[p]]
      /\ draftRows' = [draftRows EXCEPT ![p] = prompt[p]]
      /\ prompt' = prompt /\ maxNew' = maxNew /\ blockCap' = blockCap
      /\ drafts' = drafts /\ logits' = logits /\ boundaries' = boundaries
  BY DEF Prefill, request
<1>4. /\ recurrent' \in Seq(Token)
      /\ Len(recurrent') = p
      /\ recurrent' = First(p, prompt)
  <2>1. \A i \in 1 .. Len(recurrent) : recurrent[i] = prompt[i]
    <3>1. recurrent = First(Len(recurrent), prompt)
      BY <1>1 DEF PrefillInv
    <3>2. Len(recurrent) \in 0 .. Len(prompt)
      BY <1>2
    <3> QED
      BY <3>1, <3>2, <1>2, FirstOf
  <2>2. /\ recurrent' \in Seq(Token)
        /\ Len(recurrent') = p
        /\ \A i \in 1 .. p : recurrent'[i] = prompt[i]
    BY <1>2, <1>3, <2>1
  <2> QED
    BY <2>2, <1>2, IsFirst
<1>5. /\ p <= MaxT
      /\ \A i \in 1 .. p : rows'[i] = prompt[i] /\ draftRows'[i] = prompt[i]
      /\ rows' \in [Pos -> Row] /\ draftRows' \in [Pos -> Row]
  <2>1. Guessed = prompt
    BY <1>2 DEF Guessed
  <2>2. /\ rows \in [Pos -> Row] /\ draftRows \in [Pos -> Row]
        /\ p \in Pos /\ prompt[p] \in Row
    BY <1>1, <1>2 DEF TypeOK, Pos, Row
  <2>3. \A i \in 1 .. p - 1 : rows[i] = prompt[i] /\ draftRows[i] = prompt[i]
    BY <1>1, <1>2, <2>1 DEF PrefillInv, HoldGuessed
  <2>4. rows' \in [Pos -> Row] /\ draftRows' \in [Pos -> Row]
    BY <1>3, <2>2
  <2>5. ASSUME NEW i \in 1 .. p
        PROVE  rows'[i] = prompt[i] /\ draftRows'[i] = prompt[i]
    <3>1. i \in Pos /\ (i = p \/ i \in 1 .. p - 1)
      BY <1>2 DEF Pos
    <3> QED
      BY <3>1, <1>3, <2>2, <2>3
  <2> QED
    BY <1>2, <2>4, <2>5
<1>6. CASE p < Len(prompt)
  <2>1. pc' = pc /\ text' = text
    BY <1>6 DEF Prefill
  <2>2. TypeOK'
    BY <1>1, <1>3, <1>4, <1>5, <2>1 DEF TypeOK
  <2>3. Guessed' = prompt'
    BY <2>1, <1>2, <1>3 DEF Guessed
  <2>4. PrefillInv'
    BY <1>1, <1>2, <1>3, <1>4, <1>5, <1>6, <2>1, <2>3
       DEF PrefillInv, HoldGuessed
  <2>5. SpeculationIsGreedy'
    BY <1>2, <1>3, <2>1 DEF SpeculationIsGreedy
  <2> QED
    BY <1>1, <2>1, <2>2, <2>4, <2>5 DEF MtpInv, PhaseInv
<1>7. CASE p = Len(prompt)
  <2>1. /\ text' = Append(text, Target(recurrent', Visible(p, rows')))
        /\ pc' = BlockOrDone
    BY <1>7 DEF Prefill
  <2>2. Visible(p, rows') = First(p, prompt)
    BY <1>2, <1>5, VisibleIsFirst
  <2>3. recurrent' = prompt /\ First(p, prompt) = prompt
    BY <1>2, <1>4, <1>7, IsFirst
  <2>4. Target(prompt, prompt) \in Token
    BY <1>2, TargetType
  <2>5. text' = Append(prompt, Target(prompt, prompt))
    BY <2>1, <2>2, <2>3, <1>2
  <2>6. /\ text' \in Seq(Token)
        /\ Len(text') = p + 1
        /\ \A i \in 1 .. p : text'[i] = prompt[i]
        /\ text'[p + 1] = Target(prompt, prompt)
    BY <1>2, <1>7, <2>4, <2>5
  <2>7. First(p, text') = prompt
    BY <1>2, <1>7, <2>3, <2>6, FirstAgrees
  <2>8. pc' \in {"draft", "done"} /\ (pc' = "draft" => 1 < maxNew)
    BY <1>2, <1>7, <2>1, <2>6 DEF BlockOrDone
  <2>9. TypeOK'
    BY <1>1, <1>3, <1>4, <1>5, <2>6, <2>8 DEF TypeOK
  <2>10. SpeculationIsGreedy'
    BY <1>2, <1>3, <1>7, <2>6, <2>7 DEF SpeculationIsGreedy
  <2>11. \A i \in 1 .. p : Guessed'[i] = prompt[i]
    <3>1. Guessed' = text' \o << >>
      BY <1>2, <1>3 DEF Guessed
    <3> QED
      BY <3>1, <2>6
  <2>12. Len(drafts') = 0
    BY <1>2, <1>3
  <2>13. ASSUME pc' = "draft" PROVE DraftInv'
    <3>1. BlockLen' \in Nat \ {0}
      <4>1. /\ BlockLen' = IF blockCap <= maxNew - 1 THEN blockCap ELSE maxNew - 1
            /\ blockCap \in Nat \ {0}
            /\ maxNew \in Nat
        <5>1. Len(text') - Len(prompt') = 1
          BY <1>2, <1>3, <1>7, <2>6
        <5> QED
          BY <1>1, <1>3, <5>1 DEF BlockLen, TypeOK
      <4> QED
        BY <4>1, <2>8, <2>13
    <3>2. /\ Len(text') - 1 = p
          /\ Len(text') - 1 + Len(drafts') = p
          /\ Len(text') > Len(prompt')
          /\ Len(text') - Len(prompt') < maxNew'
      BY <2>13, <2>8, <2>6, <2>12, <1>2, <1>3, <1>7
    <3>3. /\ p <= MaxT
          /\ \A i \in 1 .. p : draftRows'[i] = Guessed'[i]
          /\ \A i \in 1 .. p : rows'[i] = Guessed'[i]
      BY <1>5, <2>11
    <3>4. /\ HoldGuessed(draftRows, Len(text) - 1 + Len(drafts))'
          /\ HoldGuessed(rows, Len(text) - 1)'
      BY <3>2, <3>3 DEF HoldGuessed
    <3>5. BlockInv'
      BY <2>12, <3>1, <3>2, <3>4 DEF BlockInv
    <3>6. /\ recurrent' = First(Len(text') - 1, text')
          /\ hidden' = recurrent'
      BY <1>3, <2>3, <2>7, <3>2
    <3> QED
      BY <2>12, <3>1, <3>4, <3>5, <3>6 DEF DraftInv
  <2> QED
    BY <2>8, <2>9, <2>10, <2>13 DEF MtpInv, PhaseInv
<1> QED
  BY <1>2, <1>6, <1>7

\* The drafter consumes the last token of the guessed text.
LEMMA DraftInputIsLast ==
  ASSUME text \in Seq(Token), Len(text) > 0, drafts \in Seq(Token)
  PROVE  /\ DraftInput = Guessed[Len(text) + Len(drafts)]
         /\ DraftInput \in Token
<1>1. CASE drafts = << >>
  BY <1>1, GuessedText DEF DraftInput, CurrentPos
<1>2. CASE drafts # << >>
  <2>1. Len(drafts) \in 1 .. Len(drafts)
    BY <1>2
  <2> QED
    BY <1>2, <2>1, GuessedText DEF DraftInput
<1> QED
  BY <1>1, <1>2

\* A guess extends the guessed text and the drafter's rows, and nothing else.
LEMMA DraftStep == MtpInv /\ Draft => MtpInv'
<1> SUFFICES ASSUME MtpInv, Draft PROVE MtpInv'
  OBVIOUS
<1> USE MtpAssumption
<1> DEFINE n == Len(text) + Len(drafts)
<1>1. TypeOK /\ DraftInv /\ SpeculationIsGreedy
  BY DEF MtpInv, PhaseInv, Draft
<1>2. /\ prompt \in Seq(Token) /\ Len(prompt) \in Nat \ {0}
      /\ text \in Seq(Token) /\ Len(text) \in Nat /\ Len(text) > Len(prompt)
      /\ drafts \in Seq(Token) /\ Len(drafts) \in Nat
      /\ draftRows \in [Pos -> Row]
  BY <1>1 DEF TypeOK, DraftInv, BlockInv
<1>3. /\ n \in Pos
      /\ draftRows' = [draftRows EXCEPT ![n] = DraftInput]
      /\ pc' = IF Len(drafts') = BlockLen THEN "verify" ELSE "draft"
      /\ prompt' = prompt /\ maxNew' = maxNew /\ blockCap' = blockCap
      /\ text' = text /\ recurrent' = recurrent /\ rows' = rows
      /\ hidden' = hidden /\ logits' = logits /\ boundaries' = boundaries
  BY <1>2 DEF Draft, CurrentPos, request, Pos
<1>4. PICK t \in Token : drafts' = Append(drafts, t)
  BY DEF Draft
<1>5. drafts' \in Seq(Token) /\ Len(drafts') = Len(drafts) + 1
  BY <1>2, <1>4
<1>6. /\ Len(Guessed) = n
      /\ \A i \in 1 .. n : Guessed'[i] = Guessed[i]
  <2>1. /\ Guessed \in Seq(Token)
        /\ Len(Guessed) = n
        /\ \A i \in 1 .. Len(text) : Guessed[i] = text[i]
        /\ \A j \in 1 .. Len(drafts) : Guessed[Len(text) + j] = drafts[j]
    BY <1>2, GuessedText
  <2>2. Guessed' = text \o drafts'
    BY <1>3 DEF Guessed
  <2>3. /\ \A i \in 1 .. Len(text) : Guessed'[i] = text[i]
        /\ \A j \in 1 .. Len(drafts') : Guessed'[Len(text) + j] = drafts'[j]
    BY <1>2, <1>5, <2>2
  <2>4. ASSUME NEW i \in 1 .. n PROVE Guessed'[i] = Guessed[i]
    <3>1. CASE i <= Len(text)
      <4>1. i \in 1 .. Len(text)
        BY <1>2, <3>1
      <4>. QED  BY ONLY <2>1, <2>3, <4>1
    <3>2. CASE i > Len(text)
      <4>1. PICK j \in 1 .. Len(drafts) : i = Len(text) + j
        <5>1. /\ i - Len(text) \in 1 .. Len(drafts)
              /\ i = Len(text) + (i - Len(text))
          BY <3>2, <1>2
        <5> QED
          BY <5>1, <1>2
      <4>2. drafts'[j] = drafts[j] /\ j \in 1 .. Len(drafts')
        BY <1>2, <1>4, <1>5
      <4> QED
        BY <4>1, <4>2, <2>1, <2>3
    <3> QED
      BY <3>1, <3>2, <1>2
  <2> QED
    BY <2>1, <2>4
<1>7. DraftInput = Guessed[n] /\ DraftInput \in Token
  BY <1>2, DraftInputIsLast
<1>8. draftRows' \in [Pos -> Row]
  BY <1>2, <1>3, <1>7 DEF Row
<1>9. BlockLen' = BlockLen
  BY <1>3 DEF BlockLen
<1>10. BlockLen \in Int
  BY <1>1, <1>2 DEF BlockLen, TypeOK
<1>11. BlockInv'
  <2>1. /\ n - 1 <= MaxT
        /\ \A i \in 1 .. n - 1 : draftRows[i] = Guessed[i]
    <3>1. HoldGuessed(draftRows, Len(text) - 1 + Len(drafts))
      BY <1>1 DEF DraftInv, BlockInv
    <3>2. Len(text) - 1 + Len(drafts) = n - 1
      BY <1>2
    <3> QED
      BY <3>1, <3>2 DEF HoldGuessed
  <2>2. ASSUME NEW i \in 1 .. n PROVE draftRows'[i] = Guessed'[i]
    <3>1. i \in Pos /\ (i = n \/ i \in 1 .. n - 1)
      <4>1. n \in Pos
        BY <1>3
      <4> HIDE DEF n
      <4> QED
        BY <4>1 DEF Pos
    <3>2. CASE i = n
      BY <3>1, <3>2, <1>2, <1>3, <1>6, <1>7
    <3>3. CASE i # n
      BY <3>1, <3>3, <1>2, <1>3, <1>6, <2>1
    <3> QED
      BY <3>2, <3>3
  <2>3. Len(text') - 1 + Len(drafts') = n /\ n <= MaxT
    BY <1>2, <1>3, <1>5 DEF Pos
  <2>4. HoldGuessed(draftRows, Len(text) - 1 + Len(drafts))'
    BY <2>2, <2>3 DEF HoldGuessed
  <2>5. Len(drafts') <= BlockLen
    BY <1>1, <1>2, <1>5, <1>10 DEF DraftInv
  <2> QED
    BY <1>1, <1>3, <1>9, <2>4, <2>5 DEF DraftInv, BlockInv
<1>12. /\ recurrent' = First(Len(text') - 1, text')
       /\ hidden' = First(Len(text') - 1, text')
       /\ HoldGuessed(rows, Len(text) - 1)'
  BY <1>1, <1>2, <1>3, <1>6 DEF DraftInv, HoldGuessed
<1>13. TypeOK'
  BY <1>1, <1>3, <1>5, <1>8 DEF TypeOK
<1>14. Len(drafts') > 0
  BY <1>2, <1>5
<1>15. pc' = "draft" => Len(drafts') < BlockLen'
  BY <1>1, <1>2, <1>3, <1>5, <1>9, <1>10 DEF DraftInv
<1>16. PhaseInv'
  BY <1>3, <1>11, <1>12, <1>14, <1>15 DEF PhaseInv, DraftInv, VerifyInv
<1>17. SpeculationIsGreedy'
  BY <1>1, <1>3 DEF SpeculationIsGreedy
<1> QED
  BY <1>13, <1>16, <1>17 DEF MtpInv

\* A request that fails keeps its text.
LEMMA FailStep == MtpInv /\ (DraftFails \/ VerifyFails \/ Returned) => MtpInv'
<1> SUFFICES ASSUME MtpInv, DraftFails \/ VerifyFails \/ Returned
             PROVE  MtpInv'
  OBVIOUS
<1>1. /\ pc' \in {"done", "failed"}
      /\ prompt' = prompt /\ maxNew' = maxNew /\ blockCap' = blockCap
      /\ text' = text /\ recurrent' = recurrent /\ rows' = rows
      /\ hidden' = hidden /\ draftRows' = draftRows /\ drafts' = drafts
      /\ logits' = logits /\ boundaries' = boundaries
  BY DEF DraftFails, VerifyFails, Returned, request, vars
<1>2. TypeOK'
  BY <1>1 DEF MtpInv, TypeOK
<1>3. SpeculationIsGreedy'
  BY <1>1 DEF MtpInv, SpeculationIsGreedy
<1> QED
  BY <1>1, <1>2, <1>3 DEF MtpInv, PhaseInv

\* Each row of the verifier is answered from the guessed text up to it, and
\* the rows it overwrites hold that text.
LEMMA VerifyStep == MtpInv /\ Verify => MtpInv'
<1> SUFFICES ASSUME MtpInv, Verify PROVE MtpInv'
  OBVIOUS
<1> USE MtpAssumption
<1> DEFINE k == Len(drafts)
           before(i) == First(Len(text) - 1 + i, Guessed)
<1>1. TypeOK /\ VerifyInv /\ SpeculationIsGreedy
  BY DEF MtpInv, PhaseInv, Verify
<1>2. /\ prompt \in Seq(Token) /\ Len(prompt) \in Nat \ {0}
      /\ text \in Seq(Token) /\ Len(text) \in Nat /\ Len(text) > Len(prompt)
      /\ drafts \in Seq(Token) /\ Len(drafts) \in Nat /\ Len(drafts) > 0
      /\ Len(text) > 0
      /\ recurrent \in Seq(Token)
      /\ rows \in [Pos -> Row]
      /\ recurrent = First(Len(text) - 1, text)
  BY <1>1 DEF TypeOK, VerifyInv, BlockInv
<1>3. /\ prompt' = prompt /\ maxNew' = maxNew /\ blockCap' = blockCap
      /\ text' = text /\ draftRows' = draftRows /\ drafts' = drafts
      /\ pc' = "commit"
      /\ boundaries' = [i \in 1 .. k |-> Consumed(i)]
      /\ logits' = [i \in 1 .. k |->
                      Target(Consumed(i), Visible(Len(text) + i - 1, rows'))]
      /\ recurrent' \in {recurrent, Consumed(k)}
      /\ hidden' = Consumed(k)
      /\ rows' = [p \in Pos |->
                    IF p \in Len(text) .. Len(text) + k - 1
                    THEN VerifyInputs[p - Len(text) + 1]
                    ELSE rows[p]]
  BY DEF Verify, request, CurrentPos
<1>4. /\ Guessed \in Seq(Token)
      /\ Len(Guessed) = Len(text) + k
  BY <1>2, GuessedText
<1>5. /\ VerifyInputs \in Seq(Token)
      /\ Len(VerifyInputs) = k
      /\ \A j \in 1 .. k : VerifyInputs[j] = Guessed[Len(text) - 1 + j]
  BY <1>2, Inputs
<1>6. Len(text) - 1 + k <= MaxT
  BY <1>1 DEF VerifyInv, BlockInv, HoldGuessed
<1>7. ASSUME NEW i \in 1 .. Len(text) - 1 + k
      PROVE  rows'[i] = Guessed[i] /\ i \in Pos
  <2>1. i \in Pos
    BY <1>2, <1>6 DEF Pos
  <2>2. CASE i < Len(text)
    <3>1. i \in 1 .. Len(text) - 1
      BY <2>2, <1>2
    <3>2. rows[i] = Guessed[i]
      BY <3>1, <1>1 DEF VerifyInv, HoldGuessed
    <3> QED
      BY <2>1, <2>2, <3>2, <1>2, <1>3
  <2>3. CASE i >= Len(text)
    <3>1. /\ i - Len(text) + 1 \in 1 .. k
          /\ Len(text) - 1 + (i - Len(text) + 1) = i
          /\ i \in Len(text) .. Len(text) + k - 1
      BY <2>3, <1>2
    <3>2. rows'[i] = VerifyInputs[i - Len(text) + 1]
      BY <2>1, <3>1, <1>3
    <3> QED
      BY <2>1, <3>1, <3>2, <1>5
  <2> QED
    BY <2>2, <2>3, <1>2
<1>8. rows' \in [Pos -> Row]
  <2>1. ASSUME NEW p \in Pos, p \in Len(text) .. Len(text) + k - 1
        PROVE  VerifyInputs[p - Len(text) + 1] \in Row
    <3>1. p - Len(text) + 1 \in 1 .. k
      BY <2>1, <1>2
    <3> QED
      BY <3>1, <1>5 DEF Row
  <2> QED
    BY <2>1, <1>2, <1>3
<1>9. ASSUME NEW i \in 1 .. k
      PROVE  /\ Consumed(i) = before(i)
             /\ before(i) \in Seq(Token)
             /\ Len(before(i)) \in 1 .. MaxT
             /\ Visible(Len(text) + i - 1, rows') = before(i)
  <2>1. Len(text) - 1 + i \in 0 .. Len(Guessed)
    BY <1>2, <1>4
  <2>2. Consumed(i) = before(i)
    BY <1>2, ConsumedIsGuessed
  <2>3. before(i) \in Seq(Token) /\ Len(before(i)) = Len(text) - 1 + i
    BY <2>1, <1>4, FirstOf
  <2>4. \A j \in 1 .. Len(text) - 1 + i : rows'[j] = Guessed[j]
    BY <1>2, <1>7
  <2>5. Visible(Len(text) - 1 + i, rows') = before(i)
    BY <2>1, <2>4, <1>4, VisibleIsFirst
  <2>6. /\ Len(text) + i - 1 = Len(text) - 1 + i
        /\ Len(text) - 1 + i \in 1 .. MaxT
    BY <1>2, <1>6
  <2> QED
    BY <2>2, <2>3, <2>5, <2>6
<1> HIDE DEF before
<1>10. ASSUME NEW i \in 1 .. k
       PROVE  /\ boundaries'[i] = before(i)
              /\ boundaries'[i] \in Seq(Token)
              /\ logits'[i] = Target(before(i), before(i))
              /\ logits'[i] \in Token
  BY <1>3, <1>9, TargetType
<1>11. /\ boundaries' \in Seq(Seq(Token)) /\ Len(boundaries') = k
       /\ logits' \in Seq(Token) /\ Len(logits') = k
  <2>1. boundaries' = [i \in 1 .. k |-> boundaries'[i]]
    BY <1>3
  <2>2. logits' = [i \in 1 .. k |-> logits'[i]]
    BY <1>3
  <2>3. boundaries' \in Seq(Seq(Token)) /\ Len(boundaries') = k
    <3>1. \A i \in 1 .. k : boundaries'[i] \in Seq(Token)
      BY <1>10
    <3>2. k \in Nat
      BY <1>2
    <3> HIDE DEF k
    <3> QED
      BY <2>1, <3>1, <3>2, TableIsSeq
  <2>4. logits' \in Seq(Token) /\ Len(logits') = k
    <3>1. \A i \in 1 .. k : logits'[i] \in Token
      BY <1>10
    <3>2. k \in Nat
      BY <1>2
    <3> HIDE DEF k
    <3> QED
      BY <2>2, <3>1, <3>2, TableIsSeq
  <2> QED
    BY <2>3, <2>4
<1>12. recurrent' \in Seq(Token) /\ hidden' \in Seq(Token)
  <2>1. k \in 1 .. k
    BY <1>2
  <2> QED
    BY <2>1, <1>2, <1>3, <1>9
<1>13. TypeOK'
  BY <1>1, <1>3, <1>8, <1>11, <1>12 DEF TypeOK
<1>14. Guessed' = Guessed /\ BlockLen' = BlockLen
  BY <1>3 DEF Guessed, BlockLen
<1>15. BlockInv'
  BY <1>1, <1>3, <1>14 DEF VerifyInv, BlockInv, HoldGuessed
<1>16. HoldGuessed(rows, Len(text) - 1 + Len(drafts))'
  BY <1>3, <1>6, <1>7, <1>14 DEF HoldGuessed
<1>17. CommitInv'
  <2>1. ASSUME NEW i \in 1 .. Len(drafts')
        PROVE  LET b == First(Len(text') - 1 + i, Guessed')
               IN  boundaries'[i] = b /\ logits'[i] = Target(b, b)
    BY <1>3, <1>10, <1>14 DEF before
  <2>2. /\ Len(drafts') > 0
        /\ Len(boundaries') = Len(drafts')
        /\ Len(logits') = Len(drafts')
    BY <1>2, <1>3, <1>11
  <2> QED
    BY <2>1, <2>2, <1>15, <1>16, Zenon DEF CommitInv
<1>18. SpeculationIsGreedy'
  BY <1>1, <1>3 DEF SpeculationIsGreedy
<1> QED
  BY <1>3, <1>13, <1>17, <1>18 DEF MtpInv, PhaseInv

\* What a block emits: the guesses up to the committed row, whose last token is
\* the target's own if the guess there was rejected.
LEMMA EmittedTokens ==
  ASSUME drafts \in Seq(Token), Len(drafts) > 0,
         logits \in Seq(Token), Len(logits) = Len(drafts)
  PROVE  /\ CommittedRow \in 1 .. Len(drafts)
         /\ Emitted \in Seq(Token)
         /\ Len(Emitted) = CommittedRow
         /\ \A j \in 1 .. CommittedRow : Emitted[j] = logits[j]
         /\ \A j \in 1 .. CommittedRow - 1 : Emitted[j] = drafts[j]
<1>1. /\ Len(drafts) \in Nat
      /\ Accepted \in 0 .. Len(drafts)
      /\ \A i \in 1 .. Accepted : logits[i] = drafts[i]
  BY AcceptedExists
<1>2. CASE Accepted = Len(drafts)
  <2>1. CommittedRow = Len(drafts) /\ Emitted = drafts
    BY <1>2 DEF CommittedRow, Emitted
  <2> QED
    BY <1>1, <1>2, <2>1
<1>3. CASE Accepted # Len(drafts)
  <2> DEFINE kept == First(Accepted, drafts)
             row == Accepted + 1
  <2>1. CommittedRow = row /\ Emitted = Append(kept, logits[row])
    BY <1>3 DEF CommittedRow, Emitted
  <2>2. /\ kept \in Seq(Token)
        /\ Len(kept) = Accepted
        /\ \A i \in 1 .. Accepted : kept[i] = drafts[i]
    BY <1>1, FirstOf
  <2>3. row \in 1 .. Len(drafts) /\ logits[row] \in Token
    BY <1>1, <1>3
  <2> HIDE DEF kept
  <2>4. /\ Emitted \in Seq(Token)
        /\ Len(Emitted) = row
        /\ \A i \in 1 .. Accepted : Emitted[i] = kept[i]
        /\ Emitted[row] = logits[row]
    BY <2>1, <2>2, <2>3, <1>1
  <2>5. \A j \in 1 .. row : j = row \/ j \in 1 .. Accepted
    BY <1>1
  <2>6. \A j \in 1 .. row : Emitted[j] = logits[j]
    BY <2>2, <2>4, <2>5, <1>1
  <2>7. \A j \in 1 .. row - 1 : Emitted[j] = drafts[j]
    BY <2>2, <2>4, <1>1
  <2> QED
    BY <2>1, <2>3, <2>4, <2>6, <2>7
<1> QED
  BY <1>2, <1>3

\* The recurrent state goes back to the committed row: it has consumed exactly
\* the new text but its last token, and every new token is the target's.
LEMMA CommitStep == MtpInv /\ Commit => MtpInv'
<1> SUFFICES ASSUME MtpInv, Commit PROVE MtpInv'
  OBVIOUS
<1> USE MtpAssumption
<1> DEFINE n == Len(text)
           m == CommittedRow
           new == text \o Emitted
<1>1. TypeOK /\ CommitInv /\ SpeculationIsGreedy
  BY DEF MtpInv, PhaseInv, Commit
<1>2. /\ prompt \in Seq(Token) /\ Len(prompt) \in Nat \ {0}
      /\ text \in Seq(Token) /\ n \in Nat /\ n > Len(prompt)
      /\ drafts \in Seq(Token) /\ Len(drafts) \in Nat /\ Len(drafts) > 0
      /\ logits \in Seq(Token) /\ Len(logits) = Len(drafts)
      /\ boundaries \in Seq(Seq(Token)) /\ Len(boundaries) = Len(drafts)
      /\ maxNew \in Nat /\ blockCap \in Nat \ {0}
  BY <1>1 DEF TypeOK, CommitInv, BlockInv
<1>3. /\ m \in 1 .. Len(drafts)
      /\ Emitted \in Seq(Token)
      /\ Len(Emitted) = m
      /\ \A j \in 1 .. m : Emitted[j] = logits[j]
      /\ \A j \in 1 .. m - 1 : Emitted[j] = drafts[j]
  BY <1>2, EmittedTokens
<1>4. /\ recurrent' = boundaries[m] /\ hidden' = boundaries[m]
      /\ text' = new
      /\ drafts' = << >> /\ logits' = << >> /\ boundaries' = << >>
      /\ pc' = BlockOrDone
      /\ prompt' = prompt /\ maxNew' = maxNew /\ blockCap' = blockCap
      /\ rows' = rows /\ draftRows' = draftRows
  BY DEF Commit, request
<1>5. /\ new \in Seq(Token)
      /\ Len(new) = n + m
      /\ \A i \in 1 .. n : new[i] = text[i]
      /\ \A j \in 1 .. m : new[n + j] = Emitted[j]
  <2>1. /\ new \in Seq(Token)
        /\ Len(new) = n + Len(Emitted)
        /\ \A i \in 1 .. n : new[i] = text[i]
        /\ \A j \in 1 .. Len(Emitted) : new[n + j] = Emitted[j]
    <3>1. text \in Seq(Token) /\ Emitted \in Seq(Token)
      BY <1>2, <1>3
    <3> QED
      BY <3>1, Concatenated
  <2> QED
    BY <2>1, <1>3
<1> HIDE DEF m, new
<1>6. /\ Guessed \in Seq(Token)
      /\ Len(Guessed) = n + Len(drafts)
      /\ \A i \in 1 .. n : Guessed[i] = text[i]
      /\ \A j \in 1 .. Len(drafts) : Guessed[n + j] = drafts[j]
  BY <1>2, GuessedText
<1>7. ASSUME NEW i \in 1 .. n + m - 1
      PROVE  new[i] = Guessed[i]
  <2>1. CASE i <= n
    BY <2>1, <1>2, <1>5, <1>6
  <2>2. CASE i > n
    <3>1. /\ i - n \in 1 .. m - 1 /\ i - n \in 1 .. m
          /\ i - n \in 1 .. Len(drafts) /\ n + (i - n) = i
      BY <2>2, <1>2, <1>3
    <3>2. new[n + (i - n)] = drafts[i - n]
      BY <3>1, <1>3, <1>5
    <3>3. Guessed[n + (i - n)] = drafts[i - n]
      BY <3>1, <1>6
    <3> QED
      BY <3>1, <3>2, <3>3
  <2> QED
    BY <2>1, <2>2, <1>2
<1>8. ASSUME NEW j \in 1 .. m
      PROVE  First(n - 1 + j, new) = First(n - 1 + j, Guessed)
  <2>1. /\ n - 1 + j \in 0 .. Len(new)
        /\ n - 1 + j <= Len(Guessed)
        /\ \A i \in 1 .. n - 1 + j : i \in 1 .. n + m - 1
    BY SMTT(30), <1>2, <1>3, <1>5, <1>6
  <2> QED
    BY <2>1, <1>5, <1>6, <1>7, FirstAgrees
<1>9. recurrent' = First(Len(text') - 1, text') /\ hidden' = recurrent'
  <2>1. boundaries[m] = First(n - 1 + m, Guessed)
    BY <1>1, <1>3 DEF CommitInv
  <2>2. m \in 1 .. m /\ n - 1 + m = Len(new) - 1
    BY <1>2, <1>3, <1>5
  <2> QED
    BY <2>1, <2>2, <1>4, <1>8
<1>10. SpeculationIsGreedy'
  <2>1. ASSUME NEW i \in Len(prompt) + 1 .. Len(new)
        PROVE  new[i] = Target(First(i - 1, new), First(i - 1, new))
    <3>1. CASE i <= n
      <4>1. /\ i \in Len(prompt) + 1 .. Len(text) /\ i \in 1 .. n
            /\ i - 1 \in 0 .. Len(new) /\ i - 1 <= Len(text)
            /\ \A l \in 1 .. i - 1 : new[l] = text[l]
        BY SMTT(30), <3>1, <1>2, <1>3, <1>5
      <4>2. First(i - 1, new) = First(i - 1, text)
        BY <4>1, <1>2, <1>5, FirstAgrees
      <4> QED
        BY <4>1, <4>2, <1>1, <1>5 DEF SpeculationIsGreedy
    <3>2. CASE i > n
      <4>1. PICK j \in 1 .. m : i = n + j /\ i - 1 = n - 1 + j
        <5>1. i - n \in 1 .. m /\ i = n + (i - n) /\ i - 1 = n - 1 + (i - n)
          BY <3>2, <1>2, <1>3, <1>5
        <5> QED
          BY <5>1
      <4>2. j \in 1 .. Len(drafts)
        BY <1>2, <1>3
      <4>3. logits[j] = Target(First(n - 1 + j, Guessed), First(n - 1 + j, Guessed))
        BY <4>2, <1>1 DEF CommitInv
      <4>4. new[n + j] = logits[j]
        BY <1>3, <1>5
      <4> QED
        BY <4>1, <4>3, <4>4, <1>8
    <3> QED
      BY <3>1, <3>2, <1>2, <1>5
  <2> QED
    BY <2>1, <1>4 DEF SpeculationIsGreedy
<1>11. recurrent' \in Seq(Token) /\ hidden' \in Seq(Token)
  BY <1>2, <1>3, <1>4
<1>12. pc' \in {"draft", "done"}
       /\ (pc' = "draft" => Len(text') - Len(prompt') < maxNew')
  BY <1>4 DEF BlockOrDone
<1>13. TypeOK'
  BY <1>1, <1>4, <1>5, <1>11, <1>12 DEF TypeOK
<1>14. ASSUME pc' = "draft" PROVE DraftInv'
  <2>1. /\ Len(text') - Len(prompt') < maxNew'
        /\ Len(text') > Len(prompt')
        /\ Len(drafts') = 0
        /\ Len(text') - 1 = n + m - 1
        /\ Len(text') - 1 + Len(drafts') = n + m - 1
    BY <1>2, <1>3, <1>4, <1>5, <1>12, <1>14
  <2>2. BlockLen' \in Nat \ {0}
    <3> DEFINE left == maxNew' - (Len(text') - Len(prompt'))
    <3>1. left \in Nat \ {0}
      BY SMTT(30), <2>1, <1>2, <1>4, <1>5
    <3>2. BlockLen' = IF blockCap' <= left THEN blockCap' ELSE left
      BY DEF BlockLen
    <3> QED
      BY <3>1, <3>2, <1>2, <1>4
  <2>3. \A i \in 1 .. n + m - 1 : Guessed'[i] = Guessed[i]
    <3>1. Guessed' = new \o << >>
      BY <1>4 DEF Guessed
    <3>2. Guessed' = new
      BY <3>1, <1>5
    <3> QED
      BY <3>2, <1>7
  <2>4. /\ n + m - 1 <= MaxT
        /\ \A i \in 1 .. n + m - 1 : rows[i] = Guessed[i]
        /\ \A i \in 1 .. n + m - 1 : draftRows[i] = Guessed[i]
    <3>1. /\ n - 1 + Len(drafts) <= MaxT
          /\ \A i \in 1 .. n - 1 + Len(drafts) : rows[i] = Guessed[i]
          /\ \A i \in 1 .. n - 1 + Len(drafts) : draftRows[i] = Guessed[i]
      BY <1>1 DEF CommitInv, BlockInv, HoldGuessed
    <3> QED
      BY SMTT(30), <3>1, <1>2, <1>3
  <2>5. /\ HoldGuessed(rows, Len(text) - 1)'
        /\ HoldGuessed(draftRows, Len(text) - 1 + Len(drafts))'
    BY <2>1, <2>3, <2>4, <1>4 DEF HoldGuessed
  <2>6. BlockInv'
    BY <2>1, <2>2, <2>5 DEF BlockInv
  <2> QED
    BY <2>1, <2>2, <2>5, <2>6, <1>9 DEF DraftInv
<1> QED
  BY <1>10, <1>12, <1>13, <1>14 DEF MtpInv, PhaseInv
-----------------------------------------------------------------------------
\* The invariant holds in every reachable state.
THEOREM MtpInvariant == Spec => []MtpInv
<1>1. MtpInv /\ [Next]_vars => MtpInv'
  <2> SUFFICES ASSUME MtpInv, [Next]_vars PROVE MtpInv'
    OBVIOUS
  <2>1. CASE UNCHANGED vars
    BY <2>1 DEF vars, MtpInv, TypeOK, PhaseInv, PrefillInv, DraftInv, VerifyInv,
       CommitInv, BlockInv, HoldGuessed, Guessed, BlockLen, SpeculationIsGreedy
  <2>2. CASE Next
    BY <2>2, PrefillStep, DraftStep, VerifyStep, CommitStep, FailStep DEF Next
  <2> QED
    BY <2>1, <2>2
<1> QED
  BY MtpInit, <1>1, PTL DEF Spec

\* Whatever the drafter guesses and whichever rows are rejected, the output of
\* run_greedy_mtp is what the target alone decodes.
THEOREM Greedy == Spec => []SpeculationIsGreedy
<1>1. MtpInv => SpeculationIsGreedy
  BY DEF MtpInv
<1> QED
  BY <1>1, MtpInvariant, PTL

\* Moving the last element of s in front of d.
LEMMA Shifted ==
  ASSUME NEW s \in Seq(Token), Len(s) > 0, NEW d \in Seq(Token)
  PROVE  First(Len(s) - 1 + Len(d), s \o d)
           = First(Len(s) - 1, s) \o First(Len(d), << s[Len(s)] >> \o d)
<1> DEFINE n == Len(s) - 1
           k == Len(d)
           last == << s[Len(s)] >> \o d
           front == First(n, s)
           back == First(k, last)
           seen == front \o back
           all == s \o d
<1>1. n \in Nat /\ k \in Nat /\ n \in 0 .. Len(s) /\ s[Len(s)] \in Token
      /\ Len(s) = n + 1
  OBVIOUS
<1>2. /\ last \in Seq(Token)
      /\ Len(last) = 1 + k
      /\ last[1] = s[Len(s)]
      /\ \A j \in 1 .. k : last[1 + j] = d[j]
  BY <1>1, Prepended
<1>3. /\ all \in Seq(Token)
      /\ Len(all) = Len(s) + k
      /\ \A i \in 1 .. Len(s) : all[i] = s[i]
      /\ \A j \in 1 .. k : all[Len(s) + j] = d[j]
  BY Concatenated
<1>4. k \in 0 .. Len(last) /\ n + k \in 0 .. Len(all)
  BY <1>1, <1>2, <1>3
<1> HIDE DEF last, all, n, k
<1>5. /\ back \in Seq(Token)
      /\ Len(back) = k
      /\ \A j \in 1 .. k : back[j] = last[j]
  BY <1>2, <1>4, FirstOf
<1>6. /\ front \in Seq(Token)
      /\ Len(front) = n
      /\ \A i \in 1 .. n : front[i] = s[i]
  BY <1>1, FirstOf
<1> HIDE DEF front, back
<1>7. /\ seen \in Seq(Token)
      /\ Len(seen) = Len(front) + Len(back)
      /\ \A i \in 1 .. Len(front) : seen[i] = front[i]
      /\ \A j \in 1 .. Len(back) : seen[Len(front) + j] = back[j]
  <2>1. front \in Seq(Token) /\ back \in Seq(Token)
    BY <1>5, <1>6
  <2> QED
    BY <2>1, Concatenated
<1> HIDE DEF seen
<1>8. /\ Len(seen) = n + k
      /\ \A i \in 1 .. n : seen[i] = s[i]
      /\ \A j \in 1 .. k : seen[n + j] = last[j]
  BY <1>1, <1>5, <1>6, <1>7
<1>9. ASSUME NEW i \in 1 .. n + k PROVE seen[i] = all[i]
  <2>1. CASE i <= n
    BY <2>1, <1>1, <1>3, <1>8
  <2>2. CASE i = n + 1
    <3>1. 1 \in 1 .. k /\ Len(s) \in 1 .. Len(s) /\ i = Len(s)
      BY <2>2, <1>1
    <3> QED
      BY <3>1, <2>2, <1>2, <1>3, <1>8
  <2>3. CASE i > n + 1
    <3>1. PICK j \in 1 .. k - 1 : i = n + 1 + j
      <4>1. i - n - 1 \in 1 .. k - 1 /\ i = n + 1 + (i - n - 1)
        BY <2>3, <1>1
      <4> QED
        BY <4>1
    <3>2. /\ 1 + j \in 1 .. k /\ j \in 1 .. k
          /\ i = n + (1 + j) /\ i = Len(s) + j
      BY <3>1, <1>1
    <3>3. seen[i] = last[1 + j]
      BY <3>2, <1>8
    <3>4. last[1 + j] = d[j] /\ all[Len(s) + j] = d[j]
      BY <3>2, <1>2, <1>3
    <3> QED
      BY <3>2, <3>3, <3>4
  <2> QED
    BY <2>1, <2>2, <2>3, <1>1
<1>10. seen = First(n + k, all)
  BY <1>3, <1>4, <1>7, <1>8, <1>9, IsFirst
<1> QED
  BY <1>10 DEF seen, front, back, last, all, n, k

\* Between blocks recurrent state, hidden state and all rows that will be read
\* stand for the text but its last token.
THEOREM Boundary == Spec => []BoundaryExact
<1>1. MtpInv => BoundaryExact
  <2> SUFFICES ASSUME MtpInv, pc = "draft" PROVE BoundaryExact
    BY DEF BoundaryExact
  <2> DEFINE n == Len(text) - 1
             k == Len(drafts)
  <2>1. TypeOK /\ DraftInv /\ MaxT \in Nat
    BY MtpAssumption DEF MtpInv, PhaseInv
  <2>2. text \in Seq(Token) /\ drafts \in Seq(Token) /\ Len(text) > 0
    BY <2>1, MtpAssumption DEF TypeOK, DraftInv, BlockInv
  <2>3. /\ Guessed \in Seq(Token)
        /\ Len(Guessed) = Len(text) + k
        /\ \A i \in 1 .. Len(text) : Guessed[i] = text[i]
    BY <2>2, GuessedText
  <2>4. /\ \A i \in 1 .. n : rows[i] = Guessed[i]
        /\ \A i \in 1 .. n + k : draftRows[i] = Guessed[i]
    BY <2>1, <2>2 DEF DraftInv, BlockInv, HoldGuessed
  <2>5. Visible(n, rows) = First(n, text)
    <3>1. n \in 0 .. Len(text) /\ \A i \in 1 .. n : rows[i] = text[i]
      BY <2>2, <2>3, <2>4
    <3> QED
      BY <3>1, <2>2, VisibleIsFirst
  <2>6. Visible(n + k, draftRows) = First(n + k, Guessed)
    <3>1. n + k \in 0 .. Len(Guessed)
      BY <2>2, <2>3
    <3> QED
      BY <3>1, <2>3, <2>4, VisibleIsFirst
  <2>7. First(n + k, Guessed)
          = First(n, text) \o First(k, << text[Len(text)] >> \o drafts)
    BY <2>2, Shifted DEF Guessed
  <2>8. recurrent = First(n, text) /\ hidden = First(n, text)
    BY <2>1 DEF DraftInv
  <2> QED
    BY <2>5, <2>6, <2>7, <2>8 DEF BoundaryExact
<1> QED
  BY <1>1, MtpInvariant, PTL

-----------------------------------------------------------------------------
(***************************************************************************)
(* run_greedy_scheduled.  One operation of the driver is out at a time,    *)
(* and where it is says what the layers have applied.                      *)
(***************************************************************************)
\* The driver has given up or is done: nothing is appended to the output.
Over == dpc \in {"finish", "finished", "shutdown", "join", "returned"}

\* The first n tokens of the text the canonical path would have.
History(n) == SubSeq(prompt \o output, 1, n)

\* The PLE ring and the layers below l have applied the due token, the others
\* have not.
AppliedTo(l) == [j \in 0 .. Layers |-> History(IF j < l THEN step + 1 ELSE step)]

\* Between two operations: no step has begun, or it is paused at a layer that
\* has applied the token and knows its route.
Paused ==
  /\ pause # None
  /\ pause.token = Feed.token /\ pause.pos = step
  /\ pause.layer \in Layer /\ pause.route \in Route
  /\ applied = AppliedTo(pause.layer + 1)
Between == (pause = None /\ applied = AppliedTo(0)) \/ Paused

\* What an outcome says of the operation that ended.
Fits(o) ==
  /\ o.kind \in {"Need", "Loaded"} => Between
  /\ o.kind = "Token" =>
       /\ cold = << >> /\ pause = None /\ applied = AppliedTo(Layers + 1)
       /\ o.token = Canonical(History(step + 1))

\* The worker in the middle of the operation.
InLayers ==
  /\ cold = << >> /\ pause = None
  /\ at.layer \in 1 .. Layers + 1 /\ at.route \in Route \cup {None}
  /\ \E l : /\ l = IF at.route = None THEN at.layer ELSE at.layer + 1
           /\ applied = AppliedTo(l)
Working ==
  \/ wpc = "load" /\ cold # << >> /\ Between
  \/ wpc = "layer" /\ InLayers
  \/ wpc = "log" /\ Fits(outcome)

\* The commands of the channel that are submissions: none, or one.
Unsubmitted(q) == \A i \in 1 .. Len(q) : q[i].kind # "Submit"
Submits(q, op) ==
  \E i \in 1 .. Len(q) :
    /\ q[i].kind = "Submit" /\ q[i].op = op
    /\ \A j \in 1 .. Len(q) : q[j].kind = "Submit" => j = i

Unlogged == \A e \in log : e.ticket # tickets
Quiet == wpc \in {"recv", "send", "exited"}

\* Where the operation is.
Nowhere == Unsubmitted(cmds) /\ jobs = << >> /\ Quiet /\ Unlogged /\ Between
InChannel == Submits(cmds, Due) /\ jobs = << >> /\ Quiet /\ Unlogged /\ Between
InQueue ==
  /\ Unsubmitted(cmds) /\ jobs = << [ticket |-> tickets, op |-> Due] >>
  /\ Quiet /\ Unlogged /\ Between
AtWorker ==
  /\ Unsubmitted(cmds) /\ jobs = << >>
  /\ job = [ticket |-> tickets, op |-> Due] /\ Working /\ Unlogged
InLog ==
  /\ Unsubmitted(cmds) /\ jobs = << >> /\ Quiet
  /\ \E e \in log : /\ e.ticket = tickets /\ Fits(e.outcome)
                    /\ \A x \in log : x.ticket = tickets => x = e
Out == InChannel \/ InQueue \/ AtWorker \/ InLog

\* How far the output is behind the steps.
Pace ==
  /\ prompt # << >>
  /\ \/ output = << >> /\ step <= Len(prompt) - 1
     \/ step = Len(prompt) + Len(output) - 1
Fed == IF dpc \in {"create", "created"} THEN step = 0 /\ output = << >> ELSE Pace

Operation ==
  /\ tickets \in Nat /\ \A e \in log : e.ticket \in 0 .. tickets
  /\ \/ dpc \in {"create", "created", "submit", "submitted", "wait", "acked"} /\ Nowhere
     \/ dpc \in {"submitted", "wait", "acked"} /\ Out
  /\ Fed

IsSeq(q) == \E S : q \in Seq(S)

\* The inductive invariant.
ScheduledInv ==
  /\ prompt \in Seq(Token) /\ step \in Nat /\ IsSeq(cmds) /\ IsSeq(output)
  /\ ScheduledIsGreedy
  /\ Over \/ Operation

\* u is q with x at its end; u is q without its head.
Longer(q, x, u) ==
  /\ IsSeq(u) /\ Len(q) \in Nat /\ Len(u) = Len(q) + 1
  /\ u[Len(u)] = x /\ \A i \in 1 .. Len(q) : u[i] = q[i]
Shorter(q, u) ==
  /\ IsSeq(u) /\ Len(q) \in Nat /\ Len(u) = Len(q) - 1 /\ Len(q) >= 1
  /\ Head(q) = q[1] /\ \A i \in 1 .. Len(u) : u[i] = q[i + 1]

LEMMA Appended == ASSUME NEW q, IsSeq(q), NEW x PROVE Longer(q, x, Append(q, x))
<1>1. PICK S : q \in Seq(S)
  BY DEF IsSeq
<1>. DEFINE T == S \cup {x}
            u == Append(q, x)
<1>2. q \in Seq(T) /\ x \in T
  BY <1>1
<1>. HIDE DEF T
<1>3. u \in Seq(T)
  BY <1>2
<1>. QED  BY <1>2, <1>3 DEF IsSeq, Longer

LEMMA Dropped == ASSUME NEW q, IsSeq(q), q # << >> PROVE Shorter(q, Tail(q))
<1>. DEFINE u == Tail(q)
<1>1. PICK S : q \in Seq(S)
  BY DEF IsSeq
<1>2. u \in Seq(S)
  BY <1>1
<1>. QED  BY <1>1, <1>2 DEF IsSeq, Shorter

\* Commands that are no submissions come and go.
Kept(q, u) ==
  /\ IsSeq(u)
  /\ Unsubmitted(q) => Unsubmitted(u)
  /\ \A op : Submits(q, op) => Submits(u, op)

LEMMA OtherSent ==
  ASSUME NEW q, IsSeq(q), NEW x, x.kind # "Submit" PROVE Kept(q, Append(q, x))
<1>1. PICK u : u = Append(q, x)
  OBVIOUS
<1>2. Longer(q, x, u)
  BY <1>1, Appended
<1>3. Unsubmitted(q) => Unsubmitted(u)
  BY ONLY <1>2, x.kind # "Submit" DEF Unsubmitted, Longer
<1>4. ASSUME NEW op, Submits(q, op) PROVE Submits(u, op)
  BY ONLY <1>2, <1>4, x.kind # "Submit", SMTT(30) DEF Submits, Longer
<1>. QED  BY <1>1, <1>2, <1>3, <1>4 DEF Kept, Longer

LEMMA OtherHandled ==
  ASSUME NEW q, IsSeq(q), q # << >>, Head(q).kind # "Submit" PROVE Kept(q, Tail(q))
<1>1. PICK u : u = Tail(q)
  OBVIOUS
<1>2. Shorter(q, u)
  BY <1>1, Dropped
<1>3. Unsubmitted(q) => Unsubmitted(u)
  BY ONLY <1>2 DEF Unsubmitted, Shorter
<1>4. ASSUME NEW op, Submits(q, op) PROVE Submits(u, op)
  <2>1. PICK i \in 1 .. Len(q) :
          /\ q[i].kind = "Submit" /\ q[i].op = op
          /\ \A j \in 1 .. Len(q) : q[j].kind = "Submit" => j = i
    BY <1>4 DEF Submits
  <2>2. i # 1 /\ i - 1 \in 1 .. Len(u) /\ u[i - 1] = q[i]
    BY ONLY <1>2, <2>1, i \in 1 .. Len(q), Head(q).kind # "Submit" DEF Shorter
  <2>3. \A j \in 1 .. Len(u) : u[j].kind = "Submit" => j = i - 1
    BY ONLY <1>2, <2>1, i \in 1 .. Len(q) DEF Shorter
  <2>. QED  BY ONLY <2>1, <2>2, <2>3 DEF Submits
<1>. QED  BY <1>1, <1>2, <1>3, <1>4 DEF Kept, Shorter

\* The text grows by the due token, and what is in it stays when the output
\* grows.
LEMMA HistoryGrows ==
  ASSUME prompt \in Seq(Token), IsSeq(output), NEW n \in Nat,
         n < Len(prompt) + Len(output)
  PROVE  History(n + 1) = Append(History(n), (prompt \o output)[n + 1])
<1>1. PICK S : output \in Seq(S)
  BY DEF IsSeq
<1>. DEFINE T == S \cup Token
            u == prompt \o output
<1>2. prompt \in Seq(T) /\ output \in Seq(T)
  BY <1>1
<1>. HIDE DEF T
<1>3. u \in Seq(T) /\ Len(u) = Len(prompt) + Len(output) /\ Len(u) \in Nat
  BY <1>2
<1>. HIDE DEF u
<1>4. SubSeq(u, 1, n + 1) = Append(SubSeq(u, 1, n), u[n + 1])
  BY <1>3
<1>. QED  BY <1>4 DEF History, u

LEMMA HistoryStays ==
  ASSUME NEW p \in Seq(Token), NEW q, IsSeq(q), NEW x, NEW n \in Nat,
         n <= Len(p) + Len(q)
  PROVE  SubSeq(p \o Append(q, x), 1, n) = SubSeq(p \o q, 1, n)
<1>1. PICK S : q \in Seq(S)
  BY DEF IsSeq
<1>. DEFINE T == S \cup Token \cup {x}
            u == p \o q
            v == p \o Append(q, x)
<1>2. p \in Seq(T) /\ q \in Seq(T) /\ x \in T
  BY <1>1
<1>. HIDE DEF T
<1>3. u \in Seq(T) /\ Len(u) = Len(p) + Len(q) /\ Len(u) \in Nat
  BY <1>2
<1>4. v \in Seq(T) /\ Len(v) = Len(p) + Len(q) + 1
  BY <1>2
<1>5. \A i \in 1 .. Len(u) : v[i] = u[i]
  BY <1>2
<1>. HIDE DEF u, v
<1>. QED  BY <1>3, <1>4, <1>5 DEF u, v

\* The token is applied by layer l, or by the PLE ring for l = 0.
LEMMA AppliedOnce ==
  ASSUME ScheduledInv, Pace, NEW l \in 0 .. Layers, applied = AppliedTo(l)
  PROVE  [applied EXCEPT ![l] = Append(@, Feed.token)] = AppliedTo(l + 1)
<1>1. /\ prompt \in Seq(Token) /\ step \in Nat /\ IsSeq(output)
      /\ Len(prompt) \in Nat /\ Len(output) \in Nat
  BY DEF ScheduledInv, IsSeq
<1>2. step < Len(prompt) + Len(output)
  BY <1>1 DEF Pace
<1>3. History(step + 1) = Append(History(step), Feed.token)
  BY <1>1, <1>2, HistoryGrows DEF Feed
<1>. DEFINE a == History(step)
            b == History(step + 1)
<1>4. /\ AppliedTo(l) = [j \in 0 .. Layers |-> IF j < l THEN b ELSE a]
      /\ AppliedTo(l + 1) = [j \in 0 .. Layers |-> IF j < l + 1 THEN b ELSE a]
  BY DEF AppliedTo
<1>5. b = Append(a, Feed.token)
  BY <1>3
<1>. HIDE DEF a, b
<1>6. [applied EXCEPT ![l] = Append(@, Feed.token)] = [applied EXCEPT ![l] = b]
  <2>1. applied[l] = a
    BY <1>4
  <2>. QED  BY <1>5, <2>1
<1>7. \A j \in 0 .. Layers : j < l + 1 <=> j < l \/ j = l
  OBVIOUS
<1>. QED  BY <1>4, <1>6, <1>7

LEMMA AllApplied ==
  \A n \in Nat : n > Layers => AppliedTo(n) = [l \in 0 .. Layers |-> History(step + 1)]
BY ScheduledAssumption DEF AppliedTo

LEMMA RouteKnown == \A r \in Route : r # None
<1>. SUFFICES ASSUME NEW r \in Route, r = None PROVE FALSE
  OBVIOUS
<1>1. DOMAIN r = 1 .. TopK /\ 1 \in 1 .. TopK
  BY ScheduledAssumption DEF Route
<1>2. DOMAIN << >> = {}
  OBVIOUS
<1>. QED  BY <1>1, <1>2 DEF None

\* What depends only on the driver's place in the text and on the worker's
\* persistent state.
LEMMA SamePlace ==
  ASSUME UNCHANGED << prompt, output, step >>
  PROVE  /\ Feed' = Feed
         /\ \A n : History(n)' = History(n)
         /\ \A l : AppliedTo(l)' = AppliedTo(l)
         /\ ScheduledIsGreedy => ScheduledIsGreedy'
BY DEF Feed, History, AppliedTo, ScheduledIsGreedy, Canonical

LEMMA SameState ==
  ASSUME UNCHANGED << prompt, output, step, pause, applied >>
  PROVE  Between' = Between
<1>1. Feed' = Feed /\ \A l : AppliedTo(l)' = AppliedTo(l)
  BY SamePlace
<1>2. AppliedTo(pause.layer + 1)' = AppliedTo(pause.layer + 1) /\ AppliedTo(0)' = AppliedTo(0)
  BY SamePlace DEF AppliedTo, History
<1>. QED  BY <1>1, <1>2 DEF Between, Paused

LEMMA SameOperation ==
  ASSUME UNCHANGED << prompt, output, step, pause, applied, cold >>
  PROVE  Due' = Due /\ \A o : Fits(o)' = Fits(o)
<1>1. Due' = Due
  BY SamePlace DEF Due
<1>2. AppliedTo(Layers + 1)' = AppliedTo(Layers + 1)
      /\ Canonical(History(step + 1))' = Canonical(History(step + 1))
  BY DEF AppliedTo, History, Canonical
<1>. QED  BY <1>1, <1>2, SameState DEF Fits

\* Once the driver has stopped, or when it stops, the output is what it is.
LEMMA StoppedStep ==
  ASSUME ScheduledInv, Over', UNCHANGED << prompt, output, step >>, IsSeq(cmds')
  PROVE  ScheduledInv'
<1>1. ScheduledIsGreedy'
  BY SamePlace DEF ScheduledInv
<1>2. (prompt \in Seq(Token) /\ step \in Nat /\ IsSeq(cmds) /\ IsSeq(output))'
  BY DEF ScheduledInv, IsSeq
<1>. QED  BY <1>1, <1>2 DEF ScheduledInv

\* Where the driver goes while its operation is out, or before the first one.
Onward ==
  \/ dpc' = dpc
  \/ dpc = "create" /\ dpc' = "created"
  \/ dpc = "created" /\ dpc' = "submit" /\ prompt # << >>
  \/ dpc = "submitted" /\ dpc' = "wait"
  \/ dpc = "wait" /\ dpc' = "acked"

\* Steps that leave the operation where it is.
LEMMA AsideStep ==
  ASSUME ScheduledInv, Onward, Kept(cmds, cmds'),
         UNCHANGED << prompt, output, step, cold, pause, applied, jobs, log, tickets >>,
         \/ UNCHANGED << wpc, job, at, outcome >>
         \/ Quiet /\ Quiet'
  PROVE  ScheduledInv'
<1>1. CASE Over
  <2>1. Over'
    BY <1>1 DEF Over, Onward
  <2>. QED  BY <2>1, StoppedStep DEF Kept
<1>2. CASE ~ Over
  <2>0. Operation
    BY <1>2 DEF ScheduledInv
  <2>1. Due' = Due /\ Between' = Between /\ \A o : Fits(o)' = Fits(o)
    BY SameOperation, SameState
  <2>2. Unlogged' = Unlogged
    BY DEF Unlogged
  <2>3. Quiet => Quiet'
    BY DEF Quiet
  <2>4. /\ Unsubmitted(cmds) => Unsubmitted(cmds')
        /\ Submits(cmds, Due) => Submits(cmds', Due)
    BY DEF Kept
  <2>5. Nowhere => Nowhere'
    BY <2>1, <2>2, <2>3, <2>4 DEF Nowhere
  <2>6. InChannel => InChannel'
    BY <2>1, <2>2, <2>3, <2>4 DEF InChannel
  <2>7. InQueue => InQueue'
    BY <2>1, <2>2, <2>3, <2>4 DEF InQueue
  <2>8. InLog => InLog'
    BY <2>1, <2>3, <2>4 DEF InLog
  <2>9. AtWorker => AtWorker'
    <3>. SUFFICES ASSUME AtWorker PROVE AtWorker'
      OBVIOUS
    <3>1. ~ Quiet
      BY DEF AtWorker, Working, Quiet
    <3>2. UNCHANGED << wpc, job, at, outcome >>
      BY <3>1
    <3>3. InLayers' = InLayers
      BY <3>2 DEF InLayers, AppliedTo, History
    <3>4. Fits(outcome)' = Fits(outcome)
      BY <2>1, <3>2, SameState DEF Fits, AppliedTo, History, Canonical
    <3>5. Working'
      BY <2>1, <3>2, <3>3, <3>4 DEF AtWorker, Working
    <3>. QED  BY <2>1, <2>2, <2>4, <3>2, <3>5 DEF AtWorker
  <2>10. Fed'
    BY <2>0 DEF Operation, Fed, Pace, Onward
  <2>11. Operation'
    BY <2>0, <2>5, <2>6, <2>7, <2>8, <2>9, <2>10 DEF Operation, Out, Onward
  <2>12. ScheduledIsGreedy'
    BY SamePlace DEF ScheduledInv
  <2>. QED  BY <2>11, <2>12 DEF ScheduledInv, IsSeq, Kept
<1>. QED  BY <1>1, <1>2

\* What every step that moves the operation leaves alone, or establishes.
LEMMA MovedStep ==
  ASSUME ScheduledInv, UNCHANGED << prompt, output, step >>, IsSeq(cmds'), Operation'
  PROVE  ScheduledInv'
BY SamePlace DEF ScheduledInv, IsSeq

LEMMA SubmitOpStep == ASSUME ScheduledInv, SubmitOp PROVE ScheduledInv'
<1>1. /\ dpc = "submit" /\ Request([kind |-> "Submit", op |-> Due], "submitted", "finish")
      /\ UNCHANGED << prompt, output, step, cold, pause, applied, jobs, wpc, job,
                      at, outcome, log, tickets >>
  BY DEF SubmitOp, scheduler, worker
<1>2. IsSeq(cmds) /\ Operation /\ Nowhere /\ Pace
  BY <1>1 DEF ScheduledInv, Over, Operation, Fed
<1>3. CASE ~ Room
  <2>1. cmds' = cmds /\ Over'
    BY <1>1, <1>3 DEF Request, Over
  <2>. QED  BY <1>1, <1>2, <2>1, StoppedStep
<1>4. CASE Room
  <2>. DEFINE c == [kind |-> "Submit", op |-> Due]
  <2>1. cmds' = Append(cmds, c) /\ dpc' = "submitted"
    BY <1>1, <1>4 DEF Request
  <2>2. c.kind = "Submit" /\ c.op = Due
    OBVIOUS
  <2>. HIDE DEF c
  <2>3. Longer(cmds, c, cmds')
    BY <1>2, <2>1, Appended
  <2>4. Submits(cmds', Due)
    BY <1>2, <2>2, <2>3 DEF Submits, Longer, Nowhere, Unsubmitted
  <2>5. Due' = Due /\ Between' = Between
    BY <1>1, SameOperation, SameState
  <2>6. InChannel'
    BY <1>1, <1>2, <2>4, <2>5 DEF InChannel, Nowhere, Quiet, Unlogged
  <2>7. Operation'
    BY <1>1, <1>2, <2>1, <2>6 DEF Operation, Out, Fed, Pace
  <2>. QED  BY <1>1, <2>3, <2>7, MovedStep DEF Longer
<1>. QED  BY <1>3, <1>4

\* A submission is accepted and goes to the worker's queue, or is refused.
LEMMA HandleSubmitStep ==
  ASSUME ScheduledInv, ~ Over, HandleSubmit PROVE ScheduledInv'
<1>1. /\ cmds # << >> /\ Head(cmds).kind = "Submit" /\ cmds' = Tail(cmds)
      /\ jobs = << >>
      /\ UNCHANGED << prompt, output, step, cold, pause, applied, wpc, job,
                      at, outcome, log, dpc >>
  BY DEF HandleSubmit, Handles, Answer, driver, worker
<1>2. \/ tickets' = tickets /\ jobs' = jobs
      \/ tickets' = tickets + 1
         /\ jobs' = << [ticket |-> tickets + 1, op |-> Head(cmds).op] >>
  BY DEF HandleSubmit
<1>3. IsSeq(cmds) /\ Operation
  BY DEF ScheduledInv
<1>4. Shorter(cmds, cmds')
  BY <1>1, <1>3, Dropped
<1>5. InChannel /\ dpc \in {"submitted", "wait", "acked"}
  <2>1. ~ Unsubmitted(cmds)
    BY <1>1, <1>4 DEF Unsubmitted, Shorter
  <2>. QED  BY <1>3, <2>1 DEF Operation, Nowhere, Out, InQueue, AtWorker, InLog
<1>6. Head(cmds).op = Due /\ Unsubmitted(cmds')
  <2>1. PICK i \in 1 .. Len(cmds) :
          /\ cmds[i].op = Due
          /\ \A j \in 1 .. Len(cmds) : cmds[j].kind = "Submit" => j = i
    BY <1>5 DEF InChannel, Submits
  <2>2. i = 1
    BY <1>1, <1>4, <2>1 DEF Shorter
  <2>. QED  BY <1>4, <2>1, <2>2 DEF Shorter, Unsubmitted
<1>7. Due' = Due /\ Between' = Between
  BY <1>1, SameOperation, SameState
<1>8. Fed' /\ tickets' \in Nat /\ \A e \in log' : e.ticket \in 0 .. tickets'
  BY <1>1, <1>2, <1>3 DEF Operation, Fed, Pace
<1>9. CASE tickets' = tickets /\ jobs' = jobs
  <2>1. Nowhere'
    BY <1>1, <1>5, <1>6, <1>7, <1>9 DEF Nowhere, InChannel, Quiet, Unlogged
  <2>2. Operation'
    BY <1>1, <1>5, <1>8, <2>1 DEF Operation
  <2>. QED  BY <1>1, <1>4, <2>2, MovedStep DEF Shorter
<1>10. CASE /\ tickets' = tickets + 1
            /\ jobs' = << [ticket |-> tickets + 1, op |-> Head(cmds).op] >>
  <2>1. Unlogged'
    BY <1>1, <1>3, <1>10 DEF Unlogged, Operation
  <2>2. InQueue'
    BY <1>1, <1>5, <1>6, <1>7, <1>10, <2>1 DEF InQueue, InChannel, Quiet
  <2>3. Operation'
    BY <1>1, <1>5, <1>8, <2>2 DEF Operation, Out
  <2>. QED  BY <1>1, <1>4, <2>3, MovedStep DEF Shorter
<1>. QED  BY <1>2, <1>9, <1>10

\* The worker is at layer l, which has applied the token if its route is known.
LEMMA Entered ==
  ASSUME UNCHANGED << prompt, output, step >>, cold' = << >>, pause' = None,
         NEW l \in 1 .. Layers + 1, NEW r \in Route \cup {None},
         at' = [layer |-> l, route |-> r],
         applied' = AppliedTo(IF r = None THEN l ELSE l + 1)
  PROVE  InLayers'
<1>1. at'.layer = l /\ at'.route = r
  OBVIOUS
<1>2. PICK n : n = IF r = None THEN l ELSE l + 1
  OBVIOUS
<1>3. applied' = AppliedTo(n)'
  BY <1>2, SamePlace
<1>. QED  BY <1>1, <1>2, <1>3 DEF InLayers

\* The worker takes the operation: a step begins, or resumes where it paused.
LEMMA TakeStep ==
  ASSUME ScheduledInv, ~ Over, Take \/ TakeUnloaded PROVE ScheduledInv'
<1>1. /\ wpc = "recv" /\ jobs # << >> /\ job' = Head(jobs) /\ jobs' = Tail(jobs)
      /\ UNCHANGED << prompt, output, step, cold, dpc, cmds, log, tickets >>
  BY DEF Take, TakeUnloaded, elsewhere, driver, scheduler
<1>2. IsSeq(cmds) /\ Operation
  BY DEF ScheduledInv
<1>3. InQueue /\ dpc \in {"submitted", "wait", "acked"} /\ Pace
  BY <1>1, <1>2 DEF Operation, Nowhere, Out, InChannel, AtWorker, InLog, Fed
<1>4. /\ job' = [ticket |-> tickets, op |-> Due] /\ jobs' = << >>
      /\ Head(jobs).op = Due
  BY <1>1, <1>3 DEF InQueue
<1>5. Feed' = Feed /\ Due' = Due /\ \A l : AppliedTo(l)' = AppliedTo(l)
  BY <1>1, SamePlace DEF Due
<1>6. Working'
  <2>1. CASE TakeUnloaded
    <3>1. wpc' = "log" /\ outcome' = [kind |-> "Err"]
      BY <2>1 DEF TakeUnloaded, Report
    <3>2. outcome'.kind = "Err"
      BY <3>1
    <3>. QED  BY <3>1, <3>2 DEF Working, Fits
  <2>2. CASE Take /\ cold # << >>
    <3>1. Due.kind = "Load"
      BY <2>2 DEF Due
    <3>2. wpc' = "load" /\ UNCHANGED << applied, pause >>
      BY <1>4, <2>2, <3>1 DEF Take
    <3>3. Between'
      BY <1>1, <1>3, <3>2, SameState DEF InQueue
    <3>. QED  BY <1>1, <2>2, <3>2, <3>3 DEF Working
  <2>3. CASE Take /\ cold = << >>
    <3>1. Due = Feed /\ Feed.kind # "Load" /\ Feed.pos = step
      BY <2>3 DEF Due, Feed
    <3>2. wpc' = "layer" /\ Start(Feed) /\ pause' = None
      BY <1>4, <2>3, <3>1 DEF Take
    <3>3. CASE Paused
      <4>1. /\ at' = [layer |-> pause.layer, route |-> pause.route]
            /\ applied' = applied
        BY <3>1, <3>2, <3>3 DEF Start, Paused
      <4>2. /\ at'.layer = pause.layer /\ at'.route = pause.route
            /\ pause.layer \in 1 .. Layers /\ pause.route \in Route
            /\ pause.route # None
        BY <3>3, <4>1, RouteKnown DEF Paused, Layer
      <4>3. applied' = AppliedTo(pause.layer + 1)
        BY <3>3, <4>1 DEF Paused
      <4>4. InLayers'
        <5>1. PICK l, r : l = pause.layer /\ r = pause.route
          OBVIOUS
        <5>2. /\ l \in 1 .. Layers + 1 /\ r \in Route \cup {None} /\ r # None
              /\ at' = [layer |-> l, route |-> r] /\ applied' = AppliedTo(l + 1)
          BY <4>1, <4>2, <4>3, <5>1, ScheduledAssumption
        <5>3. applied' = AppliedTo(IF r = None THEN l ELSE l + 1)
          BY <5>2
        <5>. QED  BY ONLY <1>1, <2>3, <3>2, <5>2, <5>3, Entered
      <4>. QED  BY <3>2, <4>4 DEF Working
    <3>4. CASE pause = None /\ applied = AppliedTo(0)
      <4>1. /\ at' = [layer |-> 1, route |-> None]
            /\ applied' = [applied EXCEPT ![0] = Append(@, Feed.token)]
        BY <3>2, <3>4 DEF Start
      <4>2. applied' = AppliedTo(1)
        <5>1. 0 \in 0 .. Layers /\ 0 + 1 = 1
          BY ScheduledAssumption
        <5>2. [applied EXCEPT ![0] = Append(@, Feed.token)] = AppliedTo(0 + 1)
          BY <1>3, <3>4, <5>1, AppliedOnce
        <5>. QED  BY ONLY <4>1, <5>1, <5>2
      <4>3. InLayers'
        <5>1. PICK l, r : l = 1 /\ r = None
          OBVIOUS
        <5>2. /\ l \in 1 .. Layers + 1 /\ r \in Route \cup {None}
              /\ at' = [layer |-> l, route |-> r] /\ applied' = AppliedTo(l)
          BY <4>1, <4>2, <5>1, ScheduledAssumption
        <5>3. applied' = AppliedTo(IF r = None THEN l ELSE l + 1)
          BY <5>1, <5>2
        <5>. QED  BY ONLY <1>1, <2>3, <3>2, <5>2, <5>3, Entered
      <4>. QED  BY <3>2, <4>3 DEF Working
    <3>. QED  BY <1>3, <3>3, <3>4 DEF InQueue, Between
  <2>. QED  BY <2>1, <2>2, <2>3
<1>7. AtWorker'
  BY <1>1, <1>3, <1>4, <1>5, <1>6 DEF AtWorker, InQueue, Unlogged
<1>8. Operation'
  BY <1>1, <1>2, <1>3, <1>7 DEF Operation, Out, Fed, Pace
<1>. QED  BY <1>1, <1>2, <1>8, MovedStep

\* The steps of the worker that has the operation.
LEMMA WorkerHasIt ==
  ASSUME ScheduledInv, ~ Over, wpc \in {"layer", "load", "log"}
  PROVE  /\ IsSeq(cmds) /\ Operation /\ AtWorker /\ Pace
         /\ dpc \in {"submitted", "wait", "acked"}
         /\ job.ticket = tickets /\ job.op = Due
<1>1. IsSeq(cmds) /\ Operation
  BY DEF ScheduledInv
<1>2. AtWorker /\ dpc \in {"submitted", "wait", "acked"} /\ Pace
  BY <1>1 DEF Operation, Nowhere, Out, InChannel, InQueue, InLog, Quiet, Fed
<1>. QED  BY <1>1, <1>2 DEF AtWorker

LEMMA StillWorking ==
  ASSUME ScheduledInv, ~ Over, wpc \in {"layer", "load"}, Working',
         UNCHANGED << prompt, output, step, cold, dpc, cmds, jobs, job, log, tickets >>
  PROVE  ScheduledInv'
<1>1. /\ IsSeq(cmds) /\ Operation /\ AtWorker /\ Pace
      /\ dpc \in {"submitted", "wait", "acked"}
  BY WorkerHasIt
<1>2. Due' = Due
  BY SamePlace DEF Due
<1>3. AtWorker'
  BY <1>1, <1>2 DEF AtWorker, Unlogged
<1>4. Operation'
  BY <1>1, <1>3 DEF Operation, Out, Fed, Pace
<1>. QED  BY <1>1, <1>4, MovedStep

\* A layer applies the token once: when it is reached, not when it is resumed.
LEMMA ForwardLayerStep ==
  ASSUME ScheduledInv, ~ Over, ForwardLayer PROVE ScheduledInv'
<1>. DEFINE fresh == at.route = None
<1>1. /\ wpc = "layer" /\ at.layer <= Layers
      /\ applied' = IF fresh THEN [applied EXCEPT ![at.layer] = Append(@, job.op.token)]
                    ELSE applied
      /\ UNCHANGED << prompt, output, step, cold, dpc, cmds, jobs, job, log, tickets >>
  BY DEF ForwardLayer, elsewhere, driver, scheduler
<1>2. PICK r \in IF fresh THEN Route ELSE {at.route} :
        \/ /\ pause' = [layer |-> at.layer, route |-> r, token |-> job.op.token,
                        pos |-> job.op.pos]
           /\ \E missing : Report([kind |-> "Need", cold |-> missing])
        \/ /\ at' = [layer |-> at.layer + 1, route |-> None]
           /\ UNCHANGED << pause, wpc >>
  BY DEF ForwardLayer
<1>3. AtWorker /\ Pace /\ job.op = Due
  BY <1>1, WorkerHasIt
<1>4. InLayers
  BY <1>1, <1>3 DEF AtWorker, Working
<1>5. /\ at.layer \in 1 .. Layers /\ at.layer \in 0 .. Layers /\ r \in Route
      /\ job.op = Feed /\ Feed.pos = step
  BY <1>1, <1>2, <1>3, <1>4, ScheduledAssumption DEF InLayers, Due, Feed
<1>6. PICK l : l = at.layer
  OBVIOUS
<1>7. applied' = AppliedTo(l + 1)
  <2>1. CASE fresh
    <3>1. applied = AppliedTo(l)
      BY <1>4, <1>6, <2>1 DEF InLayers
    <3>2. [applied EXCEPT ![l] = Append(@, Feed.token)] = AppliedTo(l + 1)
      BY <1>3, <1>5, <1>6, <3>1, AppliedOnce
    <3>. QED  BY <1>1, <1>5, <1>6, <2>1, <3>2
  <2>2. CASE ~ fresh
    BY <1>1, <1>4, <1>6, <2>2 DEF InLayers
  <2>. QED  BY <2>1, <2>2
<1>8. CASE /\ pause' = [layer |-> at.layer, route |-> r, token |-> job.op.token,
                        pos |-> job.op.pos]
           /\ \E missing : Report([kind |-> "Need", cold |-> missing])
  <2>1. wpc' = "log" /\ outcome'.kind = "Need"
    BY <1>8 DEF Report
  <2>2. /\ pause'.layer = l /\ pause'.route = r /\ pause'.token = Feed.token
        /\ pause'.pos = step
    BY <1>5, <1>6, <1>8
  <2>3. pause' # None
    <3>1. "layer" \in DOMAIN pause'
      BY <1>8
    <3>2. DOMAIN << >> = {}
      OBVIOUS
    <3>. QED  BY <3>1, <3>2 DEF None
  <2>4. Paused'
    <3>1. PICK n : n = l + 1
      OBVIOUS
    <3>2. applied' = AppliedTo(n)'
      BY <1>1, <1>7, <3>1, SamePlace
    <3>3. AppliedTo(n)' = AppliedTo(pause.layer + 1)'
      BY <2>2, <3>1 DEF AppliedTo
    <3>4. Feed' = Feed
      BY <1>1, SamePlace
    <3>. QED  BY <1>1, <1>5, <1>6, <2>2, <2>3, <3>2, <3>3, <3>4 DEF Paused, Layer
  <2>5. Working'
    BY <2>1, <2>4 DEF Working, Fits, Between
  <2>. QED  BY <1>1, <2>5, StillWorking
<1>9. CASE /\ at' = [layer |-> at.layer + 1, route |-> None]
           /\ UNCHANGED << pause, wpc >>
  <2>1. PICK n, x : n = l + 1 /\ x = None
    OBVIOUS
  <2>2. /\ n \in 1 .. Layers + 1 /\ x \in Route \cup {None}
        /\ at' = [layer |-> n, route |-> x] /\ applied' = AppliedTo(n)
        /\ cold' = << >> /\ pause' = None
    <3>1. cold' = << >> /\ pause' = None
      BY <1>1, <1>4, <1>9 DEF InLayers
    <3>2. at' = [layer |-> n, route |-> x]
      BY ONLY <1>6, <1>9, <2>1
    <3>3. n \in 1 .. Layers + 1 /\ x \in Route \cup {None}
      BY <1>5, <1>6, <2>1, ScheduledAssumption
    <3>4. applied' = AppliedTo(n)
      BY ONLY <1>7, <2>1
    <3>. QED  BY <3>1, <3>2, <3>3, <3>4
  <2>3. applied' = AppliedTo(IF x = None THEN n ELSE n + 1)
    BY <2>1, <2>2
  <2>4. InLayers'
    BY ONLY <1>1, <2>2, <2>3, Entered
  <2>5. Working'
    BY <1>1, <1>9, <2>4 DEF Working
  <2>. QED  BY <1>1, <2>5, StillWorking
<1>. QED  BY <1>2, <1>8, <1>9

LEMMA ForwardTailStep ==
  ASSUME ScheduledInv, ~ Over, ForwardTail PROVE ScheduledInv'
<1>1. /\ wpc = "layer" /\ at.layer > Layers
      /\ UNCHANGED << prompt, output, step, cold, dpc, cmds, jobs, job, log, tickets,
                      applied, pause >>
      /\ \/ Report([kind |-> "Token", token |-> Model(applied)])
         \/ Report([kind |-> "Err"])
  BY DEF ForwardTail, elsewhere, driver, scheduler
<1>2. InLayers
  BY <1>1, WorkerHasIt DEF AtWorker, Working
<1>3. Working'
  <2>1. CASE Report([kind |-> "Err"])
    BY <2>1 DEF Report, Working, Fits
  <2>2. CASE Report([kind |-> "Token", token |-> Model(applied)])
    <3>1. /\ wpc' = "log" /\ outcome'.kind = "Token"
          /\ outcome'.token = Model(applied)
      BY <2>2 DEF Report
    <3>2. PICK n : /\ n = IF at.route = None THEN at.layer ELSE at.layer + 1
                   /\ applied = AppliedTo(n)
      BY <1>2 DEF InLayers
    <3>3. /\ applied = [l \in 0 .. Layers |-> History(step + 1)]
          /\ applied = AppliedTo(Layers + 1)
      <4>1. Layers \in Nat /\ n \in Nat /\ n > Layers
        BY <1>1, <1>2, <3>2, ScheduledAssumption DEF InLayers
      <4>. QED  BY <3>2, <4>1, AllApplied
    <3>4. outcome'.token = Canonical(History(step + 1))
      BY <3>1, <3>3 DEF Canonical
    <3>5. /\ Canonical(History(step + 1))' = Canonical(History(step + 1))
          /\ AppliedTo(Layers + 1)' = AppliedTo(Layers + 1)
      BY <1>1 DEF Canonical, History, AppliedTo
    <3>6. Fits(outcome)'
      BY <1>1, <1>2, <3>1, <3>3, <3>4, <3>5 DEF Fits, InLayers
    <3>. QED  BY <3>1, <3>6 DEF Working
  <2>. QED  BY <1>1, <2>1, <2>2
<1>. QED  BY <1>1, <1>3, StillWorking

LEMMA LoadExpertStep ==
  ASSUME ScheduledInv, ~ Over, LoadExpert PROVE ScheduledInv'
<1>1. /\ wpc = "load"
      /\ UNCHANGED << prompt, output, step, cold, dpc, cmds, jobs, job, log, tickets,
                      applied, pause >>
      /\ Report([kind |-> "Loaded"]) \/ Report([kind |-> "Err"])
  BY DEF LoadExpert, elsewhere, driver, scheduler
<1>2. Between'
  BY <1>1, WorkerHasIt, SameState DEF AtWorker, Working
<1>3. wpc' = "log" /\ outcome'.kind # "Token"
  BY <1>1 DEF Report
<1>4. Working'
  BY <1>2, <1>3 DEF Working, Fits
<1>. QED  BY <1>1, <1>4, StillWorking

LEMMA LogOutcomeStep ==
  ASSUME ScheduledInv, ~ Over, LogOutcome PROVE ScheduledInv'
<1>0. PICK e : e = [ticket |-> job.ticket, outcome |-> outcome]
  OBVIOUS
<1>1. /\ wpc = "log" /\ wpc' = "send" /\ log' = log \cup {e}
      /\ UNCHANGED << prompt, output, step, cold, dpc, cmds, jobs, tickets,
                      applied, pause, outcome >>
  BY <1>0 DEF LogOutcome, elsewhere, driver, scheduler
<1>2. /\ IsSeq(cmds) /\ Operation /\ AtWorker /\ Pace
      /\ dpc \in {"submitted", "wait", "acked"} /\ job.ticket = tickets
  BY <1>1, WorkerHasIt
<1>3. e.ticket = tickets /\ e.outcome = outcome
  BY <1>0, <1>2
<1>4. Fits(e.outcome)'
  <2>1. Fits(outcome)
    BY <1>1, <1>2 DEF AtWorker, Working
  <2>2. Fits(e.outcome)
    BY <1>3, <2>1
  <2>. QED  BY <1>1, <2>2, SameOperation
<1>5. InLog'
  BY <1>1, <1>2, <1>3, <1>4 DEF InLog, AtWorker, Quiet, Unlogged
<1>6. Operation'
  BY <1>1, <1>2, <1>3, <1>5 DEF Operation, Out, Fed, Pace
<1>. QED  BY <1>1, <1>2, <1>6, MovedStep

\* The driver uses the outcome: the next token, if it is one, is the canonical
\* one.
LEMMA AckedStep == ASSUME ScheduledInv, Acked PROVE ScheduledInv'
<1>1. PICK e \in log :
        /\ dpc = "acked" /\ e.ticket = tickets /\ log' = log \ {e}
        /\ \/ /\ e.outcome.kind = "Need" /\ dpc' = "submit"
              /\ UNCHANGED << output, step >>
           \/ /\ e.outcome.kind = "Loaded" /\ dpc' = "submit"
              /\ UNCHANGED << output, step >>
           \/ /\ e.outcome.kind = "Token" /\ step' = step + 1
              /\ output' = IF Feed.decode THEN Append(output, e.outcome.token)
                           ELSE output
              /\ dpc' = IF Len(output') = maxNew THEN "finish" ELSE "submit"
        /\ UNCHANGED << prompt, cmds, tickets, jobs, wpc, applied, pause >>
  BY DEF Acked, worker, scheduler
<1>2. /\ prompt \in Seq(Token) /\ step \in Nat /\ IsSeq(cmds) /\ IsSeq(output)
      /\ ScheduledIsGreedy /\ Operation
  BY <1>1 DEF ScheduledInv, Over
<1>3. Pace /\ InLog
  BY <1>1, <1>2 DEF Operation, Fed, Nowhere, Out, InChannel, InQueue, AtWorker, Unlogged
<1>4. Fits(e.outcome) /\ Unlogged'
  BY <1>1, <1>3 DEF InLog, Unlogged
<1>5. /\ Unsubmitted(cmds') /\ jobs' = << >> /\ Quiet'
      /\ tickets' \in Nat /\ \A x \in log' : x.ticket \in 0 .. tickets'
  BY <1>1, <1>2, <1>3 DEF InLog, Quiet, Operation
<1>6. CASE /\ e.outcome.kind \in {"Need", "Loaded"} /\ dpc' = "submit"
           /\ UNCHANGED << output, step >>
  <2>1. Between'
    BY <1>1, <1>4, <1>6, SameState DEF Fits
  <2>2. Operation'
    BY <1>1, <1>3, <1>4, <1>5, <1>6, <2>1 DEF Operation, Nowhere, Fed, Pace
  <2>. QED  BY <1>1, <1>2, <1>6, <2>2, MovedStep
<1>7. CASE /\ e.outcome.kind = "Token" /\ step' = step + 1
           /\ output' = IF Feed.decode THEN Append(output, e.outcome.token)
                        ELSE output
           /\ dpc' = IF Len(output') = maxNew THEN "finish" ELSE "submit"
  <2>. DEFINE x == e.outcome.token
  <2>1. /\ pause = None /\ applied = AppliedTo(Layers + 1)
        /\ x = Canonical(History(step + 1))
    BY <1>4, <1>7 DEF Fits
  <2>. HIDE DEF x
  <2>2. /\ Len(prompt) \in Nat /\ Len(output) \in Nat /\ Len(prompt) >= 1
    BY <1>2, <1>3 DEF IsSeq, Pace
  <2>3. /\ IsSeq(output') /\ Len(output') \in Nat
        /\ \/ /\ Feed.decode /\ Len(output') = Len(output) + 1
              /\ output'[Len(output) + 1] = x
              /\ \A i \in 1 .. Len(output) : output'[i] = output[i]
           \/ ~ Feed.decode /\ output' = output
    <3>1. CASE Feed.decode
      <4>1. output' = Append(output, x)
        BY <1>7, <3>1 DEF x
      <4>2. Longer(output, x, output')
        BY <1>2, <4>1, Appended
      <4>. QED  BY ONLY <2>2, <3>1, <4>2 DEF Longer
    <3>2. CASE ~ Feed.decode
      <4>1. output' = output
        BY <1>7, <3>2
      <4>. QED  BY <1>2, <2>2, <3>2, <4>1
    <3>. QED  BY <3>1, <3>2
  <2>4. Feed.decode <=> step >= Len(prompt) - 1
    BY DEF Feed
  <2>5. \A n \in Nat : n <= Len(prompt) + Len(output) =>
          SubSeq(prompt \o output', 1, n) = SubSeq(prompt \o output, 1, n)
    <3>1. CASE Feed.decode
      BY <1>2, <1>7, <3>1, HistoryStays
    <3>2. CASE ~ Feed.decode
      BY <1>7, <3>2
    <3>. QED  BY <3>1, <3>2
  <2>6. Pace'
    BY <1>1, <1>2, <1>3, <1>7, <2>2, <2>3, <2>4 DEF Pace
  <2>7. SubSeq(prompt \o output', 1, step + 1) = History(step + 1)
    <3>. DEFINE P(n) == SubSeq(prompt \o output', 1, n) = SubSeq(prompt \o output, 1, n)
    <3>1. step + 1 \in Nat /\ step + 1 <= Len(prompt) + Len(output)
      BY <1>2, <1>3, <2>2 DEF Pace
    <3>2. \A n \in Nat : n <= Len(prompt) + Len(output) => P(n)
      BY <2>5
    <3>. HIDE DEF P
    <3>3. P(step + 1)
      BY ONLY <3>1, <3>2
    <3>. QED  BY <3>3 DEF P, History
  <2>8. ScheduledIsGreedy'
    <3>1. DOMAIN output' = 1 .. Len(output') /\ DOMAIN output = 1 .. Len(output)
      BY <1>2, <2>3 DEF IsSeq
    <3>2. ASSUME NEW i \in 1 .. Len(output')
          PROVE  output'[i] =
                   Canonical(SubSeq(prompt \o output', 1, Len(prompt) + i - 1))
      <4>. DEFINE n == Len(prompt) + i - 1
      <4>1. CASE i \in 1 .. Len(output)
        <5>1. output'[i] = output[i]
          BY <2>3, <4>1
        <5>2. output[i] = Canonical(SubSeq(prompt \o output, 1, n))
          BY <1>2, <3>1, <4>1 DEF ScheduledIsGreedy
        <5>3. n \in Nat /\ n <= Len(prompt) + Len(output)
          BY <2>2, <4>1
        <5>4. SubSeq(prompt \o output', 1, n) = SubSeq(prompt \o output, 1, n)
          BY <2>5, <5>3
        <5>. QED  BY <5>1, <5>2, <5>4
      <4>2. CASE i \notin 1 .. Len(output)
        <5>1. Feed.decode /\ i = Len(output) + 1
          BY <2>2, <2>3, <3>2, <4>2
        <5>2. n = step + 1
          BY <1>2, <1>3, <2>2, <2>4, <5>1 DEF Pace
        <5>3. output'[i] = x
          BY <2>3, <5>1
        <5>4. SubSeq(prompt \o output', 1, step + 1) = History(step + 1)
          BY <2>7
        <5>. QED  BY <2>1, <5>2, <5>3, <5>4
      <4>. QED  BY <4>1, <4>2
    <3>3. prompt' = prompt
      BY <1>1
    <3>. QED  BY <3>1, <3>2, <3>3 DEF ScheduledIsGreedy, Canonical
  <2>9. Between'
    <3>1. applied' = [l \in 0 .. Layers |-> History(step + 1)] /\ pause' = None
      <4>1. Layers + 1 \in Nat /\ Layers + 1 > Layers
        BY ScheduledAssumption
      <4>. QED  BY <1>1, <2>1, <4>1, AllApplied
    <3>2. History(step + 1) = SubSeq(prompt' \o output', 1, step')
      <4>1. prompt' = prompt /\ step' = step + 1
        BY <1>1, <1>7
      <4>. QED  BY ONLY <2>7, <4>1, Zenon
    <3>3. AppliedTo(0)' = [l \in 0 .. Layers |-> SubSeq(prompt' \o output', 1, step')]
      <4>. DEFINE H(n) == SubSeq(prompt' \o output', 1, n)
      <4>1. AppliedTo(0)' =
              [l \in 0 .. Layers |-> H(IF l < 0 THEN step' + 1 ELSE step')]
        BY DEF AppliedTo, History
      <4>. HIDE DEF H
      <4>2. [l \in 0 .. Layers |-> H(IF l < 0 THEN step' + 1 ELSE step')] =
              [l \in 0 .. Layers |-> H(step')]
        OBVIOUS
      <4>. QED  BY <4>1, <4>2, Zenon DEF H
    <3>. QED  BY <3>1, <3>2, <3>3 DEF Between
  <2>10. Over' \/ Operation'
    BY <1>1, <1>4, <1>5, <1>7, <2>6, <2>9 DEF Over, Operation, Nowhere, Fed
  <2>11. (prompt \in Seq(Token) /\ step \in Nat /\ IsSeq(cmds) /\ IsSeq(output))'
    BY <1>1, <1>2, <1>7, <2>3 DEF IsSeq
  <2>. QED  BY <2>8, <2>10, <2>11 DEF ScheduledInv
<1>. QED  BY <1>1, <1>6, <1>7

LEMMA ScheduledInitially == ScheduledInit => ScheduledInv
<1>. SUFFICES ASSUME ScheduledInit PROVE ScheduledInv
  OBVIOUS
<1>1. PICK call \in Calls : prompt = call[1]
  BY DEF ScheduledInit
<1>2. prompt \in Seq(Token)
  BY <1>1, ScheduledAssumption
<1>3. /\ dpc = "create" /\ output = << >> /\ step = 0 /\ cmds = << >> /\ tickets = 0
      /\ jobs = << >> /\ wpc = "recv" /\ log = {} /\ pause = None
      /\ applied = [l \in 0 .. Layers |-> << >>]
  BY DEF ScheduledInit
<1>4. IsSeq(cmds) /\ IsSeq(output) /\ Len(cmds) = 0
  <2>1. << >> \in Seq(Token) /\ Len(<< >>) = 0
    OBVIOUS
  <2>. QED  BY <1>3, <2>1 DEF IsSeq
<1>5. applied = AppliedTo(0)
  <2>1. History(0) = << >>
    <3>1. SubSeq(prompt \o << >>, 1, 0) = << >>
      BY <1>2
    <3>. QED  BY <1>3, <3>1 DEF History
  <2>2. AppliedTo(0) = [l \in 0 .. Layers |-> History(0)]
    BY <1>3 DEF AppliedTo
  <2>. QED  BY <1>3, <2>1, <2>2
<1>6. Nowhere
  BY <1>3, <1>4, <1>5 DEF Nowhere, Unsubmitted, Quiet, Unlogged, Between
<1>7. ScheduledIsGreedy
  <2>1. DOMAIN << >> = {}
    OBVIOUS
  <2>. QED  BY <1>3, <2>1 DEF ScheduledIsGreedy
<1>8. Operation
  BY <1>3, <1>6 DEF Operation, Fed
<1>. QED  BY <1>2, <1>3, <1>4, <1>7, <1>8 DEF ScheduledInv

LEMMA ScheduledStep == ScheduledInv /\ [ScheduledNext]_scheduledVars => ScheduledInv'
<1>. SUFFICES ASSUME ScheduledInv, [ScheduledNext]_scheduledVars PROVE ScheduledInv'
  OBVIOUS
<1>0. IsSeq(cmds) /\ Kept(cmds, cmds)
  BY DEF ScheduledInv, Kept
<1>1. CASE CreateSession
  <2>. DEFINE c == [kind |-> "Create"]
  <2>1. /\ dpc = "create" /\ Request(c, "created", "shutdown")
        /\ UNCHANGED << prompt, output, step, cold, pause, applied, jobs, log,
                        tickets, wpc, job, at, outcome >>
    BY <1>1 DEF CreateSession, scheduler, worker
  <2>2. c.kind # "Submit"
    OBVIOUS
  <2>. HIDE DEF c
  <2>3. Kept(cmds, cmds') /\ (Onward \/ Over')
    BY <1>0, <2>1, <2>2, OtherSent DEF Request, Onward, Over
  <2>. QED  BY <2>1, <2>3, AsideStep, StoppedStep DEF Kept
<1>2. CASE Created
  <2>1. /\ dpc = "created" /\ cmds' = cmds
        /\ dpc' = IF prompt = << >> \/ maxNew = 0 THEN "finish" ELSE "submit"
        /\ UNCHANGED << prompt, output, step, cold, pause, applied, jobs, log,
                        tickets, wpc, job, at, outcome >>
    BY <1>2 DEF Created, scheduler, worker, driver
  <2>2. Onward \/ Over'
    BY <2>1 DEF Onward, Over
  <2>. QED  BY <1>0, <2>1, <2>2, AsideStep, StoppedStep
<1>3. CASE Submitted
  <2>1. /\ dpc = "submitted" /\ cmds' = cmds
        /\ dpc' = IF reply.ok THEN "wait" ELSE "finish"
        /\ UNCHANGED << prompt, output, step, cold, pause, applied, jobs, log,
                        tickets, wpc, job, at, outcome >>
    BY <1>3 DEF Submitted, scheduler, worker
  <2>2. Onward \/ Over'
    BY <2>1 DEF Onward, Over
  <2>. QED  BY <1>0, <2>1, <2>2, AsideStep, StoppedStep
<1>4. CASE Await
  <2>. DEFINE c == [kind |-> "Complete", ticket |-> tickets, ok |-> TRUE, asked |-> TRUE]
  <2>1. /\ dpc = "wait"
        /\ UNCHANGED << prompt, output, step, cold, pause, applied, jobs,
                        tickets, wpc, job, at, outcome >>
        /\ \/ dpc' = "finish" /\ cmds' = cmds
           \/ Room /\ Request(c, "acked", "finish") /\ log' = log
           \/ ~ Room /\ Request(c, "acked", "finish")
    BY <1>4 DEF Await, scheduler, worker
  <2>2. c.kind # "Submit"
    OBVIOUS
  <2>. HIDE DEF c
  <2>3. Kept(cmds, cmds')
    BY <1>0, <2>1, <2>2, OtherSent DEF Request
  <2>4. Over' \/ (Onward /\ log' = log)
    BY <2>1 DEF Request, Onward, Over
  <2>. QED  BY <2>1, <2>3, <2>4, AsideStep, StoppedStep DEF Kept
<1>5. CASE FinishSession \/ Shutdown
  <2>1. PICK c, x, y :
          /\ c.kind # "Submit" /\ Request(c, x, y)
          /\ x \in {"finished", "join"} /\ y \in {"shutdown", "join"}
          /\ UNCHANGED << prompt, output, step >>
    <3>1. [kind |-> "Finish"].kind # "Submit" /\ [kind |-> "Shutdown"].kind # "Submit"
      OBVIOUS
    <3>. QED  BY <1>5, <3>1 DEF FinishSession, Shutdown
  <2>2. Kept(cmds, cmds') /\ Over'
    BY <1>0, <2>1, OtherSent DEF Request, Over
  <2>. QED  BY <2>1, <2>2, StoppedStep DEF Kept
<1>6. CASE Finished \/ Return
  <2>1. Over' /\ cmds' = cmds /\ UNCHANGED << prompt, output, step >>
    BY <1>6 DEF Finished, Return, Over, driver
  <2>. QED  BY <1>0, <2>1, StoppedStep
<1>7. CASE HandleCreate \/ HandleComplete \/ HandleFinish \/ HandleShutdown
  <2>1. /\ cmds # << >> /\ Head(cmds).kind # "Submit" /\ cmds' = Tail(cmds)
        /\ UNCHANGED << prompt, output, step, cold, pause, applied, jobs, log, dpc,
                        tickets, wpc, job, at, outcome >>
    BY <1>7 DEF HandleCreate, HandleComplete, HandleFinish, HandleShutdown, Handles,
                Answer, driver, worker
  <2>2. Kept(cmds, cmds')
    BY <1>0, <2>1, OtherHandled
  <2>. QED  BY <2>1, <2>2, AsideStep DEF Onward
<1>8. CASE Joined
  <2>1. UNCHANGED << prompt, output, step, cold, pause, applied, jobs, log, dpc, cmds,
                     tickets, wpc, job, at, outcome >>
    BY <1>8 DEF Joined, driver, worker
  <2>. QED  BY <1>0, <2>1, AsideStep DEF Onward
<1>9. CASE SendCompletion
  <2>. DEFINE c == [kind |-> "Complete", ticket |-> job.ticket,
                    ok |-> outcome.kind # "Err", asked |-> FALSE]
  <2>1. /\ wpc = "send" /\ wpc' = "recv" /\ cmds' = Append(cmds, c)
        /\ UNCHANGED << prompt, output, step, cold, pause, applied, jobs, log, dpc,
                        tickets >>
    BY <1>9 DEF SendCompletion, driver, scheduler
  <2>2. c.kind # "Submit"
    OBVIOUS
  <2>. HIDE DEF c
  <2>3. Kept(cmds, cmds') /\ Quiet /\ Quiet'
    BY <1>0, <2>1, <2>2, OtherSent DEF Quiet
  <2>. QED  BY <2>1, <2>3, AsideStep DEF Onward
<1>10. CASE WorkerExits
  <2>1. /\ Quiet /\ Quiet'
        /\ UNCHANGED << prompt, output, step, cold, pause, applied, jobs, log, dpc,
                        tickets, cmds >>
    BY <1>10 DEF WorkerExits, elsewhere, driver, scheduler, Quiet
  <2>. QED  BY <1>0, <2>1, AsideStep DEF Onward
<1>11. CASE HandleSubmit \/ Take \/ TakeUnloaded \/ ForwardLayer \/ ForwardTail
            \/ LoadExpert \/ LogOutcome
  <2>1. CASE Over
    <3>1. Over' /\ IsSeq(cmds') /\ UNCHANGED << prompt, output, step >>
      <4>1. CASE HandleSubmit
        <5>1. cmds # << >> /\ cmds' = Tail(cmds)
          BY <4>1 DEF HandleSubmit, Handles, Answer
        <5>2. IsSeq(cmds')
          BY <1>0, <5>1, Dropped DEF Shorter
        <5>. QED  BY <2>1, <4>1, <5>2 DEF HandleSubmit, Answer, driver, Over
      <4>2. CASE ~ HandleSubmit
        BY <1>0, <1>11, <2>1, <4>2 DEF Take, TakeUnloaded, ForwardLayer, ForwardTail,
             LoadExpert, LogOutcome, elsewhere, driver, Over
      <4>. QED  BY <4>1, <4>2
    <3>. QED  BY <3>1, StoppedStep
  <2>2. CASE ~ Over
    BY <1>11, <2>2, HandleSubmitStep, TakeStep, ForwardLayerStep, ForwardTailStep,
       LoadExpertStep, LogOutcomeStep
  <2>. QED  BY <2>1, <2>2
<1>12. CASE UNCHANGED scheduledVars
  <2>1. UNCHANGED << prompt, output, step, cold, pause, applied, jobs, log, dpc, cmds,
                     tickets, wpc, job, at, outcome >>
    BY <1>12 DEF scheduledVars, driver, scheduler, worker
  <2>. QED  BY <1>0, <2>1, AsideStep DEF Onward
<1>. QED
  BY <1>1, <1>2, <1>3, <1>4, <1>5, <1>6, <1>7, <1>8, <1>9, <1>10, <1>11, <1>12,
     SubmitOpStep, AckedStep
     DEF ScheduledNext, DriverStep, SchedulerStep, WorkerStep

\* run_greedy_scheduled and forward_scheduled: wherever the driver's one operation
\* is, every layer has applied the due token as often as it should, paused or not.
THEOREM ScheduledInductive == ScheduledSpec => []ScheduledInv
BY ScheduledInitially, ScheduledStep, PTL DEF ScheduledSpec

\* run_greedy_scheduled answers what the canonical greedy path answers, whatever
\* was paused, loaded, evicted or completed twice on the way, for every number of
\* layers and experts, every store and every model.
THEOREM ScheduledGreedy == ScheduledSpec => []ScheduledIsGreedy
<1>1. ScheduledInv => ScheduledIsGreedy
  BY DEF ScheduledInv
<1>. QED  BY <1>1, ScheduledInductive, PTL
=============================================================================
