------------------------------ MODULE MtpDecode -----------------------------
(***************************************************************************)
(* Multi-token speculative decoding of the Qwen4 engine                    *)
(* (logan-qwen4/src/plan/prefix_runtime.rs, run_greedy_mtp, and the parts  *)
(* of logan-qwen4/src/lib.rs it calls).                                    *)
(*                                                                         *)
(* A drafter guesses a block of tokens, the target evaluates the whole     *)
(* block in one batch, and the longest guessed prefix the target agrees    *)
(* with is kept, followed by the target's own token where it disagrees.    *)
(* The target keeps two kinds of causal state.  The recurrent state (GDN   *)
(* and PLE) has no positions: it can only be replaced, and is represented  *)
(* by the tokens it has consumed.  The attention rows (KV and QSA index)   *)
(* are addressed by position: rows of rejected guesses stay where they     *)
(* are.  What the target answers for a row depends on both, so it is a     *)
(* parameter: Target(recurrent, rows) is the argmax of the logits.  The    *)
(* drafter may guess anything.                                             *)
(***************************************************************************)
EXTENDS Integers, Sequences, GreedyCall

CONSTANTS
  Prompts,        \* the prompts a request may carry, none of them empty
  MaxNew,         \* bound on the number of tokens a request asks for
  MaxBlock,       \* bound on QWEN_MTP_BLOCK, 4 in the code
  MaxT,           \* length of the context: the attention rows there are
  NoRow,          \* an attention row not written yet
  Target(_, _)

\* The texts a context can hold.
Context == UNION {[1 .. n -> Token] : n \in 1 .. MaxT}

ASSUME MtpAssumption ==
  /\ Prompts \subseteq Seq(Token)
  /\ \A p \in Prompts : Len(p) \in 1 .. MaxT
  /\ MaxNew \in Nat
  /\ MaxBlock \in Nat \ {0}
  /\ MaxT \in Nat
  /\ NoRow \notin Token
  /\ \A s \in Context : Target(s, s) \in Token   \* argmax of the vocabulary

VARIABLES
  pc,             \* "prefill", "draft", "verify", "commit", "done", "failed"
  blockCap,       \* mtp_block_len()
  text,           \* the prompt followed by `out'
  recurrent,      \* tokens the target's recurrent state has consumed
  rows,           \* the target's attention rows
  hidden,         \* tokens behind last_hidden_nextn
  draftRows,      \* the drafter's own attention rows
  drafts,         \* guesses of the current block
  logits,         \* argmax of the verifier's rows
  boundaries      \* recurrent state after each row of the verifier

vars == << pc, prompt, maxNew, blockCap, text, recurrent, rows, hidden,
           draftRows, drafts, logits, boundaries >>
request == << prompt, maxNew, blockCap >>

Pos == 1 .. MaxT
Row == Token \cup {NoRow}
First(n, s) == SubSeq(s, 1, n)

\* What attention reads when it evaluates position p.
Visible(p, r) == [i \in 1 .. p |-> r[i]]

\* Position of `current', the last token of the text, which is emitted and not
\* yet consumed, and the length of the next block.
CurrentPos == Len(text)

\* A bug: the block is not cut to what is left of the request.
BlockLen_MUncut == blockCap

BlockLen ==
  LET left == maxNew - (Len(text) - Len(prompt))
  IN  IF blockCap <= left THEN blockCap ELSE left

Init ==
  /\ prompt \in Prompts
  /\ maxNew \in 0 .. MaxNew
  /\ blockCap \in 1 .. MaxBlock
  /\ pc = IF maxNew = 0 THEN "done" ELSE "prefill"
  /\ text = prompt
  /\ recurrent = << >>
  /\ rows = [p \in Pos |-> NoRow]
  /\ hidden = << >>
  /\ draftRows = [p \in Pos |-> NoRow]
  /\ drafts = << >>
  /\ logits = << >>
  /\ boundaries = << >>

\* The loop over the output: a further block, or the result.
BlockOrDone == IF Len(text') - Len(prompt) < maxNew THEN "draft" ELSE "done"

\* One prompt token: the target consumes it, the drafter writes its row from
\* the hidden state of the position before.  The last one yields the first
\* token of the output.
Prefill ==
  /\ pc = "prefill"
  /\ LET p == Len(recurrent) + 1 IN
     /\ recurrent' = Append(recurrent, prompt[p])
     /\ rows' = [rows EXCEPT ![p] = prompt[p]]
     /\ hidden' = recurrent'
     /\ draftRows' = [draftRows EXCEPT ![p] = prompt[p]]
     /\ \/ /\ p < Len(prompt)
           /\ UNCHANGED << pc, text >>
        \/ /\ p = Len(prompt)
           /\ text' = Append(text, Target(recurrent', Visible(p, rows')))
           /\ pc' = BlockOrDone
  /\ UNCHANGED << request, drafts, logits, boundaries >>

\* The token the next step of the drafter consumes.
DraftInput == IF drafts = << >> THEN text[CurrentPos] ELSE drafts[Len(drafts)]

\* mtp_draft at position pos + i: it writes its own row and guesses a token.
Draft ==
  /\ pc = "draft"
  /\ CurrentPos + Len(drafts) <= MaxT
  /\ draftRows' = [draftRows EXCEPT ![CurrentPos + Len(drafts)] = DraftInput]
  /\ \E t \in Token : drafts' = Append(drafts, t)
  /\ pc' = IF Len(drafts') = BlockLen THEN "verify" ELSE "draft"
  /\ UNCHANGED << request, text, recurrent, rows, hidden, logits, boundaries >>

\* The drafter refuses a position beyond the context, and the request fails.
DraftFails ==
  /\ pc = "draft"
  /\ CurrentPos + Len(drafts) > MaxT
  /\ pc' = "failed"
  /\ UNCHANGED << request, text, recurrent, rows, hidden, draftRows, drafts,
                  logits, boundaries >>

\* The verifier's inputs: the unconsumed token and all guesses but the last.
VerifyInputs == << text[CurrentPos] >> \o First(Len(drafts) - 1, drafts)

\* The text as far as row i of the verifier consumes it.
Consumed(i) == recurrent \o First(i, VerifyInputs)

\* prefill_chunk_logits_all: rows are written in place, the recurrent state
\* after each is captured.  The batched GDN path leaves the live recurrent
\* state alone, the row by row path advances it.
Verify ==
  /\ pc = "verify"
  /\ rows' = [p \in Pos |->
                IF p \in CurrentPos .. CurrentPos + Len(drafts) - 1
                THEN VerifyInputs[p - CurrentPos + 1]
                ELSE rows[p]]
  /\ boundaries' = [i \in 1 .. Len(drafts) |-> Consumed(i)]
  /\ logits' = [i \in 1 .. Len(drafts) |->
                  Target(Consumed(i), Visible(CurrentPos + i - 1, rows'))]
  /\ recurrent' \in {recurrent, Consumed(Len(drafts))}
  /\ hidden' = Consumed(Len(drafts))
  /\ pc' = "commit"
  /\ UNCHANGED << request, text, draftRows, drafts >>

\* An expert batch that fails ends the request.
VerifyFails ==
  /\ pc = "verify"
  /\ pc' = "failed"
  /\ UNCHANGED << request, text, recurrent, rows, hidden, draftRows, drafts,
                  logits, boundaries >>

\* The guesses before the first one the target disagrees with.
Accepted ==
  CHOOSE a \in 0 .. Len(drafts) :
    /\ \A i \in 1 .. a : logits[i] = drafts[i]
    /\ a < Len(drafts) => logits[a + 1] # drafts[a + 1]

\* What the block emits: the accepted guesses, then the target's own token
\* unless all were accepted.
Emitted ==
  IF Accepted = Len(drafts)
  THEN drafts
  ELSE Append(First(Accepted, drafts), logits[Accepted + 1])

\* A bug: keeping the state after the whole block, as ordinary prefill does.
CommittedRow_MWholeBlock == Len(drafts)

\* A bug: off by one, the state before the row that was corrected.
CommittedRow_MBefore == IF Accepted = 0 THEN 1 ELSE Accepted

\* mtp_commit_verified_boundary: the recurrent state and the hidden state
\* become those after the last row that was right.
CommittedRow == IF Accepted = Len(drafts) THEN Len(drafts) ELSE Accepted + 1

Commit ==
  /\ pc = "commit"
  /\ recurrent' = boundaries[CommittedRow]
  /\ hidden' = boundaries[CommittedRow]
  /\ text' = text \o Emitted
  /\ drafts' = << >>
  /\ logits' = << >>
  /\ boundaries' = << >>
  /\ pc' = BlockOrDone
  /\ UNCHANGED << request, rows, draftRows >>

\* The request has returned.
Returned == pc \in {"done", "failed"} /\ UNCHANGED vars

Next ==
  \/ Prefill \/ Draft \/ DraftFails \/ Verify \/ VerifyFails \/ Commit
  \/ Returned

Spec == Init /\ [][Next]_vars
FairSpec == Spec /\ WF_vars(Prefill \/ Draft \/ DraftFails \/ Verify \/ Commit)
-----------------------------------------------------------------------------
TypeOK ==
  /\ pc \in {"prefill", "draft", "verify", "commit", "done", "failed"}
  /\ prompt \in Prompts
  /\ maxNew \in 0 .. MaxNew
  /\ blockCap \in 1 .. MaxBlock
  /\ text \in Seq(Token)
  /\ recurrent \in Seq(Token)
  /\ rows \in [Pos -> Row]
  /\ hidden \in Seq(Token)
  /\ draftRows \in [Pos -> Row]
  /\ drafts \in Seq(Token)
  /\ logits \in Seq(Token)
  /\ boundaries \in Seq(Seq(Token))

\* Whatever the drafter guesses, every token of the output is the one the
\* target alone would have chosen after the text before it: speculation never
\* changes the result of greedy decoding.
SpeculationIsGreedy ==
  \A i \in Len(prompt) + 1 .. Len(text) :
    text[i] = Target(First(i - 1, text), First(i - 1, text))

\* Between blocks the target has consumed the text except its last token, in
\* every part of its state: the recurrent state, the hidden state handed to the
\* drafter, and the attention rows the next position will read.  Rows of
\* rejected guesses are not among them.
BoundaryExact ==
  (pc = "draft") =>
    LET consumed == First(Len(text) - 1, text)
    IN  /\ recurrent = consumed
        /\ hidden = consumed
        /\ Visible(Len(text) - 1, rows) = consumed
        /\ Visible(Len(text) - 1 + Len(drafts), draftRows)
             = consumed \o First(Len(drafts), << text[Len(text)] >> \o drafts)

\* A request returns, and unless it failed with exactly the number of tokens it
\* asked for: a block never runs past max_new, so the final truncate is idle.
ReturnsAllTokens ==
  <>[](\/ pc = "failed"
       \/ pc = "done" /\ Len(text) = Len(prompt) + maxNew)
=============================================================================
