------------------------------- MODULE Dspark -------------------------------
(***************************************************************************)
(* Speculative decoding of the dense engine (logan-llama/src/dspark):      *)
(* a DsparkSession drafts a block of tokens, lets the target evaluate it   *)
(* in one pass, goes back to the checkpoint taken before and replays the   *)
(* rows the verifier retained.  The session mirrors what the target's      *)
(* cache holds in target_history and in the drafter's attention window,    *)
(* and its callers may take checkpoints of the whole and restore them.     *)
(*                                                                         *)
(* The target's greedy choice is a fixed function of the rows before it;   *)
(* drafts are arbitrary.  The caller passes the session's own anchor to    *)
(* verify_block.  target_mut and commit_verification, which no code of the *)
(* repository calls, are left out.                                         *)
(***************************************************************************)
EXTENDS DenseSession, SequencesExt

CONSTANTS
  Greedy(_),       \* the target's argmax after a sequence of rows
  Markov(_),       \* the drafter's guess after a token
  Eos,             \* eos_token_ids
  BlockWidth,      \* geometry.block_width
  HistoryCapacity, \* capacity of target_history
  DsparkPrompts,   \* what callers prefill
  DraftCounts,     \* how many tokens they ask propose for
  Caps,            \* values of output_cap
  NoToken,         \* None
  MaxSaved         \* bound on the checkpoints callers hold

ASSUME DsparkAssumption ==
  /\ Eos \subseteq Token /\ NoToken \notin Token
  /\ BlockWidth \in Nat /\ HistoryCapacity \in Nat \ {0}
  /\ DraftCounts \subseteq 0 .. BlockWidth
  /\ \A p \in DsparkPrompts : p \in Seq(Token) /\ p # << >>
  /\ \A s \in BoundedSeq(Token, MaxPositions) : Greedy(s) \in Token
  /\ Caps \subseteq Nat
  /\ MaxSaved \in Nat

VARIABLES
  target,          \* the target's session
  targetHistory,
  committed,       \* DraftAttentionState
  provisional,
  anchor,
  cancelled,
  saved,           \* checkpoints callers hold, and whether each was left: the
                   \* session has since gone back behind it
  block,           \* the last verified block: rows before it, anchor, cap
                   \* and result
  base,            \* rows the target held when the session was made
  astray           \* a checkpoint that was left has been restored
                   \* (block, base and astray are not in the code)

mirrors == << targetHistory, committed >>
branch == << base, astray >>
dsparkVars ==
  << target, mirrors, provisional, anchor, cancelled, saved, block, branch >>

LastN(n, s) == SubSeq(s, IF Len(s) > n THEN Len(s) - n + 1 ELSE 1, Len(s))

NoBlock == [before |-> << >>, cap |-> 0, emitted |-> << >>]

\* new starts with a session of its own, from_target with one that may hold
\* rows, of which history and window know nothing.
DsparkInit ==
  /\ target \in {NewSession} \cup
       UNION {Forwarded(NewSession, p, FALSE) :
                p \in {q \in DsparkPrompts : ~Exceeds(NewSession, q)}}
  /\ base = Len(target.rows) /\ astray = FALSE
  /\ targetHistory = << >> /\ committed = << >> /\ provisional = << >>
  /\ anchor = NoToken /\ cancelled = FALSE
  /\ saved = << >>
  /\ block = NoBlock

\* TargetHistory::commit and DraftAttentionState::commit_input_rows
CommitInputs(inputs) ==
  /\ targetHistory' = LastN(HistoryCapacity, targetHistory \o inputs)
  /\ committed' = LastN(BlockWidth + 1, committed \o inputs)
  /\ provisional' = << >>

Prefill(tokens, tapped) ==
  /\ ~Exceeds(target, tokens)
  /\ target' \in Forwarded(target, tokens, tapped)
  /\ CommitInputs(tokens)
  /\ anchor' = Last(tokens)
  /\ block' = NoBlock
  /\ UNCHANGED << cancelled, saved, branch >>

\* propose chains count guesses, and begin_with_anchor puts anchor and
\* guesses into the attention window.
Propose(count) ==
  LET guess[n \in 0 .. count] == IF n = 0 THEN anchor ELSE Markov(guess[n - 1])
  IN  /\ anchor # NoToken
      /\ provisional' = [n \in 1 .. count + 1 |-> guess[n - 1]]
      /\ UNCHANGED << target, mirrors, anchor, cancelled, saved, block, branch >>
-----------------------------------------------------------------------------
(* verify_greedy_with_options, for n drafts and n + 1 predictions          *)

\* The rows at which its loop stops: a rejected draft, an accepted EOS, or
\* the last token the cap allows.
Stops(predictions, drafts, cap) ==
  {i \in DOMAIN drafts :
     predictions[i] # drafts[i] \/ drafts[i] \in Eos \/ i = cap}

\* A bug: a rejected draft is retained too.
Verdict_MKeepRejected(predictions, drafts, cap) ==
  LET stops == Stops(predictions, drafts, cap)
      n == IF stops = {} THEN Len(drafts) ELSE Min(stops)
      rejected == stops # {} /\ predictions[n] # drafts[n]
  IN  [retained |-> n + 1,
       emitted |-> IF rejected
                   THEN Append(SubSeq(drafts, 1, n - 1), predictions[n])
                   ELSE SubSeq(drafts, 1, n),
       next |-> IF rejected THEN predictions[n]
                ELSE IF stops = {} THEN predictions[n + 1] ELSE NoToken]

Verdict(predictions, drafts, cap) ==
  LET stops == Stops(predictions, drafts, cap)
      n == IF stops = {} THEN Len(drafts) ELSE Min(stops)
      rejected == stops # {} /\ predictions[n] # drafts[n]
  IN  [retained |-> IF rejected THEN n ELSE n + 1,
       emitted |-> IF rejected
                   THEN Append(SubSeq(drafts, 1, n - 1), predictions[n])
                   ELSE SubSeq(drafts, 1, n),
       next |-> IF rejected THEN predictions[n]
                ELSE IF stops = {} THEN predictions[n + 1] ELSE NoToken]
-----------------------------------------------------------------------------
(* verify_block                                                            *)

\* Cancelled by the session's flag or the caller's control.
VerifyCancelled ==
  /\ anchor # NoToken
  /\ provisional' = << >>
  /\ UNCHANGED << target, mirrors, anchor, cancelled, saved, block, branch >>

\* A bug: the replay starts without going back to the checkpoint.
Rewound_MSkip(evaluated, c) == evaluated

\* The target's session back at the checkpoint taken before the block.
Rewound(evaluated, c) == Restored(evaluated, c)

\* The block is evaluated; nothing is retained when the cap is zero.
Verify(drafts, cap) ==
  LET input == << anchor >> \o drafts
      predictions == [i \in DOMAIN input |->
                        Greedy(target.rows \o SubSeq(input, 1, i))]
      result == IF cap = 0
                THEN [retained |-> 0, emitted |-> << >>, next |-> NoToken]
                ELSE Verdict(predictions, drafts, cap)
      kept == SubSeq(input, 1, result.retained)
  IN  /\ anchor # NoToken /\ ~cancelled
      /\ ~Exceeds(target, input)
      /\ \E evaluated \in Forwarded(target, input, TRUE) :
           LET back == Rewound(evaluated, Checkpoint(target))
           IN  target' \in IF kept = << >> THEN {back}
                           ELSE Forwarded(back, kept, FALSE)
      /\ CommitInputs(kept)
      /\ anchor' = result.next
      /\ block' = [before |-> Append(target.rows, anchor),
                   cap |-> cap,
                   emitted |-> result.emitted]
      /\ UNCHANGED << cancelled, saved, branch >>

SetCancelled ==
  /\ cancelled' = ~cancelled
  /\ UNCHANGED << target, mirrors, provisional, anchor, saved, block, branch >>
-----------------------------------------------------------------------------
(* Checkpoints of the whole session                                        *)

SessionCheckpoint ==
  [target |-> Checkpoint(target), history |-> targetHistory,
   committed |-> committed, provisional |-> provisional,
   anchor |-> anchor, cancelled |-> cancelled, left |-> astray]

Save ==
  /\ Len(saved) < MaxSaved
  /\ saved' = Append(saved, SessionCheckpoint)
  /\ UNCHANGED << target, mirrors, provisional, anchor, cancelled, block, branch >>

\* A checkpoint the cache does not know is refused; otherwise everything goes
\* back.  The caller keeps all its checkpoints, those of more rows than the
\* session now has included; since the generation goes back too, the cache may
\* take one of them for a checkpoint of the branch it is on.
Restore(i) ==
  LET c == saved[i]
      Behind(d) == d.target.processed > c.target.processed
  IN  /\ block' = NoBlock
      /\ \/ /\ Known(target, c.target)
            /\ target' = Restored(target, c.target)
            /\ targetHistory' = c.history
            /\ committed' = c.committed
            /\ provisional' = c.provisional
            /\ anchor' = c.anchor
            /\ cancelled' = c.cancelled
            /\ saved' = [j \in DOMAIN saved |->
                          [saved[j] EXCEPT !.left = @ \/ Behind(saved[j])]]
            /\ astray' = c.left
         \/ /\ ~Known(target, c.target)
            /\ target' = DropDevice(target)
            /\ UNCHANGED << mirrors, provisional, anchor, cancelled, saved, astray >>
      /\ UNCHANGED base

Blocks == BoundedSeq(Token, BlockWidth)

DsparkNext ==
  \/ \E p \in DsparkPrompts, tapped \in BOOLEAN : Prefill(p, tapped)
  \/ \E n \in DraftCounts : Propose(n)
  \/ VerifyCancelled
  \/ \E d \in Blocks, cap \in Caps : Verify(d, cap)
  \/ SetCancelled
  \/ Save
  \/ \E i \in DOMAIN saved : Restore(i)

DsparkSpec == DsparkInit /\ [][DsparkNext]_dsparkVars
-----------------------------------------------------------------------------
(* Properties                                                              *)

\* Whatever was drafted, rejected or cancelled, and whichever checkpoint was
\* restored, refused or kept for later, the history and the drafter's window
\* are the last tokens among the rows the target's cache has taken from the
\* session (dspark/model.rs, verify_block, prefill and restore; kv.rs,
\* restore).  The one exception is a session that the caller sent back to a
\* checkpoint it had left: the identity that kv.rs says prevents it "from ... a
\* reused prefix length" does not, as the generation is reused as well.  And
\* the device never holds other rows than the session where the fused path
\* would use them.
MirrorsFollowCache ==
  LET own == SubSeq(target.rows, base + 1, Len(target.rows))
  IN  /\ ~astray => /\ targetHistory = LastN(HistoryCapacity, own)
                    /\ committed = LastN(BlockWidth + 1, own)
      /\ DeviceCoherent(target)

\* What a verified block emits is what decoding one token at a time would:
\* every token is the target's choice after those before it, no more than
\* the cap allows and nothing after an EOS; and the anchor it leaves is the
\* target's choice after the rows it retained (dspark/verify.rs,
\* verify_greedy_with_options).
VerifiedIsGreedy ==
  LET e == block.emitted
  IN  block # NoBlock =>
        /\ \A i \in DOMAIN e :
             e[i] = Greedy(block.before \o SubSeq(e, 1, i - 1))
        /\ Len(e) <= block.cap
        /\ \A i \in 1 .. Len(e) - 1 : e[i] \notin Eos
        /\ anchor # NoToken => anchor = Greedy(target.rows)
=============================================================================
