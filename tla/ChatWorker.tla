------------------------------ MODULE ChatWorker ----------------------------
(***************************************************************************)
(* The inference worker of logan-chat (logan-chat/src/engine.rs,           *)
(* ChatWorker) with its two levels of prefix cache: snapshots in RAM       *)
(* (HotPrefixCache) and .lpfx files on the SSD                             *)
(* (logan-qwen4/src/plan/prefix_cache.rs and prefix_runtime.rs).           *)
(*                                                                         *)
(* The causal state of the model is represented by the tokens it has       *)
(* consumed, or Torn when a restore stopped half way; logits by the tokens *)
(* after which they predict.  The worker is one thread; what interleaves   *)
(* with it is the file system: the daemon clearing the directory, another  *)
(* process publishing a prefix, damage to a file, and a crash.  The        *)
(* cancellation flag is read at the code's two checks and may be found     *)
(* set at either; the sampled token is arbitrary.                          *)
(***************************************************************************)
EXTENDS Integers, Sequences, SequencesExt, Tally

CONSTANTS
  Token,           \* the vocabulary
  Users,           \* texts of the dashboard conversation
  SystemPrefix,    \* the rendered system prompt
  FirstUser(_),    \* the rendered first text of a conversation
  Continuation(_), \* the rendered later texts
  ApiPrompts,      \* rendered prompts of protocol requests
  Words,           \* tokens the model may sample, besides the two below
  ImEnd, Eos,
  ContextLimit,
  MaxNew,          \* bound on max_new
  MinPersist,      \* QWEN_PREFIX_CACHE_MIN_TOKENS
  HotBudget,
  Bytes,           \* size of the snapshot of a prefix, by its length
  PeerKeys,        \* prefixes other processes publish
  Nothing, Torn,   \* no value; a state restored half way
  MaxRequests,     \* bound on the requests served
  MaxFaults        \* bound on crashes and damaged files

Text == Seq(Token)

ASSUME ChatAssumption ==
  /\ SystemPrefix \in Text \ {<< >>}
  /\ \A u \in Users : {FirstUser(u), Continuation(u)} \subseteq Text \ {<< >>}
  /\ ApiPrompts \subseteq Text \ {<< >>}
  /\ PeerKeys \subseteq Text
  /\ Words \cup {ImEnd, Eos} \subseteq Token
  /\ Nothing \notin Text /\ Torn \notin Text
  /\ ContextLimit \in Nat \ {0}
  /\ Bytes \in [0 .. ContextLimit -> Nat]
  /\ {MaxNew, MinPersist, HotBudget, MaxRequests, MaxFaults} \subseteq Nat

VARIABLES
  pc,              \* where the worker is
  kind,            \* the request: "turn", "prompt" or Nothing
  sysEnd,          \* system_boundary, 0 for None
  left,            \* tokens still to be generated
  candidate,       \* key of the file about to be restored
  live,            \* causal state of the model
  tokens,          \* logical history
  consumed,        \* tokens of it the model has consumed (position is equal)
  lastLogits,
  logits,          \* local of the decode loop
  started,         \* turns > 0
  hot,             \* entries of the RAM cache, least recently used first
  hotBytes,        \* HotPrefixCache::bytes
  disk,            \* published files
  tmp,             \* temporary file being written
  requests, faults

worker == << live, tokens, consumed, lastLogits >>
cache  == << hot, hotBytes >>
files  == << disk, tmp >>
loop   == << logits, left >>
bounds == << requests, faults >>
vars == << pc, kind, sysEnd, candidate, started, worker, cache, files, loop,
           bounds >>

First(n, s) == SubSeq(s, 1, n)

Init ==
  /\ pc = "idle" /\ kind = Nothing /\ sysEnd = 0 /\ candidate = Nothing
  /\ live = << >> /\ tokens = << >> /\ consumed = 0 /\ lastLogits = Nothing
  /\ logits = Nothing /\ left = 0
  /\ started = FALSE
  /\ hot = << >> /\ hotBytes = 0
  /\ disk = {} /\ tmp = Nothing
  /\ requests = 0 /\ faults = 0

\* The request is over; a turn that completed counts, one that failed does not.
Finish(completed) ==
  /\ pc' = "idle"
  /\ kind' = Nothing
  /\ sysEnd' = 0
  /\ started' = (started \/ (completed /\ kind = "turn"))
  /\ logits' = Nothing
  /\ left' = 0

\* The model at its zero state; restore_zero_state also forgets the history.
Pristine ==
  /\ live' = << >>
  /\ consumed' = 0
  /\ lastLogits' = Nothing

-----------------------------------------------------------------------------
(* consume_logical_until and the start of a request                        *)

\* consume_logical_until(end) as far as the context reaches.
ConsumeUntil(end) ==
  /\ live' = live \o SubSeq(tokens, consumed + 1, end)
  /\ consumed' = end
  /\ lastLogits' = IF consumed < end THEN First(end, tokens) ELSE lastLogits

\* A token that is still outstanding does not fit into the context.
Overfull == consumed < Len(tokens) /\ Len(tokens) > ContextLimit

\* run_turn up to the caches.  What the previous turn left outstanding is
\* consumed, then the new text is appended; only a conversation that has not
\* touched the model looks into the caches.
StartTurn(u) ==
  LET input == IF started THEN Continuation(u) ELSE SystemPrefix \o FirstUser(u)
      fresh == ~started /\ tokens = << >>
  IN  /\ pc = "idle" /\ requests < MaxRequests
      /\ ~Overfull
      /\ live' = live \o SubSeq(tokens, consumed + 1, Len(tokens))
      /\ consumed' = Len(tokens)
      /\ lastLogits' = IF consumed < Len(tokens) THEN tokens ELSE lastLogits
      /\ tokens' = tokens \o input
      /\ kind' = "turn"
      /\ sysEnd' = IF started THEN 0 ELSE Len(SystemPrefix)
      /\ pc' = IF fresh THEN "hot" ELSE "prompt"
      /\ requests' = requests + 1
      /\ UNCHANGED << candidate, started, cache, files, loop, faults >>

\* "context is full": the model has consumed all the context holds.
StartTurnFull ==
  /\ pc = "idle" /\ requests < MaxRequests
  /\ Overfull
  /\ ConsumeUntil(ContextLimit)
  /\ requests' = requests + 1
  /\ UNCHANGED << pc, kind, sysEnd, candidate, started, tokens, cache, files,
                  loop, faults >>

\* run_prompt up to the caches: it restores the zero state first.
StartPrompt(p) ==
  /\ pc = "idle" /\ requests < MaxRequests
  /\ Pristine
  /\ tokens' = p
  /\ requests' = requests + 1
  /\ \/ /\ Len(p) < ContextLimit
        /\ kind' = "prompt"
        /\ pc' = "hot"
     \/ /\ Len(p) >= ContextLimit
        /\ UNCHANGED << pc, kind >>
  /\ UNCHANGED << sysEnd, candidate, started, cache, files, loop, faults >>

\* Reset: a new conversation.
Reset ==
  /\ pc = "idle" /\ requests < MaxRequests
  /\ Pristine
  /\ tokens' = << >>
  /\ started' = FALSE
  /\ requests' = requests + 1
  /\ UNCHANGED << pc, kind, sysEnd, candidate, cache, files, loop, faults >>

\* ClearHot drops the RAM entries and resets as well.
ClearHot ==
  /\ pc = "idle" /\ requests < MaxRequests
  /\ Pristine
  /\ tokens' = << >>
  /\ started' = FALSE
  /\ hot' = << >> /\ hotBytes' = 0
  /\ requests' = requests + 1
  /\ UNCHANGED << pc, kind, sysEnd, candidate, files, loop, faults >>
-----------------------------------------------------------------------------
(* The RAM cache                                                           *)

HotHits == {i \in DOMAIN hot : IsPrefix(hot[i].tokens, tokens)}

\* restore_longest: the entry becomes the most recently used one.
HotRestore ==
  /\ pc = "hot"
  /\ \E i \in HotHits :
       /\ \A j \in HotHits : Len(hot[j].tokens) <= Len(hot[i].tokens)
       /\ live' = hot[i].state
       /\ consumed' = Len(hot[i].tokens)
       /\ lastLogits' = hot[i].logits
       /\ hot' = Append(RemoveAt(hot, i), hot[i])
  /\ pc' = "prompt"
  /\ UNCHANGED << kind, sysEnd, candidate, started, tokens, hotBytes, files,
                  loop, bounds >>

HotMiss ==
  /\ pc = "hot"
  /\ HotHits = {}
  /\ pc' = "lookup"
  /\ UNCHANGED << kind, sysEnd, candidate, started, worker, cache, files, loop,
                  bounds >>

\* A bug: the bytes of the dropped entries stay accounted for.
HotRejected_MBytes ==
  /\ pc = "hot"
  /\ HotHits # {}
  /\ hot' = << >>
  /\ Pristine
  /\ pc' = "lookup"
  /\ UNCHANGED << kind, sysEnd, candidate, started, tokens, hotBytes, files,
                  loop, bounds >>

\* A snapshot that cannot be restored empties the cache.
HotRejected ==
  /\ pc = "hot"
  /\ HotHits # {}
  /\ hot' = << >> /\ hotBytes' = 0
  /\ Pristine
  /\ pc' = "lookup"
  /\ UNCHANGED << kind, sysEnd, candidate, started, tokens, files, loop, bounds >>

SumBytes(entries) ==
  Tally([i \in DOMAIN entries |-> entries[i].bytes], DOMAIN entries)

\* The cache without its k least recently used entries.
Newest(k) == SubSeq(hot, k + 1, Len(hot))

\* HotPrefixCache::insert for the state st and logits lg after the prefix key.
\* A snapshot too large, or one that cannot be taken, is not kept.
HotInsert(key, st, lg) ==
  LET known == {i \in DOMAIN hot : hot[i].tokens = key}
      size == Bytes[Len(key)]
      entry == [tokens |-> key, state |-> st, logits |-> lg, bytes |-> size]
      Fits(k) == hotBytes - SumBytes(First(k, hot)) + size <= HotBudget
  IN  \/ /\ lg = Nothing
         /\ UNCHANGED cache
      \/ /\ lg # Nothing
         /\ \E i \in known : hot' = Append(RemoveAt(hot, i), hot[i])
         /\ UNCHANGED hotBytes
      \/ /\ lg # Nothing /\ known = {}
         /\ UNCHANGED cache
      \/ /\ lg # Nothing /\ known = {} /\ size <= HotBudget
         /\ \E k \in 0 .. Len(hot) :
              /\ Fits(k) /\ \A j \in 0 .. k - 1 : ~Fits(j)
              /\ hot' = Append(Newest(k), entry)
              /\ hotBytes' = hotBytes - SumBytes(First(k, hot)) + size
-----------------------------------------------------------------------------
(* The SSD cache: restore                                                  *)

\* A bug: the file of the whole prompt is a candidate too.
Candidates_MWhole == {f.key : f \in {g \in disk : IsPrefix(g.key, tokens)}}

\* candidate_keys: files of strict prefixes, since a file holds no logits.
Candidates ==
  {f.key : f \in {g \in disk : IsStrictPrefix(g.key, tokens)}}

\* The longest one; a directory that cannot be read counts as empty.
Lookup ==
  /\ pc = "lookup"
  /\ \/ /\ Candidates = {}
        /\ pc' = "prompt"
        /\ UNCHANGED candidate
     \/ /\ \E k \in Candidates :
             /\ \A j \in Candidates : Len(j) <= Len(k)
             /\ candidate' = k
        /\ pc' = "restore"
  /\ UNCHANGED << kind, sysEnd, started, worker, cache, files, loop, bounds >>

\* validate_key_for_model: the prefix fits into the context.
Restorable == Len(candidate) <= ContextLimit

\* PrefixCacheStore::restore of a file that is still there and whole.
SsdRestore ==
  /\ pc = "restore"
  /\ Restorable
  /\ \E f \in disk :
       /\ f.key = candidate /\ f.whole
       /\ live' = f.state
  /\ consumed' = Len(candidate)
  /\ lastLogits' = Nothing
  /\ candidate' = Nothing
  /\ pc' = "prompt"
  /\ UNCHANGED << kind, sysEnd, started, tokens, cache, files, loop, bounds >>

\* A prefix too long, a missing or a damaged file is refused before the model is
\* touched; a read that fails once the checksum was right leaves it torn.
SsdRejected ==
  /\ pc = "restore"
  /\ \/ UNCHANGED live
     \/ /\ Restorable
        /\ \E f \in disk : f.key = candidate /\ f.whole
        /\ live' = Torn
  /\ candidate' = Nothing
  /\ pc' = "recover"
  /\ UNCHANGED << kind, sysEnd, started, tokens, consumed, lastLogits, cache,
                  files, loop, bounds >>

\* A bug: replay without going back to the zero state.
Recover_MKeep ==
  /\ pc = "recover"
  /\ pc' = "prompt"
  /\ UNCHANGED << kind, sysEnd, candidate, started, worker, cache, files, loop,
                  bounds >>

\* reload_pristine: the history stays and is replayed.
Recover ==
  /\ pc = "recover"
  /\ Pristine
  /\ pc' = "prompt"
  /\ UNCHANGED << kind, sysEnd, candidate, started, tokens, cache, files, loop,
                  bounds >>
-----------------------------------------------------------------------------
(* Prompt evaluation, and the boundaries that are stored                   *)

\* "prompt would exhaust context": the history keeps the text.
PromptTooLong ==
  /\ pc = "prompt"
  /\ kind = "turn" /\ Len(tokens) >= ContextLimit
  /\ Finish(FALSE)
  /\ UNCHANGED << candidate, worker, cache, files, bounds >>

\* The next boundary at which the state is stored: the end of the system
\* prompt unless the model is past it, then the end of the prompt.
Boundary ==
  IF sysEnd # 0 /\ consumed <= sysEnd THEN sysEnd ELSE Len(tokens)

Consume ==
  /\ pc = "prompt"
  /\ ~(kind = "turn" /\ Len(tokens) >= ContextLimit)
  /\ ConsumeUntil(Boundary)
  /\ HotInsert(First(Boundary, tokens), live', lastLogits')
  /\ sysEnd' = 0
  /\ pc' = "store"
  /\ UNCHANGED << kind, candidate, started, tokens, files, loop, bounds >>

AfterStore == IF consumed < Len(tokens) THEN "prompt" ELSE "take"
StoreKey == First(consumed, tokens)
Published == {f.key : f \in disk}

\* persist_prefix_boundary: nothing to do, or an error that is only reported.
StoreSkipped ==
  /\ pc = "store"
  /\ pc' = AfterStore
  /\ UNCHANGED << kind, sysEnd, candidate, started, worker, cache, files, loop,
                  bounds >>

\* PrefixCacheStore::store writes a temporary file ...
StoreTemporary ==
  /\ pc = "store"
  /\ Len(StoreKey) >= MinPersist
  /\ StoreKey \notin Published
  /\ tmp' = [key |-> StoreKey, state |-> live, whole |-> TRUE]
  /\ pc' = "publish"
  /\ UNCHANGED << kind, sysEnd, candidate, started, worker, cache, disk, loop,
                  bounds >>

\* ... and renames it, over a file another process has published meanwhile.
Publish ==
  /\ pc = "publish"
  /\ tmp # Nothing
  /\ disk' = {f \in disk : f.key # tmp.key} \cup {tmp}
  /\ tmp' = Nothing
  /\ pc' = AfterStore
  /\ UNCHANGED << kind, sysEnd, candidate, started, worker, cache, loop, bounds >>

\* The rename fails when the directory has been cleared.
PublishFails ==
  /\ pc = "publish"
  /\ tmp = Nothing
  /\ pc' = AfterStore
  /\ UNCHANGED << kind, sysEnd, candidate, started, worker, cache, files, loop,
                  bounds >>
-----------------------------------------------------------------------------
(* The decode loop                                                         *)

\* Decoding starts from the logits of the last prompt token.
Take ==
  /\ pc = "take"
  /\ IF lastLogits = Nothing
     THEN Finish(FALSE) /\ UNCHANGED lastLogits
     ELSE \E n \in 0 .. MaxNew :
            /\ left' = n
            /\ logits' = lastLogits
            /\ lastLogits' = Nothing
            /\ pc' = "decode"
            /\ UNCHANGED << kind, sysEnd, started >>
  /\ UNCHANGED << candidate, live, tokens, consumed, cache, files, bounds >>

\* append_chat_closure, for the turns of a conversation only.
Closed(s) ==
  IF kind = "turn" /\ Last(s) # ImEnd THEN Append(s, ImEnd) ELSE s

\* The loop has run max_new times; 0 is allowed.
DecodeNone ==
  /\ pc = "decode"
  /\ left = 0
  /\ Finish(TRUE)
  /\ UNCHANGED << candidate, worker, cache, files, bounds >>

DecodeCancelled ==
  /\ pc = "decode"
  /\ left > 0
  /\ tokens' = Closed(tokens)
  /\ Finish(TRUE)
  /\ UNCHANGED << candidate, live, consumed, lastLogits, cache, files, bounds >>

\* The model ends the text; only a conversation keeps the terminator.
DecodeStop ==
  /\ pc = "decode"
  /\ left > 0
  /\ \E t \in {ImEnd, Eos} :
       tokens' = IF kind = "turn" THEN Append(tokens, t) ELSE tokens
  /\ Finish(TRUE)
  /\ UNCHANGED << candidate, live, consumed, lastLogits, cache, files, bounds >>

\* A token that the tokenizer cannot decode fails the request.
DecodeError ==
  /\ pc = "decode"
  /\ left > 0
  /\ \E t \in Words : tokens' = Append(tokens, t)
  /\ Finish(FALSE)
  /\ UNCHANGED << candidate, live, consumed, lastLogits, cache, files, bounds >>

\* The last token: max_new is reached, the request is cancelled, or the
\* context is full.  The token stays outstanding.
DecodeLast ==
  /\ pc = "decode"
  /\ left > 0
  /\ \E t \in Words : tokens' = Closed(Append(tokens, t))
  /\ Finish(TRUE)
  /\ UNCHANGED << candidate, live, consumed, lastLogits, cache, files, bounds >>

\* The token is consumed at its own position for the logits after it.
DecodeToken ==
  /\ pc = "decode"
  /\ left > 1 /\ consumed < ContextLimit
  /\ \E t \in Words :
       /\ tokens' = Append(tokens, t)
       /\ live' = Append(live, t)
  /\ logits' = Append(logits, Last(tokens'))
  /\ consumed' = consumed + 1
  /\ left' = left - 1
  /\ UNCHANGED << pc, kind, sysEnd, candidate, started, lastLogits, cache,
                  files, bounds >>
-----------------------------------------------------------------------------
(* What interleaves with the worker                                        *)

\* Control::ClearCold of the daemon: remove_dir_all, the temporary included.
ClearCold ==
  /\ disk # {} \/ tmp # Nothing
  /\ disk' = {} /\ tmp' = Nothing
  /\ UNCHANGED << pc, kind, sysEnd, candidate, started, worker, cache, loop,
                  bounds >>

\* Another process evaluates the same prompt and publishes its state.
PeerPublish ==
  /\ \E k \in PeerKeys \ Published :
       disk' = disk \cup {[key |-> k, state |-> k, whole |-> TRUE]}
  /\ UNCHANGED << pc, kind, sysEnd, candidate, started, worker, cache, tmp,
                  loop, bounds >>

Damage ==
  /\ faults < MaxFaults
  /\ \E f \in disk :
       /\ f.whole
       /\ disk' = (disk \ {f}) \cup {[f EXCEPT !.whole = FALSE, !.state = Torn]}
  /\ faults' = faults + 1
  /\ UNCHANGED << pc, kind, sysEnd, candidate, started, worker, cache, tmp,
                  loop, requests >>

\* The process dies and starts again; only published files are found again, a
\* temporary one is never a candidate.
Crash ==
  /\ faults < MaxFaults
  /\ pc' = "idle" /\ kind' = Nothing /\ sysEnd' = 0 /\ candidate' = Nothing
  /\ Pristine /\ tokens' = << >>
  /\ logits' = Nothing /\ left' = 0 /\ started' = FALSE
  /\ hot' = << >> /\ hotBytes' = 0
  /\ tmp' = Nothing
  /\ faults' = faults + 1
  /\ UNCHANGED << disk, requests >>
-----------------------------------------------------------------------------
Next ==
  \/ \E u \in Users : StartTurn(u)
  \/ \E p \in ApiPrompts : StartPrompt(p)
  \/ StartTurnFull \/ Reset \/ ClearHot
  \/ HotRestore \/ HotMiss \/ HotRejected
  \/ Lookup \/ SsdRestore \/ SsdRejected \/ Recover
  \/ PromptTooLong \/ Consume
  \/ StoreSkipped \/ StoreTemporary \/ Publish \/ PublishFails
  \/ Take \/ DecodeNone \/ DecodeCancelled \/ DecodeStop \/ DecodeError
  \/ DecodeLast \/ DecodeToken
  \/ ClearCold \/ PeerPublish \/ Damage \/ Crash

Spec == Init /\ [][Next]_vars
-----------------------------------------------------------------------------
\* The state of the model is that of the part of the history it has consumed:
\* no hit in either cache, damaged file, failed restore, cleared directory,
\* cancelled or failed request leaves state of other tokens behind.  Only
\* between a refused restore and its recovery is the state undefined.
StateMatchesHistory ==
  /\ consumed <= Len(tokens) /\ consumed <= ContextLimit
  /\ pc # "recover" => live = First(consumed, tokens)
  /\ lastLogits # Nothing => lastLogits = First(consumed, tokens)

\* Text is generated from the whole history: when decoding begins the prompt
\* is consumed and its logits are there (an SSD hit brings none, an exact RAM
\* hit does), and every further token is sampled after all the earlier ones.
DecodesFromPrompt ==
  /\ pc = "take" => lastLogits = tokens
  /\ pc = "decode" => logits = tokens

\* Both caches are exact: an entry holds the state, and in RAM the logits, of
\* the tokens it is found by, so does a whole file, and the RAM cache accounts
\* for its entries and stays within its budget.
CachesExact ==
  /\ \A i \in DOMAIN hot :
       hot[i].state = hot[i].tokens /\ hot[i].logits = hot[i].tokens
  /\ \A i, j \in DOMAIN hot : hot[i].tokens = hot[j].tokens => i = j
  /\ hotBytes = SumBytes(hot) /\ hotBytes <= HotBudget
  /\ \A f \in disk : f.whole => f.state = f.key
=============================================================================
