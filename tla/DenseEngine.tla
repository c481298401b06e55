----------------------------- MODULE DenseEngine ----------------------------
(***************************************************************************)
(* The dense chat engine (logan-chat/src/engine.rs, DenseMiniCpm) with its *)
(* two levels of prefix cache: snapshots with logits in RAM                *)
(* (logan-core/src/prefix/memory.rs) and the SSD cache of PrefixRuntime    *)
(* (prefix/runtime.rs), whose index lives in RAM (index.rs), whose entries *)
(* are files (disk.rs, format.rs), and which is rebuilt from the directory *)
(* when the engine is loaded.                                              *)
(*                                                                         *)
(* Logits are represented by the rows after which they predict; the token  *)
(* they choose is arbitrary.  The engine is one thread; the file system    *)
(* may lose or damage a file, or fail an operation, at any time (Faults),  *)
(* and the process may crash between any two steps (Crash).                *)
(***************************************************************************)
EXTENDS DenseSession, Queues, Tally, SequencesExt

CONSTANTS
  Prompts,         \* tokenized prompts that fit into the context
  Sampled,         \* the tokens decoding may choose: a bound on the choice
  Chunk,           \* PREFILL_CHUNK
  MaxNew,          \* bound on max_new
  RamBudget,
  SsdBudgets,      \* values of LOGAN_PREFIX_SSD_MB over the restarts
  MinTokens,       \* min_cache_tokens
  Bytes(_),        \* size of the entry of a prefix
  Nothing,         \* no logits, no key
  MaxCrashes,      \* bound on crashes
  MaxFaults        \* bound on faults of the file system

ASSUME EngineAssumption ==
  /\ \A p \in Prompts : p \in Seq(Token) /\ p # << >> /\ Len(p) <= MaxPositions
  /\ IsFiniteSet(Prompts) /\ \A p \in Prompts : Bytes(p) \in Nat
  /\ Sampled \subseteq Token
  /\ Chunk \in Nat \ {0}
  /\ {MaxNew, RamBudget, MinTokens, MaxCrashes, MaxFaults} \subseteq Nat
  /\ SsdBudgets \subseteq Nat

VARIABLES
  pc,              \* where generate_stream is
  session,
  prompt,
  fed,             \* tokens of the prompt restored or forwarded
  said,            \* tokens generated
  left,            \* tokens still to be generated
  logits,
  ram,             \* RamPrefixCache
  index,           \* PrefixIndex
  budget,          \* ssd_cache_bytes
  candidate,       \* key of the file about to be read
  doomed,          \* evicted keys whose files are still to be removed
  files,           \* the directory: the entries,
  temps,           \* and the temporary files, by prefix and process
  unread,          \* scanned entries that are still to be indexed
  crashes, faults

request == << prompt, fed, said, left, logits, candidate, doomed >>
disk == << files, temps >>
bounds == << crashes, faults >>
vars == << pc, session, request, ram, index, budget, disk, unread, bounds >>
-----------------------------------------------------------------------------
(* Both caches keep entries by their keys, the keys in order of use, least *)
(* recently used first, and the sum of the sizes.                          *)

NoEntries == [lru |-> << >>, value |-> << >>, total |-> 0]

Keys(c) == DOMAIN c.value
SumBytes(keys) == Tally([p \in Prompts |-> Bytes(p)], keys)

Drop(c, k) ==
  IF k \in Keys(c)
  THEN [lru |-> Retain(c.lru, k),
        value |-> Restrict(c.value, Keys(c) \ {k}),
        total |-> c.total - Bytes(k)]
  ELSE c

Touch(c, k) == [c EXCEPT !.lru = Append(Retain(@, k), k)]

\* The n entries that were used least recently.
Oldest(c, n) == {c.lru[i] : i \in 1 .. n}

\* evict_for: how many entries go, oldest first, before size more bytes fit.
Evictions(c, size, max) ==
  LET Fits(n) == c.total - SumBytes(Oldest(c, n)) + size <= max
  IN  Min({n \in 0 .. Len(c.lru) : Fits(n)} \cup {Len(c.lru)})

Evicted(c, k, max) ==
  LET rest == Drop(c, k)
  IN  Oldest(rest, Evictions(rest, Bytes(k), max))

Insert(c, k, v, max) ==
  LET rest == Drop(c, k)
      n == Evictions(rest, Bytes(k), max)
      gone == Oldest(rest, n)
  IN  [lru |-> Append(SubSeq(rest.lru, n + 1, Len(rest.lru)), k),
       value |-> [j \in (Keys(rest) \ gone) \cup {k} |->
                    IF j = k THEN v ELSE rest.value[j]],
       total |-> rest.total - SumBytes(gone) + Bytes(k)]

\* lookup: the longest key that is a prefix of the query.
Hits(c, query) == {k \in Keys(c) : IsPrefix(k, query)}
IsLongest(k, keys) == k \in keys /\ \A j \in keys : Len(j) <= Len(k)
-----------------------------------------------------------------------------
Init ==
  /\ pc = "idle"
  /\ session = NewSession
  /\ prompt = << >> /\ fed = 0 /\ said = << >> /\ left = 0
  /\ logits = Nothing /\ candidate = Nothing /\ doomed = {}
  /\ ram = NoEntries /\ index = NoEntries
  /\ budget \in SsdBudgets
  /\ files = {} /\ temps = {} /\ unread = {}
  /\ crashes = 0 /\ faults = 0

\* The request is answered or has failed; its locals are gone.
Finish ==
  /\ pc' = "idle"
  /\ prompt' = << >> /\ fed' = 0 /\ said' = << >> /\ left' = 0
  /\ logits' = Nothing /\ candidate' = Nothing /\ doomed' = {}

Fault == faults < MaxFaults /\ faults' = faults + 1

Start(p) ==
  /\ pc = "idle"
  /\ prompt' = p
  /\ left' \in 0 .. MaxNew
  /\ pc' = "ram"
  /\ UNCHANGED << session, fed, said, logits, candidate, doomed, ram, index,
                  budget, disk, unread, bounds >>

\* Reset, and ClearHot which also empties the RAM cache.
Reset(clear) ==
  /\ pc = "idle"
  /\ session' = Cleared(session)
  /\ ram' = IF clear THEN NoEntries ELSE ram
  /\ UNCHANGED << pc, request, index, budget, disk, unread, bounds >>
-----------------------------------------------------------------------------
(* lookup_prefix                                                           *)

\* The prefill starts after n cached tokens, with the logits lg.
Resume(n, lg) ==
  /\ fed' = n
  /\ logits' = lg
  /\ pc' = "prefill"

RamHit ==
  /\ pc = "ram"
  /\ \E k \in Keys(ram) :
       /\ IsLongest(k, Hits(ram, prompt))
       /\ session' = Imported(ram.value[k].state)
       /\ Resume(Len(k), ram.value[k].logits)
       /\ ram' = Touch(ram, k)
  /\ UNCHANGED << prompt, said, left, candidate, doomed, index, budget, disk,
                  unread, bounds >>

\* A bug: the whole prompt is looked up.
StrictQuery_MWhole == prompt

\* A file holds no logits: at least one token must remain to be forwarded.
StrictQuery == Front(prompt)

RamMiss ==
  /\ pc = "ram"
  /\ Hits(ram, prompt) = {}
  /\ \/ /\ Hits(index, StrictQuery) = {}
        /\ session' = Cleared(session)
        /\ Resume(0, Nothing)
        /\ UNCHANGED << candidate, index >>
     \/ /\ \E k \in Keys(index) :
             /\ IsLongest(k, Hits(index, StrictQuery))
             /\ candidate' = k
             /\ index' = Touch(index, k)
        /\ pc' = "read"
        /\ UNCHANGED << session, fed, logits >>
  /\ UNCHANGED << prompt, said, left, doomed, ram, budget, disk, unread, bounds >>

\* SsdPrefixStore::read_for: header, identity and both checksums are right.
ReadWhole ==
  /\ pc = "read"
  /\ \E f \in files :
       /\ f.key = candidate /\ f.form = "whole"
       /\ session' = Imported(f.state)
  /\ Resume(Len(candidate), Nothing)
  /\ candidate' = Nothing
  /\ UNCHANGED << prompt, said, left, doomed, ram, index, budget, disk,
                  unread, bounds >>

\* NotFound or InvalidData: the entry is forgotten and the lookup is a miss.
ReadMiss ==
  /\ pc = "read"
  /\ \A f \in files : f.key = candidate => f.form = "corrupt"
  /\ index' = Drop(index, candidate)
  /\ session' = Cleared(session)
  /\ Resume(0, Nothing)
  /\ candidate' = Nothing
  /\ UNCHANGED << prompt, said, left, doomed, ram, budget, disk, unread, bounds >>

\* Any other error, the UnexpectedEof of a truncated file included: the entry
\* is forgotten and the request fails.
ReadFails ==
  /\ pc = "read"
  /\ \/ /\ \E f \in files : f.key = candidate /\ f.form = "truncated"
        /\ UNCHANGED faults
     \/ Fault
  /\ index' = Drop(index, candidate)
  /\ Finish
  /\ UNCHANGED << session, ram, budget, disk, unread, crashes >>
-----------------------------------------------------------------------------
(* Prompt evaluation and store_prefix                                      *)

\* The rows after which the logits of the last forward predict: the fused
\* path computes them from what the device holds.
Output(s) == IF s.gpu = << >> THEN s.rows ELSE s.gpu

PrefillChunk ==
  /\ pc = "prefill" /\ fed < Len(prompt)
  /\ \E n \in 1 .. Chunk :
       /\ n = Chunk \/ fed + n = Len(prompt)
       /\ fed + n <= Len(prompt)
       /\ session' \in Forwarded(session, SubSeq(prompt, fed + 1, fed + n), FALSE)
       /\ fed' = fed + n
  /\ logits' = Output(session')
  /\ UNCHANGED << pc, prompt, said, left, candidate, doomed, ram, index, budget,
                  disk, unread, bounds >>

PrefillCancelled ==
  /\ pc = "prefill" /\ fed < Len(prompt)
  /\ Finish
  /\ UNCHANGED << session, ram, index, budget, disk, unread, bounds >>

\* A bug: the files of evicted entries are forgotten.
Doomed_MNone(k) == {}

\* The files insert_with_evictions asks to remove.
Doomed(k) == Evicted(index, k, budget)

\* A state of another length could not be captured (export_state); it never
\* is.  The RAM cache takes the state if it can hold it at all; then cache_prefix
\* updates the index, or leaves the SSD cache alone; without a budget there is
\* no store.
Store ==
  LET entry == [state |-> Exported(session), logits |-> logits]
      persisted == Len(prompt) >= MinTokens /\ budget > 0 /\ Bytes(prompt) <= budget
  IN  /\ pc = "prefill" /\ fed = Len(prompt)
      /\ Len(session.rows) = Len(prompt)
      /\ ram' = IF RamBudget > 0 /\ Bytes(prompt) <= RamBudget
                THEN Insert(ram, prompt, entry, RamBudget) ELSE ram
      /\ \/ /\ persisted
            /\ index' = Insert(index, prompt, Nothing, budget)
            /\ doomed' = Doomed(prompt)
            /\ pc' = "evict"
         \/ /\ ~persisted
            /\ pc' = "decode"
            /\ UNCHANGED << index, doomed >>
  /\ UNCHANGED << session, prompt, fed, said, left, logits, candidate, budget,
                  disk, unread, bounds >>

\* An evicted file is removed; a failure to do so is ignored.
RemoveEvicted ==
  /\ pc \in {"evict", "rebuild"}
  /\ \E k \in doomed :
       /\ doomed' = doomed \ {k}
       /\ \/ /\ files' = {f \in files : f.key # k}
             /\ UNCHANGED faults
          \/ /\ Fault
             /\ UNCHANGED files
  /\ UNCHANGED << pc, session, prompt, fed, said, left, logits, candidate, ram,
                  index, budget, temps, unread, crashes >>

\* write_for creates a temporary file, named after the entry and the process,
\* fills and syncs it ...
CreateTemp ==
  /\ pc = "evict" /\ doomed = {}
  /\ temps' = temps \cup {<< prompt, crashes >>}
  /\ pc' = "write"
  /\ UNCHANGED << session, request, ram, index, budget, files, unread, bounds >>

\* ... and renames it over the entry's name.
Write ==
  /\ pc = "write"
  /\ temps' = temps \ {<< prompt, crashes >>}
  /\ files' = {f \in files : f.key # prompt}
              \cup {[key |-> prompt, state |-> Exported(session), form |-> "whole"]}
  /\ pc' = "decode"
  /\ UNCHANGED << session, request, ram, index, budget, unread, bounds >>

\* It fails before or after the temporary file is there, which nobody removes.
\* The entry is withdrawn and the request fails; an older file of the same
\* prefix stays.
WriteFails ==
  /\ pc \in {"evict", "write"} /\ doomed = {}
  /\ Fault
  /\ index' = Drop(index, prompt)
  /\ Finish
  /\ UNCHANGED << session, ram, budget, disk, unread, crashes >>
-----------------------------------------------------------------------------
(* The decode loop                                                         *)

\* Enough tokens, cancelled, an EOS chosen, or a token that no longer fits.
DecodeEnds ==
  /\ pc = "decode"
  /\ Finish
  /\ UNCHANGED << session, ram, index, budget, disk, unread, bounds >>

\* The token is emitted, then forwarded; "context is full" ends the loop.
DecodeToken(t) ==
  /\ pc = "decode" /\ left > 0
  /\ ~Exceeds(session, << t >>)
  /\ session' \in Forwarded(session, << t >>, FALSE)
  /\ \/ /\ Len(session'.rows) < MaxPositions
        /\ said' = Append(said, t)
        /\ logits' = Output(session')
        /\ left' = left - 1
        /\ UNCHANGED << pc, prompt, fed, candidate, doomed >>
     \/ /\ Len(session'.rows) >= MaxPositions
        /\ Finish
  /\ UNCHANGED << ram, index, budget, disk, unread, bounds >>
-----------------------------------------------------------------------------
(* The environment                                                         *)

\* A file is removed, truncated or corrupted.
Damage(f) ==
  /\ Fault
  /\ \E kept \in {{}, {"truncated"}, {"corrupt"}} :
       files' = (files \ {f}) \cup {[f EXCEPT !.form = form] : form \in kept}
  /\ UNCHANGED << pc, session, request, ram, index, budget, temps, unread,
                  crashes >>

Crash ==
  /\ pc # "down" /\ crashes < MaxCrashes
  /\ pc' = "down"
  /\ session' = NewSession
  /\ prompt' = << >> /\ fed' = 0 /\ said' = << >> /\ left' = 0
  /\ logits' = Nothing /\ candidate' = Nothing /\ doomed' = {}
  /\ ram' = NoEntries /\ index' = NoEntries
  /\ unread' = {}
  /\ crashes' = crashes + 1
  /\ UNCHANGED << budget, disk, faults >>

\* The engine is loaded again: rebuild_ssd_index scans the directory, where
\* temporary files and damaged ones are passed over.  Without a budget there is
\* no store to scan, and the files stay.
Restart ==
  /\ pc = "down"
  /\ budget' \in SsdBudgets
  /\ unread' = {f.key : f \in {g \in files : g.form = "whole" /\ budget' > 0}}
  /\ pc' = "rebuild"
  /\ UNCHANGED << session, request, ram, index, disk, bounds >>

\* One of the scanned entries, in directory order: indexed unless it is too
\* large, and the files that go for it are removed before the next one.
RebuildEntry(k) ==
  /\ pc = "rebuild" /\ doomed = {}
  /\ unread' = unread \ {k}
  /\ \/ /\ Bytes(k) > budget
        /\ doomed' = {k}
        /\ UNCHANGED index
     \/ /\ Bytes(k) <= budget
        /\ index' = Insert(index, k, Nothing, budget)
        /\ doomed' = Doomed(k)
  /\ UNCHANGED << pc, session, prompt, fed, said, left, logits, candidate, ram,
                  budget, disk, bounds >>

RebuildDone ==
  /\ pc = "rebuild" /\ doomed = {} /\ unread = {}
  /\ pc' = "idle"
  /\ UNCHANGED << session, request, unread, ram, index, budget, disk, bounds >>

Next ==
  \/ \E p \in Prompts : Start(p)
  \/ \E clear \in BOOLEAN : Reset(clear)
  \/ RamHit \/ RamMiss \/ ReadWhole \/ ReadMiss \/ ReadFails
  \/ PrefillChunk \/ PrefillCancelled
  \/ Store \/ RemoveEvicted \/ CreateTemp \/ Write \/ WriteFails
  \/ DecodeEnds
  \/ \E t \in Sampled : DecodeToken(t)
  \/ \E f \in files : Damage(f)
  \/ Crash \/ Restart
  \/ \E k \in unread : RebuildEntry(k)
  \/ RebuildDone

Spec == Init /\ [][Next]_vars
-----------------------------------------------------------------------------
(* Properties                                                              *)

\* Generation starts and goes on from exactly the prompt and what was said
\* since: neither a snapshot from either cache, a damaged file, a cancelled
\* or failed earlier request nor a stale device cache shows in the session or
\* in the logits (engine.rs, lookup_prefix and generate_stream; model.rs,
\* forward and import_prefix_state).
DecodeSeesPrompt ==
  pc = "decode" =>
    /\ session.rows = prompt \o said
    /\ logits = session.rows
    /\ DeviceCoherent(session)

\* Both caches know the bytes they hold and stay within their budgets.  Unless
\* the file system has failed, the entries of the directory are the indexed
\* ones whenever no store is under way, a crash in the middle of one
\* notwithstanding (prefix/runtime.rs, cache_prefix and rebuild_ssd_index).
\* What else the directory holds is on no budget: the entries that a run
\* without an SSD budget leaves alone, and the temporary files that crashes and
\* failed writes left behind, at most one for each (disk.rs, write_for).
CachesWithinBudget ==
  /\ ram.total = SumBytes(Keys(ram)) /\ ram.total <= RamBudget
  /\ index.total = SumBytes(Keys(index)) /\ index.total <= budget
  /\ (faults = 0 /\ budget > 0 /\ pc \notin {"evict", "write", "down", "rebuild"}) =>
       {f.key : f \in files} = Keys(index)
  /\ Cardinality(temps) <= crashes + faults + (IF pc = "write" THEN 1 ELSE 0)
=============================================================================
