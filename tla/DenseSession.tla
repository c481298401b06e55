---------------------------- MODULE DenseSession ----------------------------
(***************************************************************************)
(* A session of the dense Llama engine (logan-llama/src/model.rs,          *)
(* DenseSession) and its key/value cache (kv.rs, KvCache), as operators on *)
(* a record:                                                               *)
(*   rows  the tokens whose keys and values every layer holds              *)
(*   gen   the generation counter                                          *)
(*   hist  the checkpoints the cache can go back to                        *)
(*   gpu   the tokens whose keys and values the device holds for the       *)
(*         fused single-token path, << >> once llama_drop_model was called *)
(* A row of a layer is represented by its token.  All layers are committed *)
(* and truncated together, so one sequence stands for them.                *)
(***************************************************************************)
EXTENDS Integers, Sequences, FiniteSets

CONSTANTS
  Token,
  MaxPositions,    \* max_position_embeddings
  Generations      \* the generation counter wraps here: 2^64 in the code

ASSUME SessionAssumption == MaxPositions \in Nat /\ Generations \in Nat \ {0}

NewSession == [rows |-> << >>, gen |-> 0, hist |-> {}, gpu |-> << >>]

Checkpoint(s) == [generation |-> s.gen, processed |-> Len(s.rows)]

DropDevice(s) == [s EXCEPT !.gpu = << >>]

\* KvCache::commit
Commit(s, toks) ==
  [s EXCEPT !.hist = @ \cup {Checkpoint(s)},
            !.rows = @ \o toks,
            !.gen = (@ + 1) % Generations]

\* The chunk exceeds max_position_embeddings: an error before any change.
Exceeds(s, toks) == Len(s.rows) + Len(toks) > MaxPositions

\* What forward may leave.  The fused path is tried for one token without
\* taps; the device takes it if it holds exactly the rows before it, and may
\* still fail.  Every other way drops what the device holds.
Forwarded(s, toks, tapped) ==
  LET fused == Len(toks) = 1 /\ ~tapped /\ Len(s.gpu) = Len(s.rows)
  IN  {DropDevice(Commit(s, toks))} \cup
      IF fused THEN {[Commit(s, toks) EXCEPT !.gpu = @ \o toks]} ELSE {}

\* KvCache::restore knows the checkpoint: it is the current one, or one a
\* commit recorded.
Known(s, c) ==
  \/ c = Checkpoint(s)
  \/ c \in s.hist /\ c.processed <= Len(s.rows)

\* DenseSession::restore, of a checkpoint the cache knows.
Restored(s, c) ==
  [rows |-> SubSeq(s.rows, 1, c.processed),
   gen  |-> c.generation,
   hist |-> {h \in s.hist : h.generation <= c.generation},
   gpu  |-> << >>]

\* DenseSession::reset
Cleared(s) ==
  [rows |-> << >>, gen |-> (s.gen + 1) % Generations, hist |-> {}, gpu |-> << >>]

\* export_prefix_state, import_prefix_state
Exported(s) == [rows |-> s.rows, gen |-> s.gen]
Imported(e) == [rows |-> e.rows, gen |-> e.gen, hist |-> {}, gpu |-> << >>]

\* What the device would use as context is what the session holds.
DeviceCoherent(s) == Len(s.gpu) = Len(s.rows) => s.gpu = s.rows
=============================================================================
