CONSTANTS
  Token <- Vocabulary
  MaxPositions = 4
  Generations = 16
  Greedy <- Mixed
  Markov <- Successor
  Eos <- EosIds
  BlockWidth = 2
  HistoryCapacity = 2
  DsparkPrompts <- SmallPrompts
  DraftCounts <- FullBlocks
  Caps <- SmallCaps
  NoToken = NoToken
  MaxSaved = 2
SPECIFICATION DsparkSpec
INVARIANTS
  MirrorsFollowCache
  VerifiedIsGreedy
