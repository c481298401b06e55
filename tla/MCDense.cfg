CONSTANTS
  Token <- Words
  Sampled <- OneWord
  MaxPositions = 4
  Generations = 1
  Prompts <- SmallPrompts
  Chunk = 2
  MaxNew = 2
  RamBudget = 4
  SsdBudgets <- Budgets
  MinTokens = 1
  Bytes <- EntryBytes
  Nothing = Nothing
  MaxCrashes = 2
  MaxFaults = 2
SPECIFICATION Spec
INVARIANTS
  DecodeSeesPrompt
  CachesWithinBudget
