CONSTANTS
  Token <- Bits
  Prompts <- SmallPrompts
  MaxNew = 7
  MaxBlock = 4
  MaxT = 7
  NoRow = NoRow
  Target <- ParityTarget
SPECIFICATION FairSpec
INVARIANTS
  SpeculationIsGreedy
  BoundaryExact
PROPERTIES
  ReturnsAllTokens
