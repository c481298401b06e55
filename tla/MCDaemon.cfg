CONSTANTS
  Clients <- OneClient
  Packages <- TwoPackages
  MaxControls = 3
  MaxTokens = 1
  None = None
SPECIFICATION FairSpec
INVARIANTS
  SnapshotNamesEngine
  SettledWhenQuiet
PROPERTIES
  EveryRequestAnswered
