CONSTANTS
  Token <- Vocabulary
  Users <- OneUser
  SystemPrefix <- System
  FirstUser <- FirstText
  Continuation <- LaterText
  ApiPrompts <- AllPrompts
  Words <- OneWord
  ImEnd = ImEnd
  Eos = Eos
  ContextLimit = 7
  MaxNew = 2
  MinPersist = 1
  HotBudget = 8
  Bytes <- SnapshotBytes
  PeerKeys <- Peers
  Nothing = Nothing
  Torn = Torn
  MaxRequests = 4
  MaxFaults = 2
SPECIFICATION Spec
INVARIANTS
  StateMatchesHistory
  DecodesFromPrompt
  CachesExact
