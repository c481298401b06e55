CONSTANTS
  Token <- Bits
  Calls <- SmallCalls
  Layers = 2
  Expert = {1, 2, 3}
  TopK = 2
  StoreCap = 2
  CommandCapacity = 3
  Model <- ParityTarget
SPECIFICATION FairScheduledSpec
CHECK_DEADLOCK FALSE
INVARIANTS
  ScheduledIsGreedy
PROPERTIES
  CallReturns
