CONSTANTS
  k1 = k1
  k2 = k2
  k3 = k3
  w1 = w1
  w2 = w2
  p1 = p1
  NoKey = NoKey
  Key <- MCKey
  Pool <- MCPool
  PoolOf <- MCPoolOf
  Budget <- MCBudget
  Waiter <- MCWaiter
  Size <- MCSize
  MaxLoads = 3
  MaxLeases = 3
SPECIFICATION FairSpec
INVARIANTS
  AccountingExact
  LeasePinsGeneration
PROPERTIES
  GenerationsFresh
  EvictsLeastRecent
  WaitersWoken
