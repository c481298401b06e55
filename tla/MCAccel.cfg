CONSTANTS
  MaxSessions = 2
  MaxTickets = 2
  MaxInflight = 2
  k1 = k1
  k2 = k2
  w1 = w1
  p1 = p1
  NoKey = NoKey
  Key <- MCKey
  Pool <- MCPool
  PoolOf <- MCPoolOf
  Budget <- MCBudget
  Waiter <- MCWaiter
  References <- MCReferences
  MaxLoads = 3
  MaxLeases = 4
SPECIFICATION AccelSpec
INVARIANTS
  BackendReadsPinned
  PinsAccounted
