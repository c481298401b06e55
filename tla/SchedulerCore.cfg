CONSTANTS
  MaxSessions = 3
  MaxTickets = 3
  MaxInflight = 2
SPECIFICATION FairSpec
INVARIANTS
  CoreConsistent
  BudgetKept
  DispatchMatchesInflight
  TerminalReported
  NoSessionLost
PROPERTIES
  LifecycleForward
  TicketConsumedOnce
  FifoOrder
  QueuedEventuallyRuns
  BlockedEventuallyLeaves
