CONSTANTS
  w1 = w1
  w2 = w2
  t1 = t1
  t2 = t2
  t3 = t3
  Other = Other
  Worker <- MCWorker
  Ticket <- MCTicket
  Sink <- MCSink
  Retained <- MCRetained
  QueueCapacity = 2
  ChanCapacity = 1
SPECIFICATION FairSpec
CHECK_DEADLOCK FALSE
INVARIANTS
  ReportedOnce
  LeasesHandedBackOnce
PROPERTIES
  ImplementsLane
  QueuedEventuallyTaken
