CONSTANTS
  MaxSessions = 2
  MaxTickets = 3
  MaxInflight = 2
  Cpu = Cpu
  NoKind = NoKind
  LaneOrder <- OneLane
  LaneCapacity = 1
  LaneWorkers = 1
  MayClose <- CpuOnly
SPECIFICATION FairRuntimeSpec
CHECK_DEADLOCK FALSE
INVARIANTS
  LiveTicketsHeld
  BackpressureWatched
  ShutdownClean
PROPERTIES
  DrainCompletes
