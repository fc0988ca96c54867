SPECIFICATION Spec
CONSTANTS
  ClientId = {"c1"}
  LongId = {}
  Address = {"a1"}
  Topic = {"t1"}
  Payload = {"m1"}
  Predefined <- NoPredefined
  ExistsWorks = FALSE
  RemoveWorks = FALSE
  Packets <- PingPackets
  Oversized = {}
  MaxHandlers = 2
  Elapsed = {}
  MaxTimeout = 0
  MaxQueue = 2
  MaxCount = 2
  Crashes = TRUE
INVARIANT OfflineLoopEnds
CHECK_DEADLOCK FALSE
