SPECIFICATION Spec
CONSTANTS
  ClientId = {"c1"}
  LongId = {}
  Address = {"a1"}
  Topic = {"t1", "t2"}
  Payload = {"m1"}
  Predefined <- NoPredefined
  ExistsWorks = FALSE
  RemoveWorks = FALSE
  Packets <- IteratePackets
  Oversized = {}
  MaxHandlers = 2
  Elapsed = {}
  MaxTimeout = 0
  MaxQueue = 2
  MaxCount = 2
  Crashes = FALSE
INVARIANT NthSubscriptionExists
CHECK_DEADLOCK FALSE
