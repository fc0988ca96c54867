SPECIFICATION Spec
CONSTANTS
  ClientId = {"c1", "c2"}
  LongId = {}
  Address = {"a1", "a2"}
  Topic = {"t1", "t2"}
  Payload = {"m1"}
  Predefined <- OnePredefined
  ExistsWorks = FALSE
  RemoveWorks = FALSE
  Packets <- UnsubscribePackets
  Oversized = {}
  MaxHandlers = 2
  Elapsed = {}
  MaxTimeout = 10001
  MaxQueue = 1
  MaxCount = 2
  Crashes = FALSE
INVARIANTS
  CountBound
  NoOrphan
CHECK_DEADLOCK FALSE
