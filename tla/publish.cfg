SPECIFICATION Spec
CONSTANTS
  ClientId = {"c1"}
  LongId = {"c1long"}
  Address = {"a1"}
  Topic = {"t1", "t2"}
  Payload = {"m1"}
  Predefined <- OnePredefined
  ExistsWorks = TRUE
  RemoveWorks = TRUE
  Packets <- PublishPackets
  Oversized = {}
  MaxHandlers = 2
  Elapsed = {}
  MaxTimeout = 10001
  MaxQueue = 2
  MaxCount = 2
  Crashes = FALSE
INVARIANTS
  BufferStable
  RefIntegrity
PROPERTIES
  RegStable
  DeliveredUnderOwnId
  SilentWhenGone
  AckedByBroker
  QueuedUntilSent
  UsesService
CHECK_DEADLOCK FALSE
