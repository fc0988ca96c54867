SPECIFICATION Spec
CONSTANTS
  ClientId = {"c1", "c2"}
  LongId = {}
  Address = {"a1", "a2"}
  Topic = {"t1"}
  Payload = {"m1"}
  Predefined <- NoPredefined
  ExistsWorks = FALSE
  RemoveWorks = FALSE
  Packets <- RestartPackets
  Oversized = {}
  MaxHandlers = 2
  Elapsed = {10001}
  MaxTimeout = 0
  MaxQueue = 1
  MaxCount = 2
  Crashes = TRUE
INVARIANTS
  TypeOK
  UniqueIds
  RefIntegrity
  FreeSlotUnsubscribed
  NoOrphan
