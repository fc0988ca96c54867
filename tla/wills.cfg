SPECIFICATION Spec
CONSTANTS
  ClientId = {"c1", "c2"}
  LongId = {}
  Address = {"a1", "a2"}
  Topic = {"t1"}
  Payload = {"m1"}
  Predefined <- NoPredefined
  ExistsWorks = FALSE
  RemoveWorks = FALSE
  Packets <- WillPackets
  Oversized = {}
  MaxHandlers = 2
  Elapsed = {10001}
  MaxTimeout = 10001
  MaxQueue = 2
  MaxCount = 2
  Crashes = FALSE
INVARIANTS
  TxDiscipline
  FreeSlotUnsubscribed
PROPERTIES
  ForgottenAfterWill
