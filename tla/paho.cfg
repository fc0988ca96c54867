SPECIFICATION FairSpec
CONSTANTS
  Topic = {"t1"}
  MaxHandlers = 1
  MaxPacketId = 2
  Window = 1
  PeerCloses = TRUE
  TornReads = TRUE
INVARIANTS
  ClientTypeOK
  PingPending
PROPERTIES
  AckIsOwn
  CallReturns
