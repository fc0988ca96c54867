SPECIFICATION FairSpec
CONSTANTS
  Topic = {"t1"}
  MaxHandlers = 1
  MaxPacketId = 2
  Window = 1
  PeerCloses = TRUE
  TornReads = FALSE
PROPERTIES
  ReadEnds
