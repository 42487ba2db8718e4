SPECIFICATION Spec
CONSTANTS
  NumThreads = 1
  Clients = {c1, c2}
  NoClient = NoClient
  MaxItems = 2
  MaxQueue = 2
  HalfClose = TRUE
INVARIANT TypeOK
INVARIANT BufferLive
INVARIANT UsesCountHolders
INVARIANT WakeupHasMessage
CHECK_DEADLOCK FALSE
