SPECIFICATION Spec
CONSTANTS
  NumThreads = 1
  Clients = {c1}
  NoClient = NoClient
  MaxItems = 1
  MaxQueue = 1
  HalfClose = TRUE
INVARIANT InFlightBufferLive
CHECK_DEADLOCK FALSE
