SPECIFICATION FairSpec
CONSTANTS
  NumThreads = 2
  Clients = {c1}
  NoClient = NoClient
  MaxItems = 1
  MaxQueue = 2
  HalfClose = FALSE
INVARIANT InFlightBufferLive
INVARIANT CompletionHasElement
PROPERTY SharesBuffers
PROPERTY SendingIsReported
