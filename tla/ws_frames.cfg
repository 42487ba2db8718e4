SPECIFICATION Spec
CONSTANTS
  Streams <- MCStreams
  Sizes <- MCSizes
INVARIANT TypeOK
INVARIANT FramesIntact
INVARIANT PendingIsFrameHead
INVARIANT AnswersReadable
CHECK_DEADLOCK FALSE
