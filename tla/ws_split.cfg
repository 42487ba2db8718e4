SPECIFICATION Spec
CONSTANTS
  Streams <- MCStreams
  Sizes <- MCSizes
INVARIANT FramesKept
CHECK_DEADLOCK FALSE
