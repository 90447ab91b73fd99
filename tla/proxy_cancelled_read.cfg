\* A client that waits for its answers during the handshake.
CONSTANTS
  Frames = 4
  Messages = 4
  Pipelines = FALSE
SPECIFICATION Spec
INVARIANT ReadsWholeFrames
CHECK_DEADLOCK FALSE
