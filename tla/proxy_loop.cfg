\* The handshake and the loop: one frame of the client after the handshake, three
\* messages of the adapter.
CONSTANTS
  Frames = 5
  Messages = 5
  Pipelines = TRUE
SPECIFICATION FairSpec
INVARIANT TypeOK
INVARIANT InStep
PROPERTY MessagesDelivered
PROPERTY CloseEndsProxy
\* The proxy ends.
CHECK_DEADLOCK FALSE
