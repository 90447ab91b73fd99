\* One launch, with an adapter that may answer it early.
CONSTANTS
  Ops = {"launch"}
  MaxPending = 2
  Noise = {"output"}
  MaxSeq = 3
  MaxSent = 3
SPECIFICATION Spec
INVARIANT LaunchResponseCollected
CHECK_DEADLOCK FALSE
