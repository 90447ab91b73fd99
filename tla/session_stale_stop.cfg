\* An attach, then a resumption.
CONSTANTS
  Ops = {"attach", "request", "resume"}
  MaxPending = 2
  Noise = {"output"}
  MaxSeq = 5
  MaxSent = 3
SPECIFICATION Spec
PROPERTY NextStopIsNew
CHECK_DEADLOCK FALSE
