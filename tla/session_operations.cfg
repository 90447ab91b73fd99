\* A launch or an attach, a resumption and waits, with stale responses of requests that gave
\* up; room in the buffer for two events, and events enough to push out a stop.
CONSTANTS
  Ops = {"launch", "attach", "resume", "waitStopped", "waitOutput"}
  MaxPending = 2
  Noise = {"output"}
  MaxSeq = 4
  MaxSent = 3
SPECIFICATION FairSpec
INVARIANT TypeOK
INVARIANT OutputKept
PROPERTY OldestOnce
PROPERTY ResponseIsForItsRequest
PROPERTY StopsReachCallers
PROPERTY OperationsEnd
\* MaxSeq and MaxSent run out.
CHECK_DEADLOCK FALSE
