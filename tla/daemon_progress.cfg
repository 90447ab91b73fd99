\* Without daemon/status.  Both connections compete for one session, and for the
\* pool and the status with the reaper and the teardown.
CONSTANTS
  Clients = {c1, c2}
  Keys = {k1}
  Insts = {i1}
  Methods = {"replace", "disconnect"}
  IdleTicks = 1
  None = None
SPECIFICATION FairSpec
PROPERTY RequestsAnswered
PROPERTY ShutdownCompletes
PROPERTY UnusedDaemonStops
PROPERTY QuietSessionsReaped
