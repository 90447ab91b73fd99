\* As daemon_progress, with daemon/status.
CONSTANTS
  Clients = {c1, c2}
  Keys = {k1}
  Insts = {i1}
  Methods = {"spawn", "status"}
  IdleTicks = 1
  None = None
SPECIFICATION FairSpec
PROPERTY ShutdownCompletes
CHECK_DEADLOCK FALSE
