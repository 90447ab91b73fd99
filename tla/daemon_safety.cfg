\* Two connections on one key, every method, three sessions: one in the pool,
\* one kept by the other connection's request, one to be spawned.
CONSTANTS
  Clients = {c1, c2}
  Keys = {k1}
  Insts = {i1, i2, i3}
  Methods = {"spawn", "replace", "remove", "use", "disconnect", "status", "shutdown", "bad"}
  IdleTicks = 2
  None = None
SYMMETRY Symmetry
SPECIFICATION Spec
INVARIANT TypeOK
INVARIANT LocksMatchPlaces
INVARIANT SpawnOwnsItsKey
PROPERTY GuardedByItsLock
PROPERTY BusySessionLeavesOnRequest
PROPERTY DeadSessionNotServed
PROPERTY ImplementsRegistry
\* daemon/status against dap/spawn really deadlocks: see daemon_stuck.cfg.
CHECK_DEADLOCK FALSE
