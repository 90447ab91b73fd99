\* Two clients, each of which may start a daemon, and one of the daemons may be killed.
CONSTANTS
  Clients = {c1, c2}
  None = None
  MaxCalls = 2
  MaxCrashes = 1
SPECIFICATION FairSpec
INVARIANT TypeOK
INVARIANT StaleAfterKillOnly
PROPERTY CallGetsItsResponse
PROPERTY CallsEnd
PROPERTY NothingLeft
\* All are done.
CHECK_DEADLOCK FALSE
