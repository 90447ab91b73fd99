CONSTANTS
  c1 = c1
  c2 = c2
  None = None
  Conn = Conn
  Calls = {c1, c2}
  Agents = {a1}
  Names = {"x", "y"}
  Keys <- MCKeys
  MaxAsks = 2
  MaxSpawns = 2
  MaxDaemons = 2
  Scenarios <- MCScenarios
SPECIFICATION Spec
INVARIANT TypeOK
INVARIANT ToolsAgree
INVARIANT LaunchesFresh
INVARIANT CallsReachTheirKey
PROPERTY ImplementsRegistry
PROPERTY CallsReturn
\* The scripts end: so may the model.
CHECK_DEADLOCK FALSE
