SPECIFICATION McpSpec
CONSTANTS
  Clients = {a1, a2}
  Recruits = {a2}
  Servers = {s1, s2}
  Removers = {r1, r2}
  MaxRows = 3
  MaxDeploys = 2
  MaxAsks = 1
  MaxRemovals = 2
  MaxStops = 1
SYMMETRY Alike
INVARIANTS
  McpTypeOK
  RemovedIsGone
PROPERTY
  DeployedIsServed
CHECK_DEADLOCK FALSE
