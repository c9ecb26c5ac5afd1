SPECIFICATION Spec
CONSTANTS
  d1 = d1
  d2 = d2
  c1 = c1
  c2 = c2
  Agents = {a1, a2}
  Requests = {r1}
  Docs = {d1, d2}
  Kept = {d1}
  Comments = {c1, c2}
  Replies <- MCReplies
  MaxTasks = 2
  MaxRequests = 3
  MaxReplies = 2
  MaxStops = 1
SYMMETRY Alike
INVARIANTS
  TypeOK
  IndexIsTable
PROPERTY
  ClosedIsAddressed
CHECK_DEADLOCK FALSE
