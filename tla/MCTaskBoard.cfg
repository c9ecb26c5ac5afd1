SPECIFICATION Spec
CONSTANTS
  t1 = t1
  t2 = t2
  c1 = c1
  c2 = c2
  Tasks <- MCTasks
  Callers <- MCCallers
  Agents = {"jerry"}
  Privileged = {"user", "jerry"}
  WebUser = "anonymous"
  DefaultReviewer = "jerry"
  Requests <- MCRequests
  MaxUpdates = 2
  None = None
  Absent = Absent
  NoTask = NoTask
SYMMETRY MCSymmetry
INVARIANTS
  TypeOK
  CacheMatchesRow
  DeletedStaysDeleted
PROPERTIES
  DurableReviewGate
