SPECIFICATION Spec
CONSTANTS
  p1 = p1
  p2 = p2
  r1 = r1
  r2 = r2
  a1 = a1
  d1 = d1
  None = None
  Absent = Absent
  NoPhase = NoPhase
  Phases <- MCPhases
  Ordering <- MCOrdering
  Routes <- MCRoutes
  Agents <- MCAgents
  Docs <- MCDocs
  Asks <- MCAsks
  MaxUpdates = 8
  MaxRestarts = 1
SYMMETRY MCSymmetry
INVARIANTS
  TypeOK
  LastCompletionIsTold
PROPERTY
  FollowsTable
CHECK_DEADLOCK FALSE
