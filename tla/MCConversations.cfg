SPECIFICATION FairSpec
CONSTANTS
  a1 = a1
  r1 = r1
  r2 = r2
  v1 = v1
  v2 = v2
  m1 = m1
  None = None
  Agents <- MCAgents
  Routes <- MCRoutes
  Ids <- MCIds
  Messages <- MCMessages
  MaxRestarts = 1
INVARIANTS
  TypeOK
  StoredIsOpen
PROPERTY
  ClosedLeaves
CHECK_DEADLOCK FALSE
