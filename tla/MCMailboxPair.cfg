SPECIFICATION Spec
CONSTANTS
  a1 = a1
  a2 = a2
  t1 = t1
  t2 = t2
  m1 = m1
  m2 = m2
  None = None
  Agents <- MCAgents
  Sessions = {}
  Tasks = {t1}
  Messages <- MCMessages
  Assignments <- MCAnyone
  ProjectTasks = {t1}
  Requested <- MCRequested
  MaxRequests = 1
  MaxRestarts = 1
  MaxQueue = 1
SYMMETRY AgentSymmetry
PROPERTIES
  WorksAsPromised
CHECK_DEADLOCK FALSE
