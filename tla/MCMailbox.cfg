SPECIFICATION FairSpec
CONSTANTS
  a1 = a1
  a2 = a2
  t1 = t1
  t2 = t2
  m1 = m1
  m2 = m2
  None = None
  Agents <- OneAgent
  Sessions <- OneAgent
  Tasks <- MCTasks
  Messages <- MCMessages
  Assignments <- MCAnyone
  ProjectTasks = {}
  Requested = {}
  MaxRequests = 0
  MaxRestarts = 0
  MaxQueue = 0
INVARIANTS
  TypeOK
  OneInWorkingbox
PROPERTIES
  DeliveredIsTakenUp
CHECK_DEADLOCK FALSE
