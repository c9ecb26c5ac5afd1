SPECIFICATION Spec
CONSTANTS
  Routes = {r1}
  Agent = agent
  Threshold <- MCThreshold
  MaxMessages <- MCMessages
  MaxRequests = 2
  MaxRestarts = 1
INVARIANTS
  TypeOK
PROPERTIES
  PauseHolds
  AutoPauseHolds
  KillHolds
CHECK_DEADLOCK FALSE
