SPECIFICATION FairSpec
CONSTANTS
  a1 = a1
  a2 = a2
  Agents = {a1, a2}
  Registry <- MCRegistry
  Troubled = {a1}
INVARIANTS
  TypeOK
  HeldIsAsked
PROPERTIES
  CheckIsShared
  CancelHolds
  InvocationsEnd
CHECK_DEADLOCK FALSE
