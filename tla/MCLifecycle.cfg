SPECIFICATION FairSpec
CONSTANTS
  MaxProjects = 3
  Team = {rory}
  Recruits = {dev}
  Recruiter = rory
  MaxRunning = 2
  Requests = {r1, r2}
  Main = main
  Hirer = hirer
  MaxEngines = 3
  MaxEvents = 3
  Existing = 2
  MaxHires = 1
INVARIANTS
  TypeOK
  OneLoop
  RestAgrees
PROPERTIES
  KeepsPromise
  RequestsEnd
CHECK_DEADLOCK FALSE
