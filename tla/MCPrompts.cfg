SPECIFICATION PromptsSpec
CONSTANTS
  a1 = a1
  a2 = a2
  p1 = p1
  p2 = p2
  r1 = r1
  r2 = r2
  id = id
  Agents = {a1, a2}
  Projects = {p1, p2}
  Persons = {id}
  ProjectOf <- MCProjectOf
  PersonOf <- MCPersonOf
  ApiAgents = {a2}
  Kinds = {"personality"}
  Rosters = {r1, r2}
  None = None
  MaxSaves = 2
  MaxEvents = 4
SYMMETRY RostersAlike
INVARIANTS
  PromptsTypeOK
  MemoryIsTold
PROPERTIES
  ResumedKnowsPrompt
CHECK_DEADLOCK FALSE
