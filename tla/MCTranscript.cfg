SPECIFICATION TranscriptSpec
CONSTANTS
  Setups <- MCSetups
  Tools = {"Read"}
  Actions = {"delegate"}
  MaxIterations = 2
  Batches <- MCBatches
  MaxSessions = 4
  MaxPrompts = 2
  MaxSwitches = 1
  MaxCuts = 1
  None = None
INVARIANTS
  TranscriptTypeOK
  SentIsAnswered
  QueuedIsHandled
CHECK_DEADLOCK FALSE
