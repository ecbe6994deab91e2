SPECIFICATION Spec
CONSTANTS
  Settings <- Default
  MaxTasks = 2
  MaxWaits = 1
INVARIANTS
  FinishedMeansDone
CHECK_DEADLOCK FALSE
