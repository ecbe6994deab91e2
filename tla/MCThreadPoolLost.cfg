SPECIFICATION Spec
CONSTANTS
  Settings <- Default
  MaxTasks = 2
  MaxWaits = 1
INVARIANTS
  NoTaskLost
CHECK_DEADLOCK FALSE
