SPECIFICATION Spec
CONSTANTS
  Settings <- Default
  MaxTasks = 1
  MaxWaits = 1
INVARIANTS
  NoCircularWait
CHECK_DEADLOCK FALSE
