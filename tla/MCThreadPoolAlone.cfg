SPECIFICATION FairSpec
CONSTANTS
  Settings <- Alone
  MaxTasks = 1
  MaxWaits = 0
PROPERTIES
  MainThreadWakes
CHECK_DEADLOCK FALSE
