SPECIFICATION Spec
CONSTANTS
  Settings <- Beside
  MaxTasks = 2
  MaxWaits = 2
ACTION_CONSTRAINT Calm
INVARIANTS
  NoError
  FinishedMeansDone
  NoForgottenWaiter
CHECK_DEADLOCK FALSE
