SPECIFICATION FairSpec
CONSTANTS
  Settings <- Work
  MaxTasks = 2
  MaxWaits = 0
INVARIANTS
  TypeOK
  RunsOnce
  NoTaskLost
  FinishedMeansDone
  NoCircularWait
PROPERTIES
  EveryTaskRuns
  MainThreadWakes
