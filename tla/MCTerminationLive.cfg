SPECIFICATION Spec
CONSTANTS
  Master = m
  w1 = w1
  Workers = {w1}
  Handles = {1}
  SEND_PROGRESS_PERIOD = 0
  Batching = TRUE
  MaxBatched = 2
  RandRepeats = FALSE
  MaxSends = 3
INVARIANTS
  TypeOK
PROPERTIES
  DetectsTermination
  QuietTerminates
