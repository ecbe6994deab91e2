SPECIFICATION Spec
CONSTANTS
  Master = m
  w1 = w1
  w2 = w2
  Workers = {w1, w2}
  Handles = {1}
  SEND_PROGRESS_PERIOD = 0
  Batching = FALSE
  MaxBatched = 1
  RandRepeats = FALSE
  MaxSends = 2
SYMMETRY WorkerSymmetry
INVARIANTS
  TerminationSafe
  OneAnswerPerRound
