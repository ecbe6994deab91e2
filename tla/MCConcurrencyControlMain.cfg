SPECIFICATION Spec
CONSTANTS
  Callers <- MainAndWorker
  Names = {1}
  Ordered = TRUE
  MaxCalls = 4
CHECK_DEADLOCK FALSE
INVARIANTS
  MutualExclusion
