SPECIFICATION Spec
CONSTANTS
  Callers = {0, 1, 2}
  Names = {1, 2}
  Ordered = TRUE
  MaxCalls = 6
INVARIANTS
  TypeOK
  MutualExclusion
  NothingLeftLocked
  TestLockTruthful
  NoError
PROPERTIES
  ManagesLocks
  EveryCallReturns
