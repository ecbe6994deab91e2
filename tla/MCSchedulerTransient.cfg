SPECIFICATION Spec
CONSTANTS
  Ranks = {0, 1, 2}
  MyRank = 0
  EventIds = {"a", "b"}
  Threads = {"main", "worker", "poller"}
  Poller = "poller"
  NoThread = "none"
  Names = {"t"}
  NoName = "unnamed"
  Programs <- TransientPrograms
INVARIANTS
  TypeOK
  EventConservation
  HandleCountExact
  FinishedMeansHandled
  PayloadMatchesOrder
  NoMissedTransientMatch
  NoAbort
  NoOvertaking
