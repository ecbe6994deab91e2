SPECIFICATION BoundedSpec
CONSTANTS
  Ranks = {0, 1}
  MyRank = 0
  EventIds = {"a", "b"}
  Threads = {"main", "worker", "poller"}
  Poller = "poller"
  NoThread = "none"
  Names = {"t"}
  NoName = "unnamed"
  Programs <- PersistentPrograms
INVARIANTS
  EventConservation
  HandleCountExact
  NoMissedMatch
  PayloadMatchesOrder
  PersistentEventsStay
PROPERTIES
  EveryCallReturns
  MatchedWaitResumes
