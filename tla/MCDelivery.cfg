SPECIFICATION RelaySpec
CONSTANTS
  Clients = {c1, c2}
  SubIds = {"a", "A", "b"}
  Fold <- CaseFold
  MaxSubs = 2
  Requests <- SentRequests
  Events <- SentEvents
  QueryLimit = 1
SYMMETRY Symmetry
INVARIANTS
  RelayTypeOK
  NothingMissed
  SlotsSound
  NoOrphans
