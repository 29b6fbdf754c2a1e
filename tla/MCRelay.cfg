SPECIFICATION RelaySpec
CONSTANTS
  Clients = {c1}
  SubIds = {"a"}
  Fold <- CaseFold
  MaxSubs = 1
  Requests = {}
  Events <- StoredEvents
  QueryLimit = 2

  
PROPERTIES
  
  Tombstones
