SPECIFICATION PoolSpec
CONSTANTS
  InitialPages = 3
  ExtendPages = 1
  MaxPages = 4
  Words = {2, 9}
  UIntMax = 15
  PoolSize = 2
  PinLimit = 3
  MaxHolds = 2
INVARIANTS
  PoolTypeOK
  PinnedStays
  OneCopy
PROPERTIES
  ImplementsStore
