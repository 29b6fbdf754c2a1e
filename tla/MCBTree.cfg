SPECIFICATION TreeSpec
CONSTANTS
  UniqueKeys = {1, 2, 3, 4}
  DupKeys = {1, 2, 3}
  Rids = {11, 12}
  Pages = {101, 102, 103, 104, 105, 106}
  MaxLeaf = 2
  MaxInner = 3
  MaxEntries = 2
  MaxCopies = 3
  MaxLeaked = 0
INVARIANTS
  TreeTypeOK
  ScanInOrder
  ChildrenCover
  PagesOwned
PROPERTIES
  ImplementsIndex
  NothingLost
CHECK_DEADLOCK FALSE
