SPECIFICATION TreeSpec
CONSTANTS
  UniqueKeys = {1, 2, 3, 4, 5, 6}
  DupKeys = {}
  Rids = {11}
  Pages = {101, 102, 103, 104, 105, 106, 107, 108}
  MaxLeaf = 2
  MaxInner = 2
  MaxEntries = 1
  MaxCopies = 3
  MaxLeaked = 0
INVARIANT ChildrenCover
CHECK_DEADLOCK FALSE
