SPECIFICATION WalSpec
CONSTANTS
  p1 = p1
  p2 = p2
  Page = {p1, p2}
  OldPages = {p1, p2}
  Value = {0, 1}
  BufferRecords = 2
  MaxActive = 2
  MaxTx = 2
  MaxLsn = 5
  MaxCrashes = 2
SYMMETRY PageSymmetry
CONSTRAINT OneNeedBroken
INVARIANTS CrashSafe LogOrder
CHECK_DEADLOCK FALSE
