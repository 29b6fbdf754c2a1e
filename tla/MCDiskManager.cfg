SPECIFICATION DiskSpec
CONSTANTS
  InitialPages = 2
  ExtendPages = 2
  MaxPages = 6
  Words = {2, 9}
  UIntMax = 15
INVARIANTS
  DiskTypeOK
  FreeListSound
PROPERTIES
  LiveDataKept
  ImplementsAllocator
