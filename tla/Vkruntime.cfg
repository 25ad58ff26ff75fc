SPECIFICATION VkruntimeSpec
CONSTANTS
  Ids = {b1, b2, b3, b4}
  MaxBlocks = 2
  BlockSize = 3
  FirstCap = 1
  Requests <- MCRequests
  Faults = {"memory", "realloc", "bind"}
  Buffers = {1, 2, 3, 4, 5, 6}
  Hash <- MCHash
  InitCap = 4
SYMMETRY IdSymmetry
INVARIANTS
  TypeOK
  NoOverlap
  FreeListSound
  FreeUnused
  LiveAligned
  TableTypeOK
  ProbesEnd
  CountExact
  RecordedOnce
PROPERTIES
  FreeReturnsRegion
  GrowthRepairs
