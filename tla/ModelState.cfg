SPECIFICATION Spec
CONSTANTS
  t1 = t1
  t2 = t2
  t3 = t3
  t4 = t4
  MaxBlocks = 4
  Seqs = {1, 2, 5}
  SeqCap = 4
  ArrayCap = 1
  MaxAsk = 2
  MaxCount = 1
  KvFaults = {"create", "table", "array"}
  Positions = {0, 2, 3, 5, 7, 8}
  MarkerCap = 2
  MarkerFaults = {"realloc"}
  Tensors = {t1, t2, t3, t4}
  Size <- MCSize
  MaxEntries = 3
  MaxBytes = 4
  MaxRefs <- MCRefs
  MaxResident = 5
  NoTensor = NoTensor
  StreamFaults = {"staging", "gpu"}
  Files <- MCFiles
  Word = 64
  Chunk = 4
  MaxDims = 4
  DimText = 4
  MaxTensors = 2
  LoadFaults = {"acquire", "fill", "pool", "buffer", "upload"}
INVARIANTS
  TypesOK
  PagedAccounts
  LookupsEnd
  BlockTableExact
  NearestMarker
  LruIsResident
  BudgetKept
  SlotHoldsItsTensor
  CountedByHolders
  BuffersExact
  
  
  OpenVinoSound
CHECK_DEADLOCK FALSE
