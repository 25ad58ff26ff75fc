SPECIFICATION LoadSpec
CONSTANTS
  Files <- Gguf
  Word = 64
  Chunk = 4
  MaxDims = 4
  DimText = 4
  MaxTensors = 2
  LoadFaults = {"acquire"}
INVARIANT
  FailureReleasesAll
CHECK_DEADLOCK FALSE
