SPECIFICATION SpecGivesUp
CONSTANTS
  MaxBuffers = 2
  Vals = {0, 1, 2}
  Gemm <- MCGemm
  Faults = {}
PROPERTIES
  ReadbackIsCurrent
