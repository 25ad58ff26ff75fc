SPECIFICATION ClientSpec
CONSTANTS
  MaxBuffers = 3
  Vals = {0, 1, 2}
  Gemm <- MCGemm
  Faults = {"device", "memory", "cut"}
  Workers = {w1, w2, w3}
  MaxWorkers = 3
  Widths = {2, 5}
  TableSize = 4
  MaxProducts = 2
  GroupFaults = {"add", "cut", "error"}
INVARIANTS
  TypesOK
  InStep
  ProductExact
  ThreeBuffersEach
PROPERTIES
  ImplementsRemoteMemory
CHECK_DEADLOCK FALSE
