SPECIFICATION SafetySpec
CONSTANTS
  N = 2
  MaxReq = 1
  MaxSets = 2
  Kinds = {"gemm"}
  Faults = {}
INVARIANTS
  QueueCallsExclusive
