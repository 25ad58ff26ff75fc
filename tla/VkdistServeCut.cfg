SPECIFICATION SafetySpec
CONSTANTS
  N = 1
  MaxReq = 1
  MaxSets = 1
  Kinds = {"info"}
  Faults = {"die"}
INVARIANTS
  SuccessMeansClean
