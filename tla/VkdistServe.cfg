SPECIFICATION SafetySpec
CONSTANTS
  N = 2
  MaxReq = 2
  MaxSets = 2
  Kinds = {"info", "reject", "malformed", "oversize", "mismatch", "upload", "readback", "gemm"}
  Faults = {"thread", "setup", "record", "submit", "lost", "die"}
INVARIANTS
  TypeOK
  BlasExclusive
  PipelineCreatedOnce
  CommandBufferIdle
  ReturnsClean
  SuccessMeansServed
