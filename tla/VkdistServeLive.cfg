SPECIFICATION ServersSpec
CONSTANTS
  N = 2
  MaxReq = 1
  MaxSets = 1
  Kinds = {"malformed", "readback", "gemm"}
  Faults = {"thread", "record", "lost", "die"}
  Clients = {k1}
  MaxStarts = 2
  CallerJoins = TRUE
  Requests = {"part", "bare", "unnumbered", "plain", "generate"}
  HttpFaults = {"startup", "socket", "accept", "reset"}
PROPERTIES
  CallsReturn
  ServeReturns
  NoThreadAfterJoin
  JoinComesBack
  ConnectionEnds
CHECK_DEADLOCK FALSE
