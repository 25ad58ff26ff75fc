SPECIFICATION HttpSpec
CONSTANTS
  Clients = {k1}
  MaxStarts = 1
  CallerJoins = FALSE
  Requests = {"part", "plain", "generate"}
  HttpFaults = {"socket", "accept", "reset"}
INVARIANTS
  LifecycleEnds
CHECK_DEADLOCK FALSE
