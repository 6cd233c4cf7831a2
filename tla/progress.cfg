SPECIFICATION Spec
CONSTANTS
  Nodes = {"command", "join"}
  Commands = {"command"}
  External = {"command"}
  Joins = {"join"}
  InPorts <- MCInPorts
  Required <- MCRequired
  Edges <- MCEdges
  MaxRuns = 2
  MaxBundles = 2
  MaxAttempts = 2
  MaxPauses = 2
  LateCalls = TRUE
PROPERTIES NothingReplayed  WaitsEnd
CHECK_DEADLOCK FALSE
