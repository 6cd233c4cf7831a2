SPECIFICATION Spec
CONSTANTS
  Nodes = {"actor", "command", "join"}
  Commands = {"command"}
  External = {}
  Joins = {"join"}
  InPorts <- MCInPorts
  Required <- MCRequired
  Edges <- MCEdges
  MaxRuns = 3
  MaxBundles = 2
  MaxAttempts = 2
  MaxPauses = 1
  LateCalls = FALSE
INVARIANTS   JoinFires GraphsKeepTheirMeaning
CHECK_DEADLOCK FALSE
