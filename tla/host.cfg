SPECIFICATION Spec
CONSTANTS
  Runs = {s1, s2}
  People = {"ann"}
  Bots = {"bot"}
  MaxGrants = 4
  MaxSessions = 2
  MaxTime = 0
  Lifetimes = {1}
  MaxPasses = 0
  Workspaces = {"v", "w"}
  HostLife = 2
  BridgeLife = 1
  MaxTransportTime = 3
  MaxCreds = 5
  MaxBearers = 2
  Surfaces = {"u"}
  SessionIds = {"x"}
  MaxAgentFaults = 1
  Builds <- MCBuilds
  MaxStarts = 4
  MaxUpgradeFaults = 2
INVARIANTS AccessIsHeld BearersConfined HostKeepsFaith DatabaseOpens
CHECK_DEADLOCK FALSE
