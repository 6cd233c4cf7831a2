\* The Bus opens and reopens over the year of its host credential.
SPECIFICATION TransportSpec
CONSTANTS
  Workspaces = {"v", "w"}
  HostLife = 2
  BridgeLife = 1
  MaxTransportTime = 3
  MaxCreds = 5
  MaxBearers = 2
INVARIANT SameBearerOpens
CHECK_DEADLOCK FALSE
