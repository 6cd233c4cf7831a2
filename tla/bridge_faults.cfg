\* The Bridge dies twice; it attaches again, the engine goes away and the adapter
\* declines once each.
SPECIFICATION BridgeSpec

CONSTANTS
  Endpoints = {ep1}
  Clients = {}
  Askers = {}
  None = None
  Bindings = {}
  ActorStates = {}
  Holds = {FALSE}
  MaxAttempts = 2
  MaxRows = 3
  MaxBundles = 8
  Messages = 1
  EngineFlaps = 1
  MaxCrashes = 2
  Stops = 0
  Lapses = 0
  Asks = 0
  Declines = 1
  Reattaches = 1
  ep1 = ep1

INVARIANTS
  RunOnce
PROPERTIES
  KeepsContract
CHECK_DEADLOCK FALSE
