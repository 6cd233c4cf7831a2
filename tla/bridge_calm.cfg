\* No process fails: turns succeed, fail, ask one another and are stopped.
SPECIFICATION FairBridgeSpec

CONSTANTS
  Endpoints = {ep1, ep2}
  Clients = {}
  Askers = {}
  None = None
  Bindings = {}
  ActorStates = {}
  Holds = {FALSE}
  MaxAttempts = 2
  MaxRows = 4
  MaxBundles = 5
  Messages = 1
  EngineFlaps = 0
  MaxCrashes = 0
  Stops = 1
  Lapses = 0
  Asks = 1
  Declines = 0
  Reattaches = 0
  ep1 = ep1
  ep2 = ep2

INVARIANTS
  
  StoppedSaysNothing
PROPERTIES
  QueuedIsSettled
  RequestReturns
CHECK_DEADLOCK FALSE
