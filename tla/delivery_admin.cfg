\* Two endpoints of a Bridge that ask each other; and one of a Bridge and one whose turns a client executes, in a Workspace
\* that is configured, retired, restored and deleted.
\* A behaviour ends where the bounds on rows and bundles are used up.
SPECIFICATION AdminSpec

CONSTANTS
  Endpoints = {ep1, ep2, ep3}
  Clients = {ep3}
  Askers = {ep1}
  None = None
  Bindings = {"none", "resolved", "unresolved"}
  ActorStates = {"active", "retired"}
  Holds = {TRUE, FALSE}
  MaxAttempts = 1
  MaxRows = 5
  MaxBundles = 5
  ep1 = ep1
  ep2 = ep2
  ep3 = ep3

INVARIANTS
  
  RestoredStartsNothing
CHECK_DEADLOCK FALSE
