\* Every call, at any time, for one endpoint, with a runtime binding that may change.
\* A behaviour ends where the bounds on rows and bundles are used up.
SPECIFICATION Spec

CONSTANTS
  Endpoints = {ep1}
  Clients = {}
  Askers = {}
  None = None
  Bindings = {"none", "resolved"}
  ActorStates = {}
  Holds = {TRUE, FALSE}
  MaxAttempts = 2
  MaxRows = 2
  MaxBundles = 3
  ep1 = ep1

INVARIANTS
  NeverReplayed
  AttemptsSpent
  AuthorityConfined
PROPERTIES
  SettledForGood
CHECK_DEADLOCK FALSE
