SPECIFICATION Spec
CONSTANTS
  Turns = {t1, t2}
  Resources = {"connector_runtime", "endpoint_attachment", "content"}
  PulseIds = {"p", "q"}
  MaxDelay = 9
  Calls = {"c1", "c2", "c3"}
  Boundaries = {"w"}
  Owner = "w"
INVARIANTS   ContentAccounted RestoredIsBoundHere
PROPERTY NothingPassedOver
SYMMETRY WorkerTurns
CHECK_DEADLOCK FALSE
