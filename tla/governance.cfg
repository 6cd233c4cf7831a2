SPECIFICATION Spec
CONSTANTS
  Kinds = {"actor", "command", "profile", "scope"}
  MaxRevs = 2
  MaxMoves = 2
  Clients = {"c1", "c2"}
  Bodies = {"a", "b"}
  Executions = {"x"}
  ActorIds = {"a", "b"}
  SpareAddresses = {"e"}
  Ctxs = {"c", "d"}
  Roles = {"p", "r"}
INVARIANTS HistoryStands   GatePublishesOnce
PROPERTY ActsOnWhatStands
CHECK_DEADLOCK FALSE
