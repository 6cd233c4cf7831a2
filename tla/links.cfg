SPECIFICATION Spec
CONSTANTS
  Transitions = {"t1"}
  Parcels = {"d1", "d2"}
  Foreign = {"d2"}
  CloseOvertakes = FALSE
  MaxConns = 2
  MaxStreamFaults = 1
  FileContents = {"a", "b"}
  FilesReturn = FALSE
INVARIANT StreamIsWhole
PROPERTIES ConfigurationKept 
CHECK_DEADLOCK FALSE
