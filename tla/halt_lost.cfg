SPECIFICATION Spec
CONSTANTS
  Containers = {c1, c2}
  Nothing = Nothing
  Requests <- AllRequests
  Ceiling = 2
  MaxSingle = 2
  Keep = 1
  Worlds <- Resumed
SYMMETRY Interchangeable
CHECK_DEADLOCK FALSE
PROPERTY HaltContractHolds
