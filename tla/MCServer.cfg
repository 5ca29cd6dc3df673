SPECIFICATION Spec
CONSTANTS
  MaxPageSize = 1
  DefaultPageSize = 1
  AskedSize = 2
  IntMax = 31
  Int32Max = 7
  MaxRows = 3
  MaxConns = 1
  Grace = 1
  MaxRequests = 2
  MaxFaults = 1
CHECK_DEADLOCK FALSE
INVARIANTS GracefulStop WalkComplete
PROPERTY ExitComes
