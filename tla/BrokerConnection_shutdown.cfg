SPECIFICATION Spec
CONSTANTS
  MaxAttempts = 0
  MaxFaults = 1
  MaxConns = 4
INVARIANTS
  ShutdownDisconnects
CHECK_DEADLOCK FALSE
