SPECIFICATION FairSpec
CONSTANTS
  MaxAttempts = 2
  MaxFaults = 1
  MaxConns = 4
PROPERTIES
  Reconnects
CHECK_DEADLOCK FALSE
