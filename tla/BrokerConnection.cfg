SPECIFICATION FairSpec
CONSTANTS
  MaxAttempts = 2
  MaxFaults = 3
  MaxConns = 5
INVARIANTS
  TypeOK
  OutageIsNoticed
  DeadChannelIsDropped
  CleanShutdown
PROPERTIES
  ReconnectsUnlessDeaf
CHECK_DEADLOCK FALSE
