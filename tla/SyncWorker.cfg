SPECIFICATION FairSpec
CONSTANTS
  r1 = r1
  r2 = r2
  x1 = x1
  x2 = x2
  Runs <- TwoRuns
  Records <- TwoRecords
  Repairs <- AsItIsAndAsMeant
  MaxRetries = 2
  MaxTime = 2
  MaxFaults = 2
INVARIANTS
  TypeOK
  SkipsOnlyMovingTargets
  CountedOnce
  TablesAgree
CHECK_DEADLOCK FALSE
PROPERTIES
  EveryRunEnds
  ImplementsLedger
