\* By hand: see README.md.
SPECIFICATION Spec
CONSTANTS
  r1 = r1
  r2 = r2
  x1 = x1
  x2 = x2
  Runs <- OneRun
  Records <- TwoRecords
  Repairs <- AsItIs
  MaxRetries = 0
  MaxTime = 1
  MaxFaults = 0
INVARIANTS
  CursorFollows
CHECK_DEADLOCK FALSE
