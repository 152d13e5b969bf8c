\* Cron expressions against the interval of at most 24 hours, accuracies against
\* 85 percent; 1013 decisions are the least that can be rounded up to it.
\* By hand, with -continue to see each property violated: see README.md.
SPECIFICATION Spec
CONSTANT Decided = {100, 1000, 1013}
INVARIANTS
  AcceptedNeverRestADay
  LowAccuracyIsTold
CHECK_DEADLOCK FALSE
