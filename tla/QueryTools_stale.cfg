\* The schema of the migrations; nothing fails.
\* By hand, with -continue to see each property violated: see README.md.
SPECIFICATION Spec
CONSTANTS
  Tenants = {t}
  Calls = {c}
  Syncs = {s}
  Repairs = {{}}
  MaxWrites = 1
  MaxFaults = 0
INVARIANTS
  EveryInputIsFresh
  LateAnswersAreFresh
CHECK_DEADLOCK FALSE
