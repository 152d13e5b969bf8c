\* By hand, with -continue to see each property violated: see README.md.
SPECIFICATION Spec
CONSTANTS
  c1 = c1
  c2 = c2
  c3 = c3
  c4 = c4
  NoData = NoData
  NoSession = NoSession
  Calls <- TwoCalls
  N = 3
  Repairs <- SomeRepaired
  MaxFaults = 0
INVARIANTS
  SessionsAreCreated
  AcceptedStepsSurvive
CHECK_DEADLOCK FALSE
