SPECIFICATION Spec
CONSTANTS
  c1 = c1
  c2 = c2
  c3 = c3
  c4 = c4
  NoData = NoData
  NoSession = NoSession
  Calls <- FourCalls
  N = 3
  Repairs <- AsItIsAndAsMeant
  MaxFaults = 1
SYMMETRY Interchangeable
INVARIANTS
  TypeOK
  ValidationIsLast
  StepsAgree
  AcceptedStepsStay
  StoresAgree
  LiveShopHasRules
CHECK_DEADLOCK FALSE
