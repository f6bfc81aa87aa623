SPECIFICATION Spec
CONSTANTS
  H = 4
  NotNumber = NotNumber
  ArgLists <- AllLists
INVARIANTS
  TypeOK
  Exact
  CanonicalResult
  ZeroDivisorTraps
  OrderCorrect
CHECK_DEADLOCK FALSE
