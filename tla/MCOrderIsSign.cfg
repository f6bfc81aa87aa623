SPECIFICATION Spec
CONSTANTS
  H = 4
  NotNumber = NotNumber
  ArgLists <- RealPairs
INVARIANTS
  OrderIsSign
CHECK_DEADLOCK FALSE
