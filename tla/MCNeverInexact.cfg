SPECIFICATION Spec
CONSTANTS
  H = 4
  NotNumber = NotNumber
  ArgLists <- RealPairs
INVARIANTS
  NeverInexact
CHECK_DEADLOCK FALSE
