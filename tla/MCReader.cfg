SPECIFICATION Spec
CONSTANTS
  H = 16
  FitDigits = 1
  Inputs <- MCInputs
  Radices <- MCRadices
INVARIANTS
  TypeOK
  ReadsNoFurther
  NumeralRead
  OnlyNumerals
  PrintedReadsBack
  PredicatesRight
PROPERTIES
  ImplementsScanner
CHECK_DEADLOCK FALSE
