SPECIFICATION Spec
CONSTANTS
  MaxNodes = 7
  MaxFuns = 4
  MaxForms = 2
INVARIANTS
  TypeOK
  Verified
  CodeCorrect
PROPERTIES
  CompletedStay
CHECK_DEADLOCK FALSE
