SPECIFICATION QSpec
CONSTANTS
  Atom = {"a", "b"}
  Inputs <- MCInputs
INVARIANTS
  QTypeOK
  RoundTrip
  DataAccepted
  OnlyData
  NoReadAhead
  ShownReadsSame
PROPERTIES
  Terminates
CHECK_DEADLOCK FALSE
