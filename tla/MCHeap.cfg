SPECIFICATION StrSpec
CONSTANTS
  Programs <- MCPrograms
  MaxArgs = 2
  IntMax = 9
  PointerBits <- MCPointerBits
  Data <- MCData
  Granule = 2
  Extra = 1
INVARIANTS
  StrTypeOK
  Closed
  LengthCorrect
  ListRefCorrect
  RefsPairs
  SlotsInOrder
  StringsRight
PROPERTIES
  WalkEnds
