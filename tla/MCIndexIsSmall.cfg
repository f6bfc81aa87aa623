SPECIFICATION StrSpec
CONSTANTS
  Programs <- MCBigPrograms
  MaxArgs = 2
  IntMax = 10
  PointerBits <- MCPointerBits
  Data <- MCData
  Granule = 2
  Extra = 1
INVARIANTS
  IndexIsSmall
