SPECIFICATION Spec
CONSTANTS
  Name = {1, 2}
  Builtin = {1}
  Interactive = TRUE
  MaxFun = 4
  MaxFormals = 1
  MaxDepth = 3
  MaxStores = 1
INVARIANTS
  BuiltinReady
  LexicalScopeUnlessLeft
PROPERTIES
  DefinitionStays
CHECK_DEADLOCK FALSE
