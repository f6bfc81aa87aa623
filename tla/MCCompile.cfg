SPECIFICATION Spec
CONSTANTS
  Name = {1, 2}
  Interactive = FALSE
  MaxFun = 4
  MaxFormals = 1
  MaxDepth = 4
  MaxStores = 1
  Builtin = {}
INVARIANTS
  TypeOK
  LexicalScope
  Chained
  PlaceholdersDistinct
  NoDanglingPlaceholder
  ScopesMatchFunctions
CHECK_DEADLOCK FALSE
