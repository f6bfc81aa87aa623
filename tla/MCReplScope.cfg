SPECIFICATION Spec
CONSTANTS
  Name = {1}
  Interactive = TRUE
  MaxFun = 3
  MaxFormals = 1
  MaxDepth = 3
  MaxStores = 1
  Builtin = {}
INVARIANTS
  LexicalScope
CHECK_DEADLOCK FALSE
