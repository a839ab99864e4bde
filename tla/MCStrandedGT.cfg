CONSTANTS
  Nil = Nil
  Ids <- GraphIds
  Kind <- GraphKind
  Ref <- Graph
  Documents <- DamagedExports
  Ranks <- FewRanks
  Asserts = TRUE
SPECIFICATION Spec
CHECK_DEADLOCK FALSE
INVARIANTS
  GTReady
