CONSTANTS
  Nil = Nil
  Ids <- GraphIds
  Kind <- GraphKind
  Ref <- Graph
  Documents <- HollowExports
  Ranks <- FewRanks
  Asserts = FALSE
SPECIFICATION Spec
CHECK_DEADLOCK FALSE
INVARIANTS
  OkMeansComplete
PROPERTIES
  ImplementsImport
