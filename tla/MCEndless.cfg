CONSTANTS
  Nil = Nil
  Ids <- GraphIds
  Kind <- GraphKind
  Ref <- Graph
  Documents <- BaselessGT
  Ranks <- FewRanks
  Asserts = FALSE
SPECIFICATION FairSpec
CHECK_DEADLOCK FALSE
PROPERTIES
  Returns
