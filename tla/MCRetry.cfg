CONSTANTS
  Nil = Nil
  Ids <- GraphIds
  Kind <- GraphKind
  Ref <- Graph
  Documents <- DamagedExports
  Ranks <- KnotRanks
  Asserts = TRUE
SPECIFICATION FairSpec
CHECK_DEADLOCK FALSE
INVARIANTS
  NoDanglingLink
  FinalClosed
PROPERTIES
  FinalStable
  OrphansStay
  FreshImportSucceeds
  ImplementsImport
  Returns
