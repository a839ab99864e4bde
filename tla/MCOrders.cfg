CONSTANTS
  Nil = Nil
  Ids <- PairingIds
  Kind <- PairingKind
  Ref <- PairingGraph
  Documents <- FullExports
  Ranks <- AllRanks
  Asserts = TRUE
SPECIFICATION Spec
CHECK_DEADLOCK FALSE
INVARIANTS
  TypeOK
  GTReady
PROPERTIES
  NoImportFails
  CleanClears
