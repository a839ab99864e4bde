SPECIFICATION Spec
CONSTANTS
  p1 = p1
  p2 = p2
  d1 = d1
  d2 = d2
  None = None
  Pairings = {p1, p2}
  Blocks = {d1, d2}
  Documents <- AllDocuments
  MaxEpoch = 2
  MaxImports = 1
CHECK_DEADLOCK FALSE
INVARIANTS
  TypeOK
  ClearedOnce
  ParamsUsable
  LinksFollow
PROPERTIES
  DanglesByOrphans
