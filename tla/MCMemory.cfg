SPECIFICATION Spec
CHECK_DEADLOCK FALSE
CONSTANTS
  HeapSize = 4
  MaxRequest = 2
INVARIANTS
  TypeOK
  NoStaleEntry
  Exact
  NoResidue
PROPERTIES
  FreeIsLocal
