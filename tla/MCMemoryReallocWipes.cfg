SPECIFICATION Spec
CHECK_DEADLOCK FALSE
CONSTANTS
  HeapSize = 4
  MaxRequest = 3
PROPERTIES
  ReallocWipes
