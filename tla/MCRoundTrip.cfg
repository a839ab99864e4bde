SPECIFICATION Spec
CONSTANTS
  Ids <- AllIds
  Kind <- AllKinds
  Ref <- AllRefs
  Scenarios <- AllScenarios
  Capacity = 16
CHECK_DEADLOCK FALSE
INVARIANTS
  RoundTrip
