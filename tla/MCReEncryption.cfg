SPECIFICATION Spec
CONSTANTS
  Exp <- Z5
  Zero = 0
  One = 1
  Add <- Plus
  Neg <- Minus
  Mult <- Times
  Inv <- Inverse
  alice = alice
  bob = bob
  carol = carol
  context = context
  other = other
  None = None
  People = {alice, bob, carol}
  Params = {context, other}
  Global = context
  Messages = {2}
  MaxTuples = 1
  MaxKeys = 1
SYMMETRY Symmetry
CHECK_DEADLOCK FALSE
INVARIANTS
  TypeOK
  Delivered
  OnlyReceiver
  NoDetour
