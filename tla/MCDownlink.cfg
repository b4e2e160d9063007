CONSTANTS
  num_ues = 2
  Kinds = {"buffered", "direct"}
  MaxRequests = 2
  MaxTicks = 1
  NONE = NONE
SPECIFICATION Spec
CHECK_DEADLOCK FALSE
INVARIANTS
  RightAddress
  SameOrder
  BufferExclusive
PROPERTY NobodyStuck
