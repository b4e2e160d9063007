CONSTANTS
  Items = {a, b, c}
  NULL = NULL
  MAX_QUEUE_SIZE = 4
SPECIFICATION Spec
INVARIANT TypeOK
INVARIANT RingInv
INVARIANT AssertsHold
PROPERTY ImplementsDeque
