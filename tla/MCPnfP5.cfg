SPECIFICATION Spec
CONSTANTS
  Requests = {"PNF_PARAM", "PNF_CONFIG", "PNF_START", "PNF_STOP", "PARAM", "CONFIG", "START", "STOP", "MEASUREMENT", "RSSI", "NMM_STOP"}
  PhyIds = {1, 2}
  PhyLists <- NoneOrOne
  MaxStarts = 4
  MaxLosses = 3
  NONE = NONE
CHECK_DEADLOCK FALSE
INVARIANT ViewsAgree
INVARIANT RunningIsPublished
INVARIANT Answered
PROPERTY RunningNotConfigured
PROPERTY ComesUp
