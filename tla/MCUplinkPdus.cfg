CONSTANTS
  num_ues = 2
  RACH = RACH
  CRC = CRC
  RX = RX
  CQI = CQI
  HARQ = HARQ
  SR = SR
  UNKNOWN = UNKNOWN
  NONE = NONE
  Ids <- LteIds
  RachShift = 5
  Loads <- LargeLoads
  MAX_QUEUE_SIZE = 2
  MAX_SUBFRAME_MSGS = 2
  MAX_PDU = 3
  STALE = 1
  PERIOD = 4
  Unreliable = {}
  MaxMsgs = 1
  MaxTick = 2
SPECIFICATION Spec
CHECK_DEADLOCK FALSE
INVARIANT AnnouncedFitsList
