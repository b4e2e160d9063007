CONSTANTS
  num_ues = 2
  RACH = RACH
  CRC = CRC
  RX = RX
  CQI = CQI
  HARQ = HARQ
  SR = SR
  UNKNOWN = UNKNOWN
  NONE = NONE
  UCI = UCI
  SRS = SRS
  Ids <- NrIds
  RachShift = 0
  Loads <- SlotLoads
  MAX_QUEUE_SIZE = 1
  MAX_SUBFRAME_MSGS = 1
  MAX_PDU = 2
  STALE = 1
  PERIOD = 4
  Unreliable = {1}
  MaxMsgs = 2
  MaxTick = 6
SPECIFICATION FairSlotSpec
CHECK_DEADLOCK FALSE
INVARIANT AbortsOnlyOnEmptyOrUntyped
PROPERTY EveryMessageHandled
