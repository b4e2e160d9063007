CONSTANTS
  num_ues = 2
  RACH = RACH
  CRC = CRC
  RX = RX
  CQI = CQI
  HARQ = HARQ
  SR = SR
  UNKNOWN = UNKNOWN
  NONE = NONE
  Ids <- LteIds
  RachShift = 5
  Loads <- AllLoads
  MAX_QUEUE_SIZE = 2
  MAX_SUBFRAME_MSGS = 2
  MAX_PDU = 3
  STALE = 1
  PERIOD = 3
  Unreliable = {}
  MaxMsgs = 3
  MaxTick = 4
SPECIFICATION Spec
CHECK_DEADLOCK FALSE
INVARIANT TypeOK
INVARIANT OneOwner
INVARIANT OneLabelPerSubframe
INVARIANT NoOvertaking
INVARIANT NoSleepOnBacklog
PROPERTY OnlyOldIsStale
PROPERTY CutOnlyWhenFull
