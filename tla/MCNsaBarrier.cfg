CONSTANTS
  LTE = LTE
  NR = NR
  PERIOD = 4
SPECIFICATION FairSpec
INVARIANT TypeOK
INVARIANT NoLostWakeup
INVARIANT BitsBelongToWaiter
INVARIANT DriftIsLaps
PROPERTY KeepMeeting
