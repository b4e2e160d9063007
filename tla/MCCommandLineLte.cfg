CONSTANTS
  Numbers = {0, 1, 2, 3}
  MaxArgs = 7
SPECIFICATION Spec
CHECK_DEADLOCK FALSE
INVARIANT OneStationAddresses
