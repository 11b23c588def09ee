SPECIFICATION Spec
CONSTANTS
  InCapacity = 3
  HighWater = 2
  LowWater = 1
  OutCapacity = 2
  MaxData = 4
  MaxSend = 1
  MaxQueue = 6
INVARIANTS
  UpperJobsHoldSelf
CHECK_DEADLOCK FALSE
