SPECIFICATION FairSpec
CONSTANTS
  InCapacity = 3
  HighWater = 2
  LowWater = 1
  OutCapacity = 2
  MaxData = 3
  MaxSend = 1
  MaxQueue = 2
INVARIANTS
  TypeOK
  JobsFindConnection
  SingleReader
  NeverStalls
PROPERTIES
  ClosedIsReleased
CHECK_DEADLOCK FALSE
