SPECIFICATION FairSpec
CONSTANTS
  MaxSession = 2
  MaxFile = 3
  PageSize = 1
  MaxTries = 2
  MaxTrouble = 1
  MaxApply = 1
INVARIANTS
  TypeOK
  WaitIsAnswered
  MapIsDrive
  ChangesAreDone
PROPERTIES
  Rests
CHECK_DEADLOCK FALSE
