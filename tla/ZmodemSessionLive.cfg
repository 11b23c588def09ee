SPECIFICATION FairSpec
CONSTANTS
  FileSize = 3
  BlockSize = 2
  MaxRuns = 2
  MaxRetries = 1
  MaxResends = 0
  MaxBusy = 1
  MaxNoise = 0
  Calm = TRUE
  MayCancel = FALSE
INVARIANTS
  NoCrash
PROPERTIES
  TransferCompletes
CHECK_DEADLOCK FALSE
