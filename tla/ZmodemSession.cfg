SPECIFICATION Spec
CONSTANTS
  FileSize = 3
  BlockSize = 2
  MaxRuns = 1
  MaxRetries = 1
  MaxResends = 1
  MaxBusy = 1
  MaxNoise = 1
  Calm = FALSE
  MayCancel = TRUE
INVARIANTS
  TypeOK
  UploadInOrder
  NoTaskAfterDelete
PROPERTIES
  DownloadWhole
CHECK_DEADLOCK FALSE
