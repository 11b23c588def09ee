SPECIFICATION FairSpec
CONSTANTS
  WinSize = 1
  MaxWin = 1
  RemWindow = 1
  MaxUp = 1
  MaxDown = 2
  MaxUnits = 3
  MaxEarly = 0
  PipeSize = 1
  MaxChunk = 1
  Excess = 0
  BugSets = {{"BUG_SENDS_LATE_REQUEST_REPLY"}}
  Abrupt = TRUE
  Resets = TRUE
PROPERTIES
  EndsArrive
  BytesMove
CHECK_DEADLOCK FALSE
