SPECIFICATION Spec
CONSTANTS
  WinSize = 1
  MaxWin = 2
  RemWindow = 1
  MaxUp = 2
  MaxDown = 2
  MaxUnits = 4
  MaxEarly = 0
  PipeSize = 1
  MaxChunk = 1
  Excess = 0
  BugSets = {{"BUG_SENDS_LATE_REQUEST_REPLY"}}
  Abrupt = TRUE
  Resets = FALSE
PROPERTIES
  NoMoreIsRead
CHECK_DEADLOCK FALSE
