SPECIFICATION FairSpec
CONSTANTS
  WinSize = 1
  MaxWin = 1
  RemWindow = 1
  MaxUp = 0
  MaxDown = 3
  MaxUnits = 3
  MaxEarly = 0
  PipeSize = 1
  MaxChunk = 1
  Excess = 1
  BugSets = {{}}
  Abrupt = FALSE
  Resets = TRUE
PROPERTIES
  FreezeIsLifted
CHECK_DEADLOCK FALSE
