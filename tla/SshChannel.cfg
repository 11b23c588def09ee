SPECIFICATION Spec
CONSTANTS
  WinSize = 1
  MaxWin = 2
  RemWindow = 1
  MaxUp = 3
  MaxDown = 4
  MaxUnits = 3
  MaxEarly = 1
  PipeSize = 1
  MaxChunk = 2
  Excess = 1
  BugSets = {{}, {"BUG_SSH2_MAXPKT", "BUG_CHOKES_ON_WINADJ"}}
  Abrupt = TRUE
  Resets = TRUE
INVARIANTS
  TypeOK
  NoFault
  BooksAgree
  ServerSatisfied
  HeldForAReason
  BacklogBounded
PROPERTIES
  UpStream
  DownStream
CHECK_DEADLOCK FALSE
