SPECIFICATION Spec
CONSTANTS
  Wrap = 14
  Slack = 1
  MaxDelay = 2
  Early = 1
  Lag = 1
  Pingers = {1}
  Sessions = {2}
  MaxChanges = 3
INVARIANTS
  TypeOK
  NothingForgotten
  PingIsSet
  
PROPERTIES
  CallsWhenDue
CHECK_DEADLOCK FALSE
