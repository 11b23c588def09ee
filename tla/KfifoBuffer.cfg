SPECIFICATION Spec
CONSTANTS
  sizeM = 4
  Modulus = 8
  Lengths <- MCLengths
  MaxStream = 18
INVARIANTS
  OccupancyExact
  CopiedInOrder
PROPERTIES
  NeverOverwritesUnread
  ImplementsFifo
