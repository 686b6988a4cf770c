SPECIFICATION Safety
CONSTANTS
  MaxLinks = 1
  MaxIdentity = 1
  MaxWire = 2
INVARIANT
  CancelledStaysOver
CHECK_DEADLOCK FALSE
