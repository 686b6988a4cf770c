SPECIFICATION SurfacesSafety
CONSTANTS
  LastSlot = 1
  MaxCaptures = 5
  MaxGeneration = 4
  Set = {t1, t2, t3}
  NoSet = NoSet
INVARIANT
  SampleWithOwnMetadata
CHECK_DEADLOCK FALSE
