SPECIFICATION VideoSpec
CONSTANTS
  LastSlot = 1
  MaxCaptures = 4
  MaxGeneration = 4
  Set = {t1, t2, t3}
  NoSet = NoSet
  MaxFrame = 3
  MaxStreams = 2
  Count = 2
  Wait = 1
  Hold = 1
  RequestQuiet = 2
INVARIANTS
  SlotInv
  FilledAsAnnounced
  DecoderInv
PROPERTIES
  InCaptureOrder
  ReferencesIntact
  NeverBackwards
  FilledComesBack
  LossReported
  StaleAssemblyEnds
CHECK_DEADLOCK FALSE
