SPECIFICATION Spec
CONSTANTS
  MaxLinks = 2
  MaxIdentity = 2
  MaxWire = 1
INVARIANTS
  TrustInv
  NeverStranded
  AwakeWhileStreaming
PROPERTIES
  KnownHostConfirms
  AttemptEnds
CHECK_DEADLOCK FALSE
