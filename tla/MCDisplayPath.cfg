SPECIFICATION PathSpec
CONSTANTS
  Monitors = 2
  Workers = 3
  Debounce = 1
  Stabilize = 2
  Probe = 3
  Sizes = {1, 2}
  Positions = {"left", "below"}
  Disturbances = 1
  Encoders = 2
  Losses = 1
  KeyQuiet = 1
  Inside = 1
INVARIANTS
  DriverInv
  TopologyInv
  SenderInv
PROPERTIES
  NobodyStuck
  DesktopSettles
  Recovers
CHECK_DEADLOCK FALSE
