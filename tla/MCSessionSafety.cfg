SPECIFICATION Safety
CONSTANTS
  Device = {ipad1, ipad2}
  NoDevice = NoDevice
  Fps = {60}
  MaxSessions = 2
  QueueCap = 2
  EventCap = 1
  Grace = 1
  Startup = 1
SYMMETRY Symmetry
PROPERTIES
  ImplementsLease
INVARIANTS
  MonitorOwned
  StreamInv
  ConnectFindsNoStream
  FrameOfCurrentStream
