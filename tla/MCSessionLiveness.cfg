SPECIFICATION LivenessSpec
CONSTANTS
  Device = {ipad1}
  NoDevice = NoDevice
  Fps = {30, 60}
  MaxSessions = 2
  QueueCap = 1
  EventCap = 1
  Grace = 1
  Startup = 1
INVARIANT
  StartupLimited
PROPERTIES
  ReservationEnds
  AbandonedMonitorDeparts
  BrokenSessionEnds
  ExitCompletes
