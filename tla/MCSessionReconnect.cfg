SPECIFICATION HistorySpec
CONSTANTS
  Device = {ipad1}
  NoDevice = NoDevice
  Fps = {60}
  MaxSessions = 2
  QueueCap = 2
  EventCap = 2
  Grace = 1
  Startup = 1
PROPERTY
  ReconnectRetainsDisplay
