SPECIFICATION MCSpec
CONSTANTS
  MaxRecords = 3
  FileRecords = 2
  MaxHour = 3
  MaxWriters = 2
  DayHours = 1
  Window = 1
  QueueSize = 1
  FlushLines = 2
  Blocked = {2}
  LogConfigs <- MCConfigs
  Admins = {a1, a2}
  NoCall = NoCall
  Pages = {c1, c2}
  SendCap = 1
  EventCap = 1
  MaxEvents = 3
  Addresses <- MCAddresses

  
PROPERTIES
  ConsoleProgress
CHECK_DEADLOCK FALSE
