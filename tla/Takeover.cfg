SPECIFICATION MCSpec
CONSTANTS
  Threads = {t1, t2}
  Queries = {q1}
  Adapters = {a1}
  Calls = {"StartDNS", "EnableTakeover", "DisableTakeover", "RestoreSingle", "EmergencyRestore", "GetStatus"}
  Faults = {"port", "scan", "takeover", "restore"}
  AutoTakeover = TRUE
  None = None
  LinuxAdapters = {a1, a2}
  Stacks = {v4}
  Statics = {s1, pub}
  DHCP = DHCP
  Loop = Loop
  Backends = {"resolved", "nm", "resolvconf"}
  Public = pub
  LinuxFaults = {"save", "rename", "load", "clear", "apply", "restore", "script", "read", "backup", "crash"}
  MaxFaults = 2
  MaxCalls = 2
CHECK_DEADLOCK FALSE
INVARIANTS
  LinuxWayBack
PROPERTIES
  EveryoneReturns
  LinuxCrashIsHealed
