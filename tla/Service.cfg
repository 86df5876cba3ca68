SPECIFICATION MCSpec
CONSTANTS
  Threads = {t1, t2}
  Queries = {q1}
  Adapters = {a1}
  Calls = {"StartDNS", "StopDNS", "EnableTakeover", "DisableTakeover", "TakeoverSingle", "RestoreSingle", "EmergencyRestore", "GetStatus", "ConfigureLAN", "Stop"}
  Faults = {"port", "scan", "takeover", "restore"}
  AutoTakeover = TRUE
  None = None
  Clients = {"c1", "c2", "c3"}
  MaxFailed = 2
  MaxTracked = 1
  MaxPasswords = 2
  MaxSessions = 1
  Tasks = {"t1", "t2"}
  Addresses <- MCAddresses
  MaxBindFaults = 1
  Ips = {"i1", "i2"}
  Namings = {"q1"}
  Slots = {"s1", "s2"}
  MaxClientStats = 1
  MaxClientCache = 1
  BootServers = {"b1", "b2"}
  BootConfigs <- MCBootConfigs
  Dials = {"d1", "d2"}
  CooldownFailures = 2
  MaxBootEdits = 1
  Prefixes = {"x1", "x2"}
  Askers = {"k1", "k2"}
  LimitConfigs <- MCLimitConfigs
  MaxBuckets = 1
  MaxTime = 3
  IdleAfter = 1
  MaxGrants = 4
  Absent = Absent
CHECK_DEADLOCK FALSE
SYMMETRY Symmetry
INVARIANTS
  LocksMatchSteps
  NeverCutOff
  ListenerFollowsConfig
  DefencesHold
  NamesHold
PROPERTIES
  ServesWhatIsSaved
