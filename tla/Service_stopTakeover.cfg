SPECIFICATION FairSpec
CONSTANTS
  Threads = {t1, t2}
  Queries = {}
  Adapters = {a1}
  Calls = {"EnableTakeover", "StopDNS"}
  Faults = {}
  AutoTakeover = FALSE
  None = None
CHECK_DEADLOCK FALSE
PROPERTIES
  StopReturns
