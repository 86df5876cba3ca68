SPECIFICATION FairSpec
CONSTANTS
  Callers = {u1, u2}
  Conns = {c1}
  Configs <- MCConfigs
  Busy <- MCBusy
  Addresses = {"a4", "a6"}
  V6 = {"a6"}
  Entries <- Protos
  MaxStarts = 2
  MaxCalls = 3
  MaxQueries = 1
CHECK_DEADLOCK FALSE
INVARIANTS
  ListenersAccounted
  ClosedListenerKeepsNoConn
PROPERTIES
  CallsReturn
