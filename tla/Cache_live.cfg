SPECIFICATION FairSpec
CONSTANTS
  Queries = {q1, q2}
  Refreshers = {r1}
  Cleaner = cleaner
  Names = {n1, n2}
  Groups = {default}
  Default = default
  Caps = {1}
  Optimistic = TRUE
  StaleFallback = TRUE
  Events = {"save", "load", "restart"}
  Faults = {"upstream"}
  MaxStarts = 3
  None = None
CHECK_DEADLOCK FALSE
PROPERTIES
  QueriesEnd
