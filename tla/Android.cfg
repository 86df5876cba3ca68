SPECIFICATION MCSpec
CONSTANTS
  c1 = c1
  c2 = c2
  s1 = s1
  s2 = s2
  f1 = f1
  f2 = f2
  h1 = h1
  h2 = h2
  h3 = h3
  q1 = q1
  q2 = q2
  w1 = w1
  Calls = {c1, c2}
  Stops = {s1, s2}
  StartOrder <- MCStartOrder
  LogDepth = 3
  HighWater = 2
  BatchSize = 2
  MaxLogs = 5
  MaxStarts = 2
  TunDepth = 2
  Attempts = 2
  Handles = {h1, h2, h3}
  Evaluations = {q1, q2}
  Provs <- MCProvs
  Lookups = {q1}
  MaxSnaps = 2
  MaxIdle = 1
  Protos <- MCProtos
  Names = {"cl"}
  Target <- MCTarget
  Uids = {"u1", "netd"}
  Queries = {q1, q2}
  Workers = {w1}
  RuleSets = {{}, {"ad"}, {"cl"}}
  Allowlists <- MCAllowlists
  MaxEdits = 1
  Flows = {f1, f2}
  KindsOf <- MCKindsOf
  Threshold = 2
  MaxSwitches = 1
  MaxMint = 2
  None = None
INVARIANTS
  
  NoUseAfterClose
  FilteringHolds
  
PROPERTIES
  AndroidProgress
CHECK_DEADLOCK FALSE
