SPECIFICATION FairSpec
CONSTANTS
  MaxQueries = 2
  MaxActive = 1
  Names <- MCNames
  Proto <- MCProto
  Latency <- MCLatency
  Weight <- MCWeight
  Configs <- MCConfigs
  GroupConfigs <- MCGroups
  Groups = {"kids"}
  Domains <- MCDomains
  MaxConfigures = 1
  MaxIdle = 1
CHECK_DEADLOCK FALSE
INVARIANTS
  PathsHold
  FailuresAreFair
PROPERTIES
  EveryQueryEnds
