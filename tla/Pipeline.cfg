SPECIFICATION FairSpec
CONSTANTS
  Clients = {c1, c2, p}
  Denied = {c2, p}
  Proxies = {p}
  ProxyHeaders = {"", "X-Forwarded-For", "CF-Connecting-IP"}
  Groups = {"g0", "g1"}
  Default = "g0"
  FilteredGroups = {"g1"}
  RoutedGroups = {"g1"}
  Names <- MCNames
  NameIs <- MCNameIs
  Questions <- MCQuestions
  Switches = {"rebind", "filterResponse"}
  Movers = {c1}
  FirstConfigs <- MCFirstConfigs
  FirstGroups <- MCFirstGroups
  FirstCached <- MCFirstCached
  EcsMode = "custom"
  WellKnownPrefix = TRUE
  MaxQueries = 2
  MaxChanges = 1
  MaxExpiries = 1
CHECK_DEADLOCK FALSE
INVARIANTS
  PolicyHolds
  NoPrivateAddress
  NoLeak
PROPERTIES
  EveryQueryAnswered
