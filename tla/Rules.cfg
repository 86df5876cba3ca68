SPECIFICATION FairSpec
CONSTANTS
  Lists = {"l1", "l2"}
  Urls = {"u1", "u2"}
  Dated = {"u2"}
  Content <- MCContent
  Default <- MCDefault
  Asked <- MCAsked
  GroupConfigs <- MCGroups
  Names = {"x", "y"}
  Custom <- MCCustom
  Service <- MCService
  Chosen = {"l1"}
  Windows <- MCWindows
  MaxVersion = 2
  MaxTime = 1
  MaxOps = 2
  MaxFaults = 1
CHECK_DEADLOCK FALSE
INVARIANTS
  EngineInStep
  BlocksOnlyLive
PROPERTIES
  FilterGoesOn
