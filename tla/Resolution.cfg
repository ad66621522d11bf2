SPECIFICATION FairSpec
CONSTANTS
  None = None
  Key = Key
  BuildRoot = "zroot"
  Now = 1
  MaxGraph = 8
  MaxRelations = 3
  MaxOptions = 4
  MaxProviders = 2
  MaxPackages = 8
  MaxClauses = 24
  MaxClauseLen = 5
  MaxTrail = 16
  MaxCalls = 3
  MaxOps = 4
  Offline = FALSE
  Rank <- MCRank
  Supports <- MCSupports
  HostCpu <- MCCpu
  Config <- MCConfig
  Selector <- MCSelector
  Package <- MCPackage
  Served = {"i1", "i2"}
  Ops <- MCOps
INVARIANTS
  PlanSound
  PlanLeast
  RefusalJustified
PROPERTIES
  CallsAtomic
  Resolves
CHECK_DEADLOCK FALSE
