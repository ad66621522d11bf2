SPECIFICATION LibraryFairSpec
CONSTANTS
  Node <- MCNode
  Authentic <- MCAuthentic
  Honest = {1, 2}
  Silent = {4}
  MaxPeers = 2
  LastIndex = 1
  FragmentBytes = 4
  FinalBytes = 3
  MaxDepth = 2
  MinTrust = 0
  MaxTrust = 1
  Lies <- MCLies
  Unset = Unset
  RingCapacity = 2
  Name = {"corinth", "net", "arach"}
  Hash <- MCHash
  Inode = {0, 7}
  NoneOpen = NoneOpen
  MaxIntegrations = 2
  Manifest <- MCManifest
  MaxDependencies = 2
  MaxFoci = 2
  EmptyName = "empty"
  LongName = "long"
  Version = 1
  Temperature = {85, 95}
  ThermalLimit = 90
  NoGene = NoGene
  Program <- MCProgram
  Table <- MCTable
  Bodies <- MCBodies
  MaxIr = 14
  MaxUnroll = 3
  MaxBody = 4
  Request <- MCRequest
  SafePath = {"in", "out", "log", "tool"}
  Path = {"in", "out", "log", "tool", "outside"}
  File <- MCFile
  NoFile = NoFile
  Denied = Denied
  NotRun = NotRun
  Said = {"a", "b"}
  MinRuns = 2
  MaxRuns = 4
  MaxFileSize = 2
  MaxListed = 3
  MaxWrites = 2
  none = none
  None = none
  Image <- MCImage
  Parent <- MCParent
  Number <- MCNumber
  MaxFaults = 3
  MaxLosses = 3
  Mixed = FALSE
  writer = writer
  core = core  net = net  shell = shell
  NoTransaction = NoTransaction
  Client = {writer}
  PackageName = {core, net, shell}
  PackageVersion = {1, 2}
  Builtin <- MCBuiltin
  Digest <- MCDigest
  MaxInstalled = 1
  MaxRollbackDepth = 2
  MaxGeneration = 3
  Graph <- MCGraph
  MaxJobs = 3
  MaxEdges = 2
  Capacity = 2
  MaxWorkers = 2
  Started = 2
  Priority <- MCPriority
  MinPriority = 0
  Reading = {85, 95}
  ThrottleTemp = 85
  CriticalTemp = 95
  MaxReports = 2
  Empty = Empty
INVARIANTS
  ToolsSound
  ActiveLoadable
  StoreInv
  NoLostUpdate
  IntentsFit
  HistoryUsable
  LedgerInv
  HelixInv
PROPERTIES
  MutationSound
  ToolsEnd
  LinearHistory
  AcknowledgedSurvives
  UndoesExactly
  
  SortCorrect
  EveryJobLeaves
CHECK_DEADLOCK FALSE
