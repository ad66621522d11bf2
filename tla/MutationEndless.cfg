SPECIFICATION OnlyEngine
CONSTANTS
  Node <- MCNode
  Authentic <- MCAuthentic
  Honest = {1, 2}
  Silent = {4}
  MaxPeers = 2
  LastIndex = 1
  FragmentBytes = 4
  FinalBytes = 3
  MaxDepth = 2
  MinTrust = 0
  MaxTrust = 1
  Lies <- MCLies
  Unset = Unset
  RingCapacity = 2
  Name = {"corinth", "net", "arach"}
  Hash <- MCHash
  Inode = {0, 7}
  NoneOpen = NoneOpen
  MaxIntegrations = 2
  Manifest <- MCManifest
  MaxDependencies = 2
  MaxFoci = 2
  EmptyName = "empty"
  LongName = "long"
  Version = 1
  Temperature = {85, 95}
  ThermalLimit = 90
  NoGene = NoGene
  Program <- MCProgram
  Table <- MCTable
  Bodies <- MCBodies
  MaxIr = 14
  MaxUnroll = 3
  MaxBody = 4
  Request <- MCRequest
  SafePath = {"in", "out", "log", "tool"}
  Path = {"in", "out", "log", "tool", "outside"}
  File <- MCFile
  NoFile = NoFile
  Denied = Denied
  NotRun = NotRun
  Said = {"a", "b"}
  MinRuns = 2
  MaxRuns = 4
  MaxFileSize = 2
  MaxListed = 3
  MaxWrites = 2
PROPERTIES
  EveryMutationEnds
CHECK_DEADLOCK FALSE
