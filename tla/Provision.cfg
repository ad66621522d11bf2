SPECIFICATION Spec
CONSTANTS
  None = None
  Malformed = Malformed
  InstallTree = InstallTree
  KernelImage = KernelImage
  KernelRepo = KernelRepo
  PushRepo = PushRepo
  Escaping = Escaping
  Torn = Torn
  Other = Other
  Arch = "x86"
  AllowNetwork = TRUE
  MaxCalls = 2
  MaxKills = 1
  MaxFaults = 1
  Supports <- MCSupports
  Cpu <- MCCpu
  Host <- MCHost
  Recipe <- MCRecipe
  Repository <- MCRepository
  Submission <- MCSubmission
  Admitted <- MCAdmitted
  Overlap <- MCOverlap
INVARIANTS
  BuiltFromLock
  OnlyAuthorised
  RecordsBacked
PROPERTIES
  RefusalUndone
CHECK_DEADLOCK FALSE
