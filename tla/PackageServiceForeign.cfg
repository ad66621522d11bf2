SPECIFICATION Spec
CONSTANTS
  app = app  lib = lib  base = base  virt = virt  tool = tool  glue = glue
  app1 = app1  app2 = app2  app2b = app2b  lib1 = lib1  base1 = base1
  virt1 = virt1  tool1 = tool1  glue1 = glue1
  bApp1 = bApp1  bApp2 = bApp2  bLib1 = bLib1  bBase1 = bBase1
  bVirt1 = bVirt1  bTool1 = bTool1  bGlue1 = bGlue1
  none = none
  Package <- SmallPackage
  Receipt <- SmallReceipt
  Artifact <- MCArtifact
  Absent = none
  PackageOf <- SmallPackageOf
  Identity <- SmallIdentity
  Sequence <- SmallSequence
  Requires <- SmallRequires
  Conflicts <- SmallConflicts
  MaxFaults = 2
  MaxForeign = 2
  UnreadableReceipts = TRUE
INVARIANTS
  InstalledConsistent
