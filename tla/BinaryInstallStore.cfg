SPECIFICATION Spec

CONSTANTS
  none = none
  Absent = none
  Package <- MCPackage
  Release <- MCRelease
  Path <- MCPath
  Content <- MCContent
  Edited <- MCEdited
  PackageOf <- MCPackageOf
  Payload <- MCPayload
  MaxFaults = 2
  MaxKills = 1
  MaxEdits = 1
  EditsAnytime = FALSE

INVARIANTS
  ReceiptsDescribeTarget
  ExclusivePaths
  KeptInv
PROPERTIES
  UserFilesKept
  AtomicOnTarget

CHECK_DEADLOCK FALSE
