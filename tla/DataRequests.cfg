\* Backup, recovery, restore to default, deletion, import and export.
CONSTANTS
  MntList <- MCMntList
  SharedFolder = "shared"
  Public = "public"
  GroupList <- MCGroupList
  Folders <- MCFolders
  Keys <- MCKeys
  Versions = {2, 3}
  ErrorCode = 2
  Scenarios <- MCScenarios
  Volatile <- MCVolatile
SPECIFICATION Spec
CHECK_DEADLOCK FALSE
INVARIANTS
  TypeOK
  OnlySelected
  RctProtects
  RecoveryRestores
  BackupFaithful
  RoundTrip
  HiddenOnlyByVolume
  ResetComplete
  DeleteComplete
