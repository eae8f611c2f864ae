\* Installation of resource packages.
CONSTANTS
  Public = "public"
  Groups <- MCGroups
  Apps <- MCApps
  ResourceList <- MCResourceList
  Slots <- MCSlots
  OtherOwners = {"user5"}
  NameSize <- MCNameSize
  Versions = {1, 2}
  Scenarios <- MCScenarios
SPECIFICATION Spec
CHECK_DEADLOCK FALSE
INVARIANTS
  TypeOK
  NothingLeftBehind
  UserDataKept
  InstalledAsToldTo
  MembersLinked
  OthersUntouched
