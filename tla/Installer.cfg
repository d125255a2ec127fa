CONSTANTS
  bin = bin
  skill = skill
  desc = desc
  Procs = {p1, p2}
  NoProc = NoProc
  Files = {bin, skill, desc}
  Bin = bin
  Desc = desc
  Versions = {1, 2}
  Ships <- MCShips
  Absent = Absent
  User = User
  DescContent = "python"
  LegacyRecords <- MCLegacyRecords
  InitialStates <- MCInitialStates
  Template <- MCTemplate
  UserHooks <- MCUserHooks
  UserAllows <- MCUserAllows
  MaxOps = 2
  MaxUser = 1
  MaxCrashes = 1
SPECIFICATION Spec
INVARIANTS TypeOK UserPermissionsKept RerunOfUpgradeAccepted
PROPERTIES SuccessMatchesDisk UserFilesKept
SYMMETRY Symmetric
CHECK_DEADLOCK FALSE
