\* Three requests on one stack, in any order and interleaving or one after the other.
SPECIFICATION EitherSpec
CONSTANTS
  o1 = o1
  o2 = o2
  o3 = o3
  o4 = o4
  c1 = c1
  plain = plain
  strict = strict
  broken = broken
  Stacks = {s1}
  Ops = {o1, o2, o3}
  Manifests = {plain, strict}
  Broken = {}
  UsesConfig = {plain}
  BackupFirst = {strict}
  StrictBackup = {strict}
  Contents = {c1, c2}
  MaxClock = 3
  NULL = NULL
  Mixed = Mixed
SYMMETRY OpSymmetry
INVARIANTS CurrentIsRecorded StrictBackupFirst SwarmIsExplained StoreIsRight
PROPERTIES LogSpec SuccessIsLive
CHECK_DEADLOCK FALSE
