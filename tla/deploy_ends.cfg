\* Two interleaved requests under fairness; one manifest is broken, the other has a strict backup.
SPECIFICATION FairSpec
CONSTANTS
  Stacks = {s1}
  Ops = {o1, o2}
  Manifests = {plain, broken}
  Broken = {broken}
  UsesConfig = {}
  BackupFirst = {plain}
  StrictBackup = {plain}
  Contents = {c1}
  MaxClock = 2
  NULL = NULL
  Mixed = Mixed
PROPERTY EveryRequestEnds
CHECK_DEADLOCK FALSE
