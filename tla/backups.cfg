\* Triggered and scheduled backups while two processes list and one restores.
SPECIFICATION Spec
CONSTANTS
  Triggers = {t1}
  Listers = {l1, l2}
  Restorers = {r1}
  Archives = {backup, ctlplane}
  ControlPlane = {ctlplane}
  Retention = 1
  Horizon = 2
  MaxRun = 1
  MaxTime = 2
  MaxFailures = 1
  Printed = Printed
  NULL = NULL
SYMMETRY Symmetry
CONSTRAINT TwoBusy
INVARIANT ArchivesAreAccounted
PROPERTY RecentKept
CHECK_DEADLOCK FALSE
