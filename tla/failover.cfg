SPECIFICATION FailSpec
CONSTANTS
  Nodes = {n1, n2}
  First = n1
  Registries = {r1}
  MaxEdits = 2
  MaxFaults = 2
  NULL = NULL
INVARIANT CheckpointedIsKept
PROPERTY LeaderServes
CHECK_DEADLOCK FALSE
