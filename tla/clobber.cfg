SPECIFICATION FailSpec
CONSTANTS
  Nodes = {n1}
  First = n1
  Registries = {r1}
  MaxEdits = 2
  MaxFaults = 0
  NULL = NULL
PROPERTY CurrentIsKept
CHECK_DEADLOCK FALSE
