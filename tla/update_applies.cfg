\* Runs one after the other, any of which may fail at any step.
SPECIFICATION Spec
CONSTANTS
  infra = infra
  sso = sso
  d1 = d1
  d2 = d2
  e = e
  c1 = c1
  c2 = c2
  Runs = {c1}
  Stacks = {infra, sso}
  Infra = infra
  SSO = sso
  Contents = {d1, d2, e}
  Edits = {e}
  Embedded <- ShippedTemplates
  MaxBuild = 1
  MaxCert = 1
  MaxDynamic = 2
  Serial = TRUE
  MaxFailures = 1
  NULL = NULL
INVARIANTS UpdateRecovers
CHECK_DEADLOCK FALSE
