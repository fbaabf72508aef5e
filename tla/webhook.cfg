\* Duplicated, late and cancelled requests while the source is removed and
\* created; or two callers of one resource, through any front end.
SPECIFICATION EitherSpec
CONSTANTS
  Requests = {r1, r2}
  Secrets = {k1, k2}
  Payloads = {good, big, bad, invalid}
  Oversized = {big}
  Malformed = {bad}
  Invalid = {invalid}
  Skew = 1
  Drift = 2
  MaxTime = 4
  MaxSent = 1
  MaxFailures = 1
  Callers = {c1, c2}
  Names = {edge, ops}
  MaxCalls = 2
  Edge = edge
  Fronts = {"page", "remote", "local"}
  Contended = {"config", "secret", "key", "webhook", "host", "stack", "backup", "service"}
  NameWords <- SmallWords
  NULL = NULL
SYMMETRY Symmetry
INVARIANTS RevokedIsRefused DuplicatesExpire HistoryIsExact
PROPERTY ImplementsPort
CHECK_DEADLOCK FALSE
