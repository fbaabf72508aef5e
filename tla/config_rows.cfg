\* Two processes at the configs; the page and a command at the settings; two requests
\* at the connection of the console; manifests of two apps.
SPECIFICATION EitherSpec
CONSTANTS
  Clients = {c1, c2}
  Names = {n1, n2}
  Contents = {a, b}
  MaxRow = 4
  Pages = {p1}
  Commands = {s1}
  MaxMisread = 1
  Requests = {r1, r2}
  Given = {x}
  Env = e
  Lines = lines
  Manifests <- SmallManifests
  Literals <- SmallLiterals
  Environment <- SmallEnvironment
  ConfigContent <- SmallContent
  NULL = NULL
SYMMETRY RowSymmetry
INVARIANTS HistoryComplete SavedIsUsed RenderingIsClosed
PROPERTY UntouchedStays
CHECK_DEADLOCK FALSE
