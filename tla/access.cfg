\* Two requests at the accounts and setup pages of the console, with sessions that expire
\* and restarts; or two commands at one managed credential, and the API keys.
SPECIFICATION EitherSpec
CONSTANTS
  Requests = {r1, r2}
  Names = {ann, bob}
  Roles = {"admin", "operator"}
  EnvUsers = {ann, NULL}
  Ttl = 1
  MaxTime = 1
  MaxId = 3
  Commands = {p1, p2}
  Managed = {"traefik_dashboard", "openobserve_admin", "edge_api_token"}
  Htpasswd = {"traefik_dashboard"}
  RootUsers = {"openobserve_admin"}
  Consumed = {"traefik_dashboard", "openobserve_admin"}
  Logins = {"admin", "root"}
  KeyNames = {"ci"}
  MaxMinted = 3
  MaxKey = 3
  NULL = NULL
SYMMETRY AccessSymmetry
INVARIANTS SetupOnce EditsHitTheirTarget EdgeTokenAccepted RotatedIsUsed
PROPERTY AdminKept
CHECK_DEADLOCK FALSE
