\* Two requests at the edge; two commands at the certificates; two deployments and a call
\* at the services; one run at a time at a secret or a config.
SPECIFICATION HostsSpec
CONSTANTS
  Admins = {c1, c2}
  Callers = {r1}
  Contents = {p, q}
  MaxVersion = 5
  HashInStore = TRUE
  Serial = TRUE
  Requests = {c1, c2}
  Clients = {h1, h2}
  Proxies = {px}
  Denied = {}
  Rate = 1
  Burst = 1
  IdleTTL = 1
  MaxConcurrent = 2
  Threshold = 2
  Duration = 1
  MaxTime = 2
  MaxSent = 4
  Main = main
  Hosts = {h1, h2}
  Stack = shop
  Longer = shop_eu
  Shared = shop_eu_web
  Stacks = {shop, shop_eu}
  Names = {shop_eu_web, shop_db}
  Nameable <- NamesOf
  Deployers = {c1, c2}
  Operators = {"call"}
  Retries = 1
  Specs = {p, q}
  MaxBegun = 3
  Pairs = {p, q}
  MaxUploads = 3
  MaxMinted = 4
  NULL = NULL
SYMMETRY HostsSymmetry
INVARIANTS
  GenuineAddress
  RateIsExact
  OffendersAreBanned
  
  OwnPairServed
  ReturnedHolds
  OldVersionsCollected
  DeployedIsWhole
  CallsHitTheirStack
PROPERTY RestartKeepsSpec
CHECK_DEADLOCK FALSE
