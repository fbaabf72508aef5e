\* One upload for a host, undisturbed.
SPECIFICATION CertSpec
CONSTANTS
  Admins = {o1}
  Main = m
  Hosts = {h1}
  Pairs = {p, q}
  MaxMinted = 4
  MaxUploads = 3
  NULL = NULL
PROPERTY AddedTakesEffect
CHECK_DEADLOCK FALSE
