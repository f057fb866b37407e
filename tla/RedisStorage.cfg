SPECIFICATION Spec
CONSTANTS
  r1 = r1
  r2 = r2
  k = k
  Procs = {r1, r2}
  Replicas = {r1, r2}
  replica <- MCReplica
  skew <- NoSkew
  MaxSkew = 0
  Keys = {k}
  globalKey = globalKey
  Limit <- MCLimit
  Period = 1
  Requests = {2}
  None = None
  ttl = 2
  negCacheTTL = 1
  maxNegCacheEntries = 1
  MaxDelay = 1
  MaxLate = 1
  MaxErrors = 1
  MaxCalls = 3
  MaxTime = 2
SYMMETRY Symmetry
INVARIANTS TypeOK FleetBound NothingLost
PROPERTIES CachedDenials
