SPECIFICATION Spec
CONSTANTS
  r1 = r1
  r2 = r2
  k = k
  Procs = {r1, r2}
  Replicas = {r1, r2}
  replica <- MCReplica
  skew <- NoSkew
  MaxSkew = 0
  Keys = {k}
  globalKey = globalKey
  Limit <- MCLimit
  Period = 1
  Requests = {1}
  None = None
  ttl = 2
  negCacheTTL = 0
  maxNegCacheEntries = 1
  MaxDelay = 1
  MaxLate = 1
  MaxErrors = 2
  MaxCalls = 1
  MaxTime = 0
INVARIANT FailOpenExact
