SPECIFICATION Spec
CONSTANTS
  Replicas = {r1}
  Writers = {w1, w2}
  Ids = {1, 2}
  Docs <- MCDocs
  maxRules = 1
  fullEvery = 3
  None = None
  MaxWrites = 2
  MaxRestarts = 1
INVARIANTS TypeOK VersionCovers StaleForAtMost FailClosed
PROPERTIES FailStale Converges
