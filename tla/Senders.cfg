SPECIFICATION Spec
CONSTANTS
  k1 = k1
  k2 = k2
  c1 = c1
  c2 = c2
  Clients = {c1, c2}
  Keys = {k1, k2}
  globalKey = globalKey
  second = 1
  minute = 4
  minDelay = 1
  maxDelay = 2
  MaxBatches = 2
  Configs <- MCConfigs
  Variants <- MCVariants
  Loads <- MCLoads
INVARIANTS TypeOK Shares DelayCovers SeriesStable
PROPERTY RejectedGetThrough
