SPECIFICATION Spec
CONSTANTS
  a = a
  default = default
  Missing = Missing
  t = t
  u = u
  Keys <- MCKeys
  Batches <- MCBatches
  Hashes <- MCHashes
  MaxItems = 2
  maxRules = 3
  now = 5
INVARIANT ErrorTracesKept
