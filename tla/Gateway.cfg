SPECIFICATION Spec
CONSTANTS
  a = a
  default = default
  Missing = Missing
  t = t
  u = u
  Keys <- MCKeys
  Batches <- MCBatches
  Hashes <- MCHashes
  MaxItems = 3
  maxRules = 3
  now = 5
INVARIANTS
  TypeOK KeepWins Accounted PaidAndCounted RejectedIsFree ErrorsKept TracesWhole
  NeverEmptied RefusalsShow
