SPECIFICATION Spec
CONSTANTS
  p1 = p1
  p2 = p2
  k1 = k1
  k2 = k2
  k3 = k3
  Procs <- MCProcs
  Keys <- MCKeys
  Nobody = Nobody
  Sweeper = Sweeper
  Limit = 1
  Period = 1
  Requests = {1}
  maxBuckets = 2
  maxAge = 1
  MaxCalls = 4
  MaxTime = 2
SYMMETRY Symmetry
INVARIANTS TypeOK CapRespected BudgetBound
PROPERTIES NeverReplaced CleanupForgetsNoDebt
