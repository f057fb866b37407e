CONSTANTS
  p1 = p1
  p2 = p2
  k1 = k1
  k2 = k2
  g = g
  Procs = {p1, p2}
  Keys = {k1, k2}
  globalKey = g
  Limit <- MCLimit
  Period = 2
  Requests = {1, 3}
  MaxTime = 1
SPECIFICATION Spec
SYMMETRY Symmetry
INVARIANTS TypeOK BurstBound NothingDrained
PROPERTY ImplementsBudget
