SPECIFICATION Spec
CONSTANTS
  ta = ta
  tb = tb
  v1 = v1
  Task = {ta, tb}
  Venture = {v1}
  VentureOf <- MCVentureOf
  Deps <- NoDeps
  Rank <- MCRank
  Sched = {p1, p2}
  RunId = {i1, i2, i3}
  DailyBudget = 2
  Day = 1
  Cooldown = 0
  MaxConcurrent = 2
  MaxLag = 1
  MaxDeaths = 0
  RunMayKeepStatus = TRUE
  None = None
SYMMETRY RunSymmetry
INVARIANTS
  NoDoubleFire
