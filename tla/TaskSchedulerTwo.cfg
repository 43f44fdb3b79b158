SPECIFICATION Spec
CONSTANTS
  ta = ta
  tb = tb
  v1 = v1
  Task = {ta, tb}
  Venture = {v1}
  VentureOf <- MCVentureOf
  Deps <- NoDeps
  Rank <- MCRank
  Sched = {p1, p2}
  RunId = {i1, i2, i3}
  DailyBudget = 1
  Day = 1
  Cooldown = 0
  MaxConcurrent = 1
  MaxLag = 1
  MaxDeaths = 1
  RunMayKeepStatus = TRUE
  None = None
SYMMETRY RunSymmetry
INVARIANTS
  ConcurrencyBound
  BudgetBound
