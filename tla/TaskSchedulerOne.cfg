SPECIFICATION FairSpec
CONSTANTS
  ta = ta
  tb = tb
  v1 = v1
  Task = {ta, tb}
  Venture = {v1}
  VentureOf <- MCVentureOf
  Deps <- MCDeps
  Rank <- MCRank
  Sched = {p1}
  RunId = {i1, i2, i3}
  DailyBudget = 2
  Day = 1
  Cooldown = 1
  MaxConcurrent = 2
  MaxLag = 1
  MaxDeaths = 1
  RunMayKeepStatus = FALSE
  None = None
INVARIANTS
  TypeOK
  CooldownKept
  DependenciesFirst
PROPERTIES
  EventuallyFired
