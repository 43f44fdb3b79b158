SPECIFICATION Spec
CONSTANTS
  Candidate = {c1, c2}
  Proc = {p1, p2}
  Session = {1, 2}
  MinBatch = 1
  MaxBatch = 1
  DefaultSelect = 1
  MaxActive = 1
  MaxStops = 0
  MaxEdits = 0
  Misnamed = {}
  Refusable = {c1, c2}
INVARIANTS
  CapacityReserved
SYMMETRY PortfolioSymmetry
CHECK_DEADLOCK FALSE
