SPECIFICATION FairSpec
CONSTANTS
  Candidate = {c1, c2}
  Proc = {p1}
  Session = {1}
  MinBatch = 1
  MaxBatch = 2
  DefaultSelect = 2
  MaxActive = 2
  MaxStops = 1
  MaxEdits = 1
  Misnamed = {{c1,c2}}
  Refusable = {c1}
INVARIANTS
  TypeOK
  CapacityBound
  AllOrNone
  ExperimentGrounded
  ExperimentDecided
PROPERTIES
  SelectedGetExperiments
CHECK_DEADLOCK FALSE
