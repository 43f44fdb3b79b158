SPECIFICATION AllSpec
CONSTANTS
  Proc = {p1, p2}
  EventId = {e1, e2, e3, e4, e5}
  Limit = 2
  Window = 2
  Caller = {p1, p2}
  Session = {s1}
  Key = {k1, k2, k3, k4}
  Unknown = {k4}
  RateLimit = 2
  RateWindow = 2
  CacheSize = 2
  CacheLife = 1
  EndOfTime = 3
  MaxCalls = 4
  Entry = {"a", "b", "c"}
  Alike <- MCAlike
  Update <- MCUpdate
  Edit <- MCEdit
  Life = 1
  MaxClock = 2
  MaxOps = 2
  Writer = {p1, p2}
  Source = {s1, s2}
  MaxBegun = 4
  Command = {p1, p2}
  Venture = {v1, v2}
  MaxCommands = 3
  Review = {r1, r2}
  Model = {m1, m2}
  Budget = {b1, b2}
  Kept = kept
  NoReview = none
  SessionsWatched = 1
  MaxSaves = 3
  MaxRecorded = 1
SYMMETRY GateSymmetry
CHECK_DEADLOCK FALSE
INVARIANTS
  TypeOK
  RateBound
  SearchBound
PROPERTIES
  MemoryKept
  RecordsKept
  ReviewsApplied
