SPECIFICATION Spec
CONSTANTS
  Topic = {"price", "law"}
  contradiction_max_pairs = 2
  auto_promote_max_pairs = 2
  MaxClaims = 4
  max_rounds = 1
  Member <- MCBoardSeats
  Suppressed = {"builder"}
  Gating = {"critic"}
  Review <- MCReview
  min_stage1_responses = 3
  min_stage2_responses = 2
  disagreement_threshold = 4
  auto_promote_enabled = TRUE
  Call = {"first", "second"}
  Opener = {"first"}
  Board <- MCBoardSeats
  Listed = {"critic", "builder"}
  Selected <- MCSelected
  max_turns = 2
  max_continuations = 2
  MaxEvents = 3
INVARIANTS TypeOK DecisionGrounded RebuttalsSound StreamFaithful
PROPERTIES MeetingKept BoardEnds
CHECK_DEADLOCK FALSE
