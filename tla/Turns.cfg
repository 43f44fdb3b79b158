SPECIFICATION Spec
CONSTANTS
  Keys <- MCKeys
  QwenFree = TRUE
  Stubborn = {"deepseek"}
  Tool = {"open_browser", "validate_claim"}
  Sources <- MCSources
  Quoted <- MCQuoted
  Council = {"deepseek"}
  Mode = {"fast", "standard"}
  MaxBatch = 2
  MaxUnasked = 1
  RevisionCap = 1
  Speaker = {"kimi", "qwen", "openrouter"}
  MaxDelta = 2
  MaxContinuations = 1
  Seat = {"critic", "builder", "finance"}
  Upgraded = {"critic", "builder"}
  MaxFollowups = 3
  MaxRounds = 2
INVARIANTS TypeOK TurnBounds SupportedIsBacked NoMixing FollowupsAccounted
PROPERTY TurnsEnd
CHECK_DEADLOCK FALSE
