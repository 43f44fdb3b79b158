SPECIFICATION FairSpec
CONSTANTS
  Subtask = {s1, s2, s3}
  Manager = Manager
  HasTools = {s1, s2, s3}
  Chunk = 2
  MaxTurns = 2
  MaxToolCalls = 3
  MaxBatch = 2
INVARIANTS
  TypeOK
  CompletedIsQuiet
  AgentBounds
PROPERTIES
  AgentsEnd
CHECK_DEADLOCK FALSE
