SPECIFICATION FairSpec
CONSTANTS
  t1 = t1
  r1 = r1
  r2 = r2
  api = api
  cli = cli
  s1 = s1
  s2 = s2
  Task = {t1}
  Subtask = {s1}
  Summary = Summary
  Note = Note
  PlannerStatus = {"proposed"}
  PlannerExtReq = {TRUE, FALSE}
  PlannerExtOk = {FALSE}
  Proc = {api}
  ApiProc = {api}
  Run = {r1, r2}
  TaskOf <- OneTaskOf
  ProcOf <- OneProcProcOf
  Client = Client
  Nobody = Nobody
  GateMayDeny = TRUE
INVARIANTS
  TypeOK
  WorkStartsCleared
PROPERTIES
  RunsEnd
  RefinesStore
