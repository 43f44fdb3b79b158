---------------------------- MODULE DelegatedTasks ----------------------------
(***************************************************************************)
(* Delegated-task execution: the task store (execution/tasks.py), the      *)
(* board and API requests that call it (deliberation/orchestrator.py,      *)
(* api/routes/board.py, api/routes/execution.py) and the runner's run_task *)
(* (execution/runner.py).                                                  *)
(*                                                                         *)
(* Every operation of the store reads the row in one SQLite connection,    *)
(* passes the pre-hooks, and replaces the whole row in another connection. *)
(* Inside one process these are synchronous calls on the event loop, which *)
(* nothing else enters before the next await; two processes (the API       *)
(* server, the command line, the always-on scheduler) interleave freely    *)
(* between the two connections.                                            *)
(***************************************************************************)
EXTENDS TaskRows

CONSTANTS
  Proc,          \* operating-system processes, each with one event loop
  ApiProc,       \* the processes that serve HTTP requests
  Run,           \* invocations of run_task
  TaskOf,        \* the task a run is invoked for
  ProcOf,        \* the process it runs in
  Client,        \* holder of an event loop that is inside a request handler
  Nobody,        \* holder of an event loop that is between callbacks
  GateMayDeny    \* whether a delegated_task pre-hook may deny an operation

ASSUME RunAssumption ==
  /\ ApiProc \subseteq Proc
  /\ TaskOf \in [Run -> Task]
  /\ ProcOf \in [Run -> Proc]
  /\ Client \notin Run
  /\ Nobody \notin Run \cup {Client}
  /\ GateMayDeny \in BOOLEAN

VARIABLES
  row,       \* the delegated_tasks table
  session,   \* the plan row kept in the session's JSON file, per task
  holder,    \* who occupies the event loop of each process
  inflight,  \* the operation between its load and its save, per process
  run,       \* the state of each run_task invocation
  granted    \* history: tasks for which a client asked for "approved"

vars == <<row, session, holder, inflight, run, granted>>

(* An operation that has loaded its row: the row it will save, whether the *)
(* request asks for the status "approved", and whether it is a new plan    *)
(* that replaces whatever row there is.                                    *)
Op == [task : Task, row : Row, grants : BOOLEAN, anew : BOOLEAN]

RunPC == {"idle", "plan", "reload", "work", "attach", "synth", "complete",
          "block", "fail", "done", "lost"}
Result == {"none", "skipped", "not_found", "completed", "blocked", "error"}

RunState == [pc     : RunPC,
             todo   : SUBSET Subtask,   \* outputs not yet attached
             files  : SUBSET Artifact,  \* written_paths
             result : Result]

(* A run that holds no local variables: not begun, or over. *)
Ended(pc, result) == [pc |-> pc, todo |-> {}, files |-> {}, result |-> result]

TypeOK ==
  /\ row \in [Task -> Row]
  /\ session \in [Task -> Row]
  /\ holder \in [Proc -> Run \cup {Client, Nobody}]
  /\ inflight \in [Proc -> SUBSET Op]
  /\ run \in [Run -> RunState]
  /\ granted \subseteq Task

Init ==
  /\ row = [t \in Task |-> AbsentRow]
  /\ session = [t \in Task |-> AbsentRow]
  /\ holder = [p \in Proc |-> Nobody]
  /\ inflight = [p \in Proc |-> {}]
  /\ run = [r \in Run |-> Ended("idle", "none")]
  /\ granted = {}

-----------------------------------------------------------------------------
(* The event loop and the two halves of a store operation.                 *)

Enter(p, who) == holder[p] = Nobody /\ holder' = [holder EXCEPT ![p] = who]
Leave(p) == holder' = [holder EXCEPT ![p] = Nobody]

Holds(p, o) == inflight' = [inflight EXCEPT ![p] = {o}]
Hold(p, t, r, grants) == Holds(p, [task |-> t, row |-> r, grants |-> grants, anew |-> FALSE])
HoldPlan(p, t, r) == Holds(p, [task |-> t, row |-> r, grants |-> FALSE, anew |-> TRUE])

Release(p) == inflight' = [inflight EXCEPT ![p] = {}]

(* save_delegated_task once the gate has allowed it. *)
Write(o) ==
  /\ row' = [row EXCEPT ![o.task] = o.row]
  /\ granted' = IF o.grants THEN granted \cup {o.task} ELSE granted

-----------------------------------------------------------------------------
(* Requests.  A handler loads the row and decides (one step), then passes  *)
(* the gate and saves, or is denied (another step).                        *)

(* The end of a deliberation in process p: the session file is saved, then *)
(* its delegation plan is recorded whatever rows exist.  The session's id  *)
(* is the client's or the second's, so the file and the rows may be those  *)
(* of an earlier deliberation, approved rows included.                     *)
BoardSavesSession(p, t) ==
  /\ Enter(p, Client)
  /\ \E r \in PlannedRow :
       /\ session' = [session EXCEPT ![t] = r]
       /\ HoldPlan(p, t, r)
  /\ UNCHANGED <<row, run, granted>>

(* A later deliberation of the same session delegates no such task: the    *)
(* plan is gone from the file, and its row is left.                        *)
BoardDropsPlan(p, t) ==
  /\ holder[p] = Nobody
  /\ session' = [session EXCEPT ![t] = AbsentRow]
  /\ UNCHANGED <<row, holder, inflight, run, granted>>

(* Slip: the plan is recorded again over existing rows. *)
ClientGetsPlanAgain(p, t) ==
  /\ Enter(p, Client)
  /\ Exists(session[t])
  /\ Hold(p, t, session[t], FALSE)
  /\ UNCHANGED <<row, session, run, granted>>

(* GET /sessions/{id}/delegation-plan records the plan of the session file *)
(* when the session has no row.                                            *)
ClientGetsPlan(p, t) ==
  /\ Enter(p, Client)
  /\ Exists(session[t])
  /\ ~Exists(row[t])
  /\ Hold(p, t, session[t], FALSE)
  /\ UNCHANGED <<row, session, run, granted>>

ClientApproves(p, t) ==
  /\ Enter(p, Client)
  /\ CanApprove(row[t])
  /\ \E ok \in BOOLEAN : Hold(p, t, ApproveRow(row[t], ok), ok)
  /\ UNCHANGED <<row, session, run, granted>>

ClientApprovesExternal(p, t) ==
  /\ Enter(p, Client)
  /\ CanApproveExternal(row[t])
  /\ \E ok \in BOOLEAN : Hold(p, t, ApproveExternalRow(row[t], ok), FALSE)
  /\ UNCHANGED <<row, session, run, granted>>

ClientPlans(p, t) ==
  /\ Enter(p, Client)
  /\ CanPlan(row[t])
  /\ \E subtasks \in SUBSET Subtask :
       Hold(p, t, PlanRow(row[t], subtasks), FALSE)
  /\ UNCHANGED <<row, session, run, granted>>

ClientSetsStatus(p, t) ==
  /\ Enter(p, Client)
  /\ \E s \in Status :
       /\ CanSetStatus(row[t], s)
       /\ \E new \in SUBSET {Note} :
            Hold(p, t, StatusRow(row[t], s, new), s = "approved")
  /\ UNCHANGED <<row, session, run, granted>>

ClientAttaches(p, t) ==
  /\ Enter(p, Client)
  /\ Exists(row[t])
  /\ Hold(p, t, AttachRow(row[t], Note), FALSE)
  /\ UNCHANGED <<row, session, run, granted>>

ClientSaves(p) ==
  /\ holder[p] = Client
  /\ \E o \in inflight[p] : Write(o)
  /\ Release(p)
  /\ Leave(p)
  /\ UNCHANGED <<session, run>>

ClientDenied(p) ==
  /\ GateMayDeny
  /\ holder[p] = Client
  /\ Release(p)
  /\ Leave(p)
  /\ UNCHANGED <<row, session, run, granted>>

ClientStep ==
  \/ \E p \in Proc, t \in Task : BoardSavesSession(p, t) \/ BoardDropsPlan(p, t)
  \/ \E p \in ApiProc, t \in Task :
       \/ ClientGetsPlan(p, t) \/ ClientApproves(p, t)
       \/ ClientApprovesExternal(p, t) \/ ClientPlans(p, t)
       \/ ClientSetsStatus(p, t) \/ ClientAttaches(p, t)

ClientEnd(p) == ClientSaves(p) \/ ClientDenied(p)

-----------------------------------------------------------------------------
(* run_task.  A run keeps the event loop from one await to the next.       *)

Goto(r, pc) == run' = [run EXCEPT ![r].pc = pc]

(* run_task returns *)
Finish(r, result) == run' = [run EXCEPT ![r] = Ended("done", result)]

(* Slip: the refusal looks at approved tasks only. *)
StartPCApproved(loaded) ==
  IF loaded.status = "running" \/ ExternalCleared(loaded) THEN "plan" ELSE "block"

(* The external-action refusal. *)
StartPC(loaded) == IF ExternalCleared(loaded) THEN "plan" ELSE "block"

(* The first load, its early returns and the external-action refusal. *)
StartRun(r) ==
  LET p == ProcOf[r]
      loaded == row[TaskOf[r]]
  IN
  /\ run[r].pc = "idle"
  /\ holder[p] = Nobody
  /\ \/ /\ ~Exists(loaded)
        /\ Finish(r, "not_found")
        /\ UNCHANGED holder
     \/ /\ Exists(loaded)
        /\ loaded.status \notin RunnableStatus
        /\ Finish(r, "skipped")
        /\ UNCHANGED holder
     \/ /\ loaded.status \in RunnableStatus
        /\ Goto(r, StartPC(loaded))
        /\ Enter(p, r)
  /\ UNCHANGED <<row, session, inflight, granted>>

(* run r, inside its event loop, is about to load the row for an operation *)
Ready(r, pc) ==
  /\ run[r].pc = pc
  /\ holder[ProcOf[r]] = r
  /\ inflight[ProcOf[r]] = {}

(* run r loads its row and holds the row it will save *)
RunLoads(r, new) ==
  /\ Hold(ProcOf[r], TaskOf[r], new, FALSE)
  /\ UNCHANGED <<row, session, holder, granted>>

(* run r, holding a loaded row, passes the gate and saves *)
RunSaves(r, pc) ==
  /\ run[r].pc = pc
  /\ holder[ProcOf[r]] = r
  /\ \E o \in inflight[ProcOf[r]] : Write(o)
  /\ Release(ProcOf[r])
  /\ UNCHANGED session

RunPlanLoads(r) ==
  /\ Ready(r, "plan")
  /\ CanPlan(row[TaskOf[r]])
  /\ RunLoads(r, PlanRow(row[TaskOf[r]], Subtask))
  /\ UNCHANGED run

(* The row stopped being plannable since StartRun: ExecutionError, unless  *)
(* the gate, which comes first, denies.                                    *)
RunPlanRefused(r) ==
  /\ Ready(r, "plan")
  /\ ~CanPlan(row[TaskOf[r]])
  /\ \/ Goto(r, "fail")
     \/ GateMayDeny /\ Goto(r, "block")
  /\ UNCHANGED <<row, session, holder, inflight, granted>>

RunPlanSaves(r) == RunSaves(r, "plan") /\ Goto(r, "reload") /\ UNCHANGED holder

(* The row is read back; the subtasks start and the loop is released. *)
RunReloads(r) ==
  LET subtasks == row[TaskOf[r]].plan IN
  /\ Ready(r, "reload")
  /\ run' = [run EXCEPT ![r] = [pc |-> "work", todo |-> subtasks,
                                files |-> subtasks, result |-> "none"]]
  /\ Leave(ProcOf[r])
  /\ UNCHANGED <<row, session, inflight, granted>>

(* The sub-agents, or the manager's synthesis, return or raise. *)
RunSubagentsReturn(r) ==
  /\ run[r].pc = "work"
  /\ Enter(ProcOf[r], r)
  /\ \E next \in {"attach", "fail"} : Goto(r, next)
  /\ UNCHANGED <<row, session, inflight, granted>>

RunAttachLoads(r) ==
  /\ Ready(r, "attach")
  /\ \E s \in run[r].todo :
       /\ RunLoads(r, AttachRow(row[TaskOf[r]], s))
       /\ run' = [run EXCEPT ![r].todo = @ \ {s}]

RunAttachSaves(r) == RunSaves(r, "attach") /\ UNCHANGED <<holder, run>>

RunSynthesises(r) ==
  /\ Ready(r, "attach")
  /\ run[r].todo = {}
  /\ Goto(r, "synth")
  /\ Leave(ProcOf[r])
  /\ UNCHANGED <<row, session, inflight, granted>>

RunSynthesisReturns(r) ==
  /\ run[r].pc = "synth"
  /\ Enter(ProcOf[r], r)
  /\ \/ run' = [run EXCEPT ![r].pc = "complete", ![r].files = @ \cup {Summary}]
     \/ Goto(r, "fail")
  /\ UNCHANGED <<row, session, inflight, granted>>

RunCompleteLoads(r) ==
  /\ Ready(r, "complete")
  /\ RunLoads(r, StatusRow(row[TaskOf[r]], "completed", run[r].files))
  /\ UNCHANGED run

RunCompleteSaves(r) ==
  RunSaves(r, "complete") /\ Finish(r, "completed") /\ Leave(ProcOf[r])

(* A file or database error outside the agents' awaits. *)
RunRaises(r) ==
  /\ \E pc \in {"plan", "reload", "attach", "complete", "block"} : Ready(r, pc)
  /\ Goto(r, "fail")
  /\ UNCHANGED <<row, session, holder, inflight, granted>>

(* The gate denies an operation of the run: _block is called. *)
RunDenied(r) ==
  /\ GateMayDeny
  /\ run[r].pc \in {"plan", "attach", "complete"}
  /\ holder[ProcOf[r]] = r
  /\ inflight[ProcOf[r]] # {}
  /\ Release(ProcOf[r])
  /\ Goto(r, "block")
  /\ UNCHANGED <<row, session, holder, granted>>

(* _block, and the handler of unexpected exceptions: both set "blocked". *)
BlockResult(pc) == IF pc = "block" THEN "blocked" ELSE "error"

RunBlockLoads(r) ==
  /\ \E pc \in {"block", "fail"} : Ready(r, pc)
  /\ RunLoads(r, StatusRow(row[TaskOf[r]], "blocked", {}))
  /\ UNCHANGED run

RunBlockSaves(r) ==
  \E pc \in {"block", "fail"} :
    RunSaves(r, pc) /\ Finish(r, BlockResult(pc)) /\ Leave(ProcOf[r])

(* Slip: the update is tried again until it is saved. *)
RunBlockRetried(r) ==
  /\ \/ run[r].pc = "block" /\ GateMayDeny
     \/ run[r].pc = "fail"
  /\ holder[ProcOf[r]] = r
  /\ inflight[ProcOf[r]] # {}
  /\ Release(ProcOf[r])
  /\ UNCHANGED <<row, session, holder, run, granted>>

(* The update is denied, or fails in the exception handler: swallowed. *)
RunBlockLost(r) ==
  /\ \/ run[r].pc = "block" /\ GateMayDeny
     \/ run[r].pc = "fail"
  /\ holder[ProcOf[r]] = r
  /\ inflight[ProcOf[r]] # {}
  /\ Release(ProcOf[r])
  /\ Finish(r, BlockResult(run[r].pc))
  /\ Leave(ProcOf[r])
  /\ UNCHANGED <<row, session, granted>>

RunStep(r) ==
  \/ RunPlanLoads(r) \/ RunPlanRefused(r) \/ RunPlanSaves(r) \/ RunReloads(r)
  \/ RunSubagentsReturn(r)
  \/ RunAttachLoads(r) \/ RunAttachSaves(r) \/ RunSynthesises(r)
  \/ RunSynthesisReturns(r)
  \/ RunCompleteLoads(r) \/ RunCompleteSaves(r)
  \/ RunRaises(r) \/ RunDenied(r)
  \/ RunBlockLoads(r) \/ RunBlockSaves(r) \/ RunBlockLost(r)

-----------------------------------------------------------------------------
(* A process dies: its handlers and runs vanish, the database stays. *)
Crash(p) ==
  /\ holder' = [holder EXCEPT ![p] = Nobody]
  /\ inflight' = [inflight EXCEPT ![p] = {}]
  /\ run' = [r \in Run |->
               IF ProcOf[r] = p /\ run[r].pc \notin {"idle", "done"}
               THEN Ended("lost", "none") ELSE run[r]]
  /\ UNCHANGED <<row, session, granted>>

Next ==
  \/ ClientStep
  \/ \E p \in Proc : ClientEnd(p) \/ Crash(p)
  \/ \E r \in Run : StartRun(r) \/ RunStep(r)

Spec == Init /\ [][Next]_vars

(* The event loop is first-in first-out, so a run whose await has returned *)
(* is resumed even when handlers keep the loop busy in between; calls to   *)
(* the model providers are assumed to return or raise.                     *)
Fairness ==
  /\ \A r \in Run : SF_vars(RunStep(r))
  /\ \A p \in Proc : WF_vars(ClientEnd(p))

FairSpec == Spec /\ Fairness

-----------------------------------------------------------------------------
(* Properties.                                                             *)

WorkPC == {"reload", "work", "attach", "synth", "complete"}

(* Sub-agents never run for a task that no client approved: whatever the   *)
(* interleaving of the processes, a run past its planning step works on a  *)
(* task for which some request asked for the status "approved" and was     *)
(* saved (the approval gate of tasks.py and runner.py).                    *)
ApprovalBeforeWork ==
  \A r \in Run :
    run[r].pc \in WorkPC \/ run[r].result = "completed" => TaskOf[r] \in granted

(* With a single process, a run that is planning or about to start its     *)
(* sub-agents does so on a row that is still runnable and whose external   *)
(* action is cleared now, not only when run_task first looked: no request  *)
(* fits between the refusal check and the first await.                     *)
WorkStartsCleared ==
  \A r \in Run :
    run[r].pc \in {"plan", "reload"} =>
      /\ row[TaskOf[r]].status \in RunnableStatus
      /\ ExternalCleared(row[TaskOf[r]])

(* With a single process the store is atomic: every save applies one       *)
(* operation to the row it replaces, and only the deliberation that made a *)
(* plan records it over a row, although load and save are separate         *)
(* connections (tasks.py).                                                 *)
Due == {t \in Task : \E p \in Proc : \E o \in inflight[p] : o.anew /\ o.task = t}
Store == INSTANCE TaskStore WITH row <- row, plan <- session, due <- Due
RefinesStore == Store!Spec

(* Why ApprovalBeforeWork holds.  A runnable status reaches a row only from *)
(* a request for "approved" or from a row that was runnable: in the table, *)
(* in an operation that still holds the row it loaded, and in what a run   *)
(* saw when it started.  Session files never carry it.                     *)
RowsApproved ==
  \A t \in Task : row[t].status \in RunnableStatus => t \in granted
SessionsUnapproved ==
  \A t \in Task : session[t].status \notin RunnableStatus
HeldApproved ==
  \A p \in Proc : \A o \in inflight[p] :
    o.row.status \in RunnableStatus => o.grants \/ o.task \in granted
RunsApproved ==
  \A r \in Run :
    run[r].pc \in WorkPC \cup {"plan"} \/ run[r].result = "completed"
      => TaskOf[r] \in granted

ApprovalInv == RowsApproved /\ SessionsUnapproved /\ HeldApproved /\ RunsApproved

(* Every run_task invocation returns or dies with its process (runner.py:  *)
(* "so it can NEVER infinite-loop").                                       *)
RunsEnd == \A r \in Run : run[r].pc # "idle" ~> run[r].pc \in {"done", "lost"}

=============================================================================
