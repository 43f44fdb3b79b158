------------------------ MODULE DelegatedTasks_proofs ------------------------
(***************************************************************************)
(* Proofs about DelegatedTasks, for every number of processes, runs,       *)
(* tasks and subtasks.                                                     *)
(***************************************************************************)
EXTENDS DelegatedTasks, TLAPS

-----------------------------------------------------------------------------
(* The store's operations stay within rows (tasks.py).                     *)

(* Rows parsed from the chair's JSON are rows of the table. *)
LEMMA PlannedRowTyped == PlannedRow \subseteq Row
BY PlannerAssumption DEF PlannedRow, Row, Status, Artifact

(* A row that an operation of tasks.py computes is a row of the table. *)
LEMMA OperationsTyped ==
  ASSUME NEW r \in Row
  PROVE  /\ \A ok \in BOOLEAN : ApproveRow(r, ok) \in Row
         /\ \A ok \in BOOLEAN : ApproveExternalRow(r, ok) \in Row
         /\ \A subtasks \in SUBSET Subtask : PlanRow(r, subtasks) \in Row
         /\ \A s \in Status, new \in SUBSET Artifact : StatusRow(r, s, new) \in Row
         /\ \A a \in Artifact : AttachRow(r, a) \in Row
BY DEF Row, Status, ApproveRow, ApproveExternalRow, PlanRow, StatusRow, AttachRow

-----------------------------------------------------------------------------
(* Type correctness, one lemma per kind of step.                           *)

(* A request handler's first half keeps the types: the loop and the held   *)
(* operation are the only things it touches besides the session file.      *)
LEMMA HoldTyped ==
  ASSUME TypeOK, NEW p \in Proc, NEW t \in Task, NEW new \in Row,
         NEW grants \in BOOLEAN, Hold(p, t, new, grants) \/ HoldPlan(p, t, new)
  PROVE  inflight' \in [Proc -> SUBSET Op]
<1>1. PICK o \in Op : Holds(p, o)
  <2>1. \A anew \in BOOLEAN :
          [task |-> t, row |-> new, grants |-> grants, anew |-> anew] \in Op
    BY DEF Op
  <2>2. [task |-> t, row |-> new, grants |-> FALSE, anew |-> TRUE] \in Op
    BY DEF Op
  <2> QED  BY <2>1, <2>2 DEF Hold, HoldPlan
<1> QED  BY <1>1 DEF TypeOK, Holds

(* The second half of an operation writes a row that is typed. *)
LEMMA WriteTyped ==
  ASSUME TypeOK, NEW p \in Proc, \E o \in inflight[p] : Write(o)
  PROVE  row' \in [Task -> Row] /\ granted' \subseteq Task
BY DEF TypeOK, Write, Op

(* Moves of the event loop are typed. *)
LEMMA LoopTyped ==
  ASSUME TypeOK, NEW p \in Proc, NEW who \in Run \cup {Client},
         Enter(p, who) \/ Leave(p)
  PROVE  holder' \in [Proc -> Run \cup {Client, Nobody}]
BY DEF TypeOK, Enter, Leave

(* Moves of a run are typed. *)
LEMMA RunMoveTyped ==
  ASSUME TypeOK, NEW r \in Run,
         \/ \E pc \in RunPC : Goto(r, pc)
         \/ \E res \in Result : Finish(r, res)
  PROVE  run' \in [Run -> RunState]
<1>1. CASE \E pc \in RunPC : Goto(r, pc)
  BY <1>1 DEF TypeOK, Goto, RunState
<1>2. CASE \E res \in Result : Finish(r, res)
  BY <1>2 DEF TypeOK, Finish, Ended, RunState, RunPC
<1> QED  BY <1>1, <1>2

(* A request that loads its row keeps the types. *)
LEMMA ClientTyped ==
  ASSUME TypeOK, ClientStep
  PROVE  TypeOK'
<1> USE RunAssumption
<1>1. ASSUME NEW p \in Proc, NEW t \in Task, BoardSavesSession(p, t)
      PROVE  TypeOK'
  <2>1. PICK r \in PlannedRow : session' = [session EXCEPT ![t] = r] /\ HoldPlan(p, t, r)
    BY <1>1 DEF BoardSavesSession
  <2>2. r \in Row
    BY PlannedRowTyped
  <2>3. inflight' \in [Proc -> SUBSET Op]
    BY <2>1, <2>2, HoldTyped
  <2>4. holder' \in [Proc -> Run \cup {Client, Nobody}]
    BY <1>1, LoopTyped DEF BoardSavesSession
  <2> QED  BY <1>1, <2>1, <2>2, <2>3, <2>4 DEF TypeOK, BoardSavesSession
<1>3. ASSUME NEW p \in Proc, NEW t \in Task, BoardDropsPlan(p, t)
      PROVE  TypeOK'
  BY <1>3 DEF BoardDropsPlan, TypeOK, AbsentRow, Row
<1>2. ASSUME NEW p \in Proc, NEW t \in Task,
             \/ ClientGetsPlan(p, t) \/ ClientApproves(p, t)
             \/ ClientApprovesExternal(p, t) \/ ClientPlans(p, t)
             \/ ClientSetsStatus(p, t) \/ ClientAttaches(p, t)
      PROVE  TypeOK'
  <2>1. row[t] \in Row /\ session[t] \in Row
    BY DEF TypeOK
  <2>2. \E new \in Row, grants \in BOOLEAN : Hold(p, t, new, grants)
    <3>1. CASE ClientGetsPlan(p, t)
      BY <2>1, <3>1 DEF ClientGetsPlan
    <3>2. CASE ClientApproves(p, t)
      BY <2>1, <3>2, OperationsTyped DEF ClientApproves
    <3>3. CASE ClientApprovesExternal(p, t)
      BY <2>1, <3>3, OperationsTyped DEF ClientApprovesExternal
    <3>4. CASE ClientPlans(p, t)
      BY <2>1, <3>4, OperationsTyped DEF ClientPlans
    <3>5. CASE ClientSetsStatus(p, t)
      BY <2>1, <3>5, OperationsTyped DEF ClientSetsStatus, Artifact
    <3>6. CASE ClientAttaches(p, t)
      BY <2>1, <3>6, OperationsTyped DEF ClientAttaches, Artifact
    <3> QED  BY <1>2, <3>1, <3>2, <3>3, <3>4, <3>5, <3>6
  <2>3. inflight' \in [Proc -> SUBSET Op]
    BY <2>2, HoldTyped
  <2>4. Enter(p, Client) /\ UNCHANGED <<row, session, run, granted>>
    BY <1>2 DEF ClientGetsPlan, ClientApproves, ClientApprovesExternal,
                ClientPlans, ClientSetsStatus, ClientAttaches
  <2>5. holder' \in [Proc -> Run \cup {Client, Nobody}]
    BY <2>4, LoopTyped
  <2> QED  BY <2>3, <2>4, <2>5 DEF TypeOK
<1> QED  BY <1>1, <1>2, <1>3 DEF ClientStep

(* A request that saves, or is denied, keeps the types. *)
LEMMA ClientEndTyped ==
  ASSUME TypeOK, NEW p \in Proc, ClientEnd(p)
  PROVE  TypeOK'
<1>1. inflight' \in [Proc -> SUBSET Op] /\ Leave(p)
  BY DEF ClientEnd, ClientSaves, ClientDenied, Release, TypeOK
<1>2. holder' \in [Proc -> Run \cup {Client, Nobody}]
  BY <1>1 DEF Leave, TypeOK
<1>3. row' \in [Task -> Row] /\ granted' \subseteq Task
  <2>1. CASE ClientSaves(p)
    BY <2>1, WriteTyped DEF ClientSaves
  <2>2. CASE ClientDenied(p)
    BY <2>2 DEF ClientDenied, TypeOK
  <2> QED  BY <2>1, <2>2 DEF ClientEnd
<1> QED  BY <1>1, <1>2, <1>3 DEF TypeOK, ClientEnd, ClientSaves, ClientDenied

(* The death of a process keeps the types. *)
LEMMA CrashTyped ==
  ASSUME TypeOK, NEW p \in Proc, Crash(p)
  PROVE  TypeOK'
<1>1. holder' \in [Proc -> Run \cup {Client, Nobody}] /\ inflight' \in [Proc -> SUBSET Op]
  BY DEF Crash, TypeOK
<1>2. run' \in [Run -> RunState]
  BY DEF Crash, TypeOK, RunState, Ended, RunPC, Result
<1> QED  BY <1>1, <1>2 DEF TypeOK, Crash

(* The start of run_task keeps the types. *)
LEMMA StartRunTyped ==
  ASSUME TypeOK, NEW r \in Run, StartRun(r)
  PROVE  TypeOK'
<1>1. ProcOf[r] \in Proc
  BY RunAssumption
<1>2. run' \in [Run -> RunState]
  <2>1. (\E pc \in RunPC : Goto(r, pc)) \/ (\E res \in Result : Finish(r, res))
    BY DEF StartRun, StartPC, RunPC, Result
  <2> QED  BY <2>1, RunMoveTyped
<1>3. holder' \in [Proc -> Run \cup {Client, Nobody}]
  BY <1>1, LoopTyped DEF StartRun, TypeOK
<1> QED  BY <1>2, <1>3 DEF TypeOK, StartRun

(* The steps in which a run loads a row and holds the one it will save. *)
LEMMA RunLoadTyped ==
  ASSUME TypeOK, NEW r \in Run,
         RunPlanLoads(r) \/ RunAttachLoads(r) \/ RunCompleteLoads(r) \/ RunBlockLoads(r)
  PROVE  TypeOK'
<1>1. ProcOf[r] \in Proc /\ TaskOf[r] \in Task
  BY RunAssumption
<1>2. row[TaskOf[r]] \in Row /\ run[r] \in RunState
  BY <1>1 DEF TypeOK
<1>3. (\E new \in Row : RunLoads(r, new)) /\ run' \in [Run -> RunState]
  <2>1. CASE RunPlanLoads(r)
    BY <1>2, <2>1, OperationsTyped DEF RunPlanLoads, TypeOK
  <2>2. CASE RunAttachLoads(r)
    <3>1. PICK s \in run[r].todo :
            /\ RunLoads(r, AttachRow(row[TaskOf[r]], s))
            /\ run' = [run EXCEPT ![r].todo = @ \ {s}]
      BY <2>2 DEF RunAttachLoads
    <3>2. s \in Artifact
      BY <1>2, <3>1 DEF RunState, Artifact
    <3>3. run' \in [Run -> RunState]
      BY <3>1 DEF TypeOK, RunState
    <3> QED  BY <1>2, <3>1, <3>2, <3>3, OperationsTyped
  <2>3. CASE RunCompleteLoads(r)
    BY <1>2, <2>3, OperationsTyped DEF RunCompleteLoads, RunState, Status, TypeOK
  <2>4. CASE RunBlockLoads(r)
    BY <1>2, <2>4, OperationsTyped DEF RunBlockLoads, Status, TypeOK
  <2> QED  BY <2>1, <2>2, <2>3, <2>4
<1>4. inflight' \in [Proc -> SUBSET Op]
  BY <1>1, <1>3, HoldTyped DEF RunLoads
<1> QED  BY <1>3, <1>4 DEF TypeOK, RunLoads

(* The steps in which a run saves, is denied, or gives up on its update. *)
LEMMA RunSaveTyped ==
  ASSUME TypeOK, NEW r \in Run,
         \/ RunPlanSaves(r) \/ RunAttachSaves(r) \/ RunCompleteSaves(r)
         \/ RunBlockSaves(r) \/ RunDenied(r) \/ RunBlockLost(r)
  PROVE  TypeOK'
<1>1. ProcOf[r] \in Proc
  BY RunAssumption
<1>2. inflight' \in [Proc -> SUBSET Op] /\ UNCHANGED session
  BY <1>1 DEF TypeOK, RunPlanSaves, RunAttachSaves, RunCompleteSaves, RunBlockSaves,
              RunDenied, RunBlockLost, RunSaves, Release
<1>3. holder' \in [Proc -> Run \cup {Client, Nobody}]
  <2>1. UNCHANGED holder \/ Leave(ProcOf[r])
    BY DEF RunPlanSaves, RunAttachSaves, RunCompleteSaves, RunBlockSaves,
           RunDenied, RunBlockLost
  <2> QED  BY <1>1, <2>1 DEF Leave, TypeOK
<1>4. row' \in [Task -> Row] /\ granted' \subseteq Task
  <2>1. \/ \E o \in inflight[ProcOf[r]] : Write(o)
        \/ UNCHANGED <<row, granted>>
    BY DEF RunPlanSaves, RunAttachSaves, RunCompleteSaves, RunBlockSaves,
           RunDenied, RunBlockLost, RunSaves
  <2> QED  BY <1>1, <2>1, WriteTyped DEF TypeOK
<1>5. run' \in [Run -> RunState]
  <2>1. \/ UNCHANGED run
        \/ \E pc \in RunPC : Goto(r, pc)
        \/ \E res \in Result : Finish(r, res)
    BY DEF RunPlanSaves, RunAttachSaves, RunCompleteSaves, RunBlockSaves,
           RunDenied, RunBlockLost, BlockResult, RunPC, Result
  <2> QED  BY <2>1, RunMoveTyped DEF TypeOK
<1> QED  BY <1>2, <1>3, <1>4, <1>5 DEF TypeOK

(* The steps between operations: they leave the database alone. *)
LEMMA RunMoveStepTyped ==
  ASSUME TypeOK, NEW r \in Run,
         \/ RunPlanRefused(r) \/ RunReloads(r) \/ RunSubagentsReturn(r)
         \/ RunSynthesises(r) \/ RunSynthesisReturns(r) \/ RunRaises(r)
  PROVE  TypeOK'
<1>1. ProcOf[r] \in Proc /\ TaskOf[r] \in Task
  BY RunAssumption
<1>2. UNCHANGED <<row, session, inflight, granted>>
  BY DEF RunPlanRefused, RunReloads, RunSubagentsReturn, RunSynthesises,
         RunSynthesisReturns, RunRaises
<1>3. holder' \in [Proc -> Run \cup {Client, Nobody}]
  <2>1. UNCHANGED holder \/ Leave(ProcOf[r]) \/ Enter(ProcOf[r], r)
    BY DEF RunPlanRefused, RunReloads, RunSubagentsReturn, RunSynthesises,
           RunSynthesisReturns, RunRaises
  <2> QED  BY <1>1, <2>1 DEF Leave, Enter, TypeOK
<1>4. run' \in [Run -> RunState]
  <2>1. CASE \E pc \in RunPC : Goto(r, pc)
    BY <2>1, RunMoveTyped
  <2>2. CASE RunReloads(r)
    <3>1. row[TaskOf[r]].plan \subseteq Subtask
      BY <1>1 DEF TypeOK, Row
    <3> DEFINE new == [pc |-> "work", todo |-> row[TaskOf[r]].plan,
                       files |-> row[TaskOf[r]].plan, result |-> "none"]
    <3>2. new \in RunState
      BY <3>1 DEF RunState, RunPC, Artifact, Result
    <3>3. run' = [run EXCEPT ![r] = new]
      BY <2>2 DEF RunReloads
    <3> QED  BY <3>2, <3>3 DEF TypeOK
  <2>3. CASE run' = [run EXCEPT ![r].pc = "complete", ![r].files = @ \cup {Summary}]
    BY <2>3 DEF TypeOK, RunState, RunPC, Artifact
  <2>4. RunReloads(r) \/ (\E pc \in RunPC : Goto(r, pc))
          \/ run' = [run EXCEPT ![r].pc = "complete", ![r].files = @ \cup {Summary}]
    BY DEF RunPlanRefused, RunSubagentsReturn, RunSynthesises,
           RunSynthesisReturns, RunRaises, RunPC
  <2> QED  BY <2>1, <2>2, <2>3, <2>4
<1> QED  BY <1>2, <1>3, <1>4 DEF TypeOK

-----------------------------------------------------------------------------
(* Every reachable state is typed: the invariant TypeOK of the runs, for   *)
(* any number of processes and runs.                                       *)
THEOREM TypeCorrect == Spec => []TypeOK
<1>1. Init => TypeOK
  BY DEF Init, TypeOK, AbsentRow, Row, Ended, RunState, RunPC, Result
<1>2. TypeOK /\ [Next]_vars => TypeOK'
  <2> SUFFICES ASSUME TypeOK, [Next]_vars PROVE TypeOK'
    OBVIOUS
  <2>1. CASE ClientStep
    BY <2>1, ClientTyped
  <2>2. ASSUME NEW p \in Proc, ClientEnd(p) \/ Crash(p) PROVE TypeOK'
    BY <2>2, ClientEndTyped, CrashTyped
  <2>3. ASSUME NEW r \in Run, StartRun(r) \/ RunStep(r) PROVE TypeOK'
    BY <2>3, StartRunTyped, RunLoadTyped, RunSaveTyped, RunMoveStepTyped DEF RunStep
  <2>4. CASE UNCHANGED vars
    BY <2>4 DEF vars, TypeOK
  <2> QED  BY <2>1, <2>2, <2>3, <2>4 DEF Next
<1> QED  BY <1>1, <1>2, PTL DEF Spec

-----------------------------------------------------------------------------
(* The approval gate.  NoPreapproval is what the chair's prompt asks for:  *)
(* its JSON schema has no status, and the parser defaults to "proposed".   *)

NoPreapproval == PlannerStatus \cap RunnableStatus = {}

(* Holding a row that is approved, or grants, keeps held rows approved. *)
LEMMA HoldApproved ==
  ASSUME TypeOK, HeldApproved,
         NEW p \in Proc, NEW t \in Task, NEW new \in Row, NEW grants \in BOOLEAN,
         \/ Hold(p, t, new, grants)
         \/ HoldPlan(p, t, new) /\ ~grants,
         UNCHANGED granted,
         new.status \in RunnableStatus => grants \/ t \in granted
  PROVE  HeldApproved'
BY DEF TypeOK, HeldApproved, Hold, HoldPlan, Holds

(* Saving a held row keeps the table approved, and grants are never undone. *)
LEMMA WriteApproved ==
  ASSUME TypeOK, RowsApproved, HeldApproved, NEW p \in Proc,
         \E o \in inflight[p] : Write(o)
  PROVE  RowsApproved' /\ granted \subseteq granted'
BY DEF TypeOK, RowsApproved, HeldApproved, Write, Op

(* Dropping or saving what a process holds keeps the others approved. *)
LEMMA ReleaseApproved ==
  ASSUME TypeOK, HeldApproved, NEW p \in Proc, Release(p), granted \subseteq granted'
  PROVE  HeldApproved'
BY DEF TypeOK, HeldApproved, Release

(* A run that enters no working step keeps what runs rely on. *)
LEMMA MoveApproved ==
  ASSUME TypeOK, RunsApproved, granted \subseteq granted', NEW r \in Run,
         \/ UNCHANGED run
         \/ \E pc \in RunPC :
              /\ Goto(r, pc)
              /\ pc \in WorkPC \cup {"plan"} => TaskOf[r] \in granted
         \/ \E res \in Result :
              /\ Finish(r, res)
              /\ res = "completed" => TaskOf[r] \in granted
  PROVE  RunsApproved'
<1>1. CASE UNCHANGED run
  BY <1>1 DEF RunsApproved
<1>2. CASE \E pc \in RunPC : Goto(r, pc) /\ (pc \in WorkPC \cup {"plan"} => TaskOf[r] \in granted)
  BY <1>2 DEF RunsApproved, Goto, TypeOK, RunState
<1>3. CASE \E res \in Result : Finish(r, res) /\ (res = "completed" => TaskOf[r] \in granted)
  BY <1>3 DEF RunsApproved, Finish, Ended, WorkPC, TypeOK
<1> QED  BY <1>1, <1>2, <1>3

(* A request holds a runnable row only if it loaded one or asks for it. *)
LEMMA ClientApproved ==
  ASSUME TypeOK, ApprovalInv, NoPreapproval, ClientStep
  PROVE  ApprovalInv'
<1> USE RunAssumption
<1>1. ASSUME NEW p \in Proc, NEW t \in Task, BoardSavesSession(p, t)
      PROVE  ApprovalInv'
  <2>1. PICK r \in PlannedRow : session' = [session EXCEPT ![t] = r] /\ HoldPlan(p, t, r)
    BY <1>1 DEF BoardSavesSession
  <2>2. r \in Row /\ r.status \notin RunnableStatus
    BY PlannedRowTyped DEF NoPreapproval, PlannedRow
  <2>3. HeldApproved'
    BY <1>1, <2>1, <2>2, HoldApproved DEF ApprovalInv, BoardSavesSession
  <2>4. SessionsUnapproved'
    BY <2>1, <2>2 DEF ApprovalInv, SessionsUnapproved, TypeOK
  <2> QED  BY <1>1, <2>3, <2>4 DEF ApprovalInv, BoardSavesSession, RowsApproved, RunsApproved
<1>3. ASSUME NEW p \in Proc, NEW t \in Task, BoardDropsPlan(p, t)
      PROVE  ApprovalInv'
  <2>1. SessionsUnapproved'
    BY <1>3 DEF ApprovalInv, SessionsUnapproved, BoardDropsPlan, TypeOK, AbsentRow, RunnableStatus
  <2> QED  BY <1>3, <2>1 DEF ApprovalInv, BoardDropsPlan, RowsApproved, HeldApproved, RunsApproved
<1>2. ASSUME NEW p \in Proc, NEW t \in Task,
             \/ ClientGetsPlan(p, t) \/ ClientApproves(p, t)
             \/ ClientApprovesExternal(p, t) \/ ClientPlans(p, t)
             \/ ClientSetsStatus(p, t) \/ ClientAttaches(p, t)
      PROVE  ApprovalInv'
  <2>1. row[t] \in Row /\ session[t] \in Row
    BY DEF TypeOK
  <2>2. /\ row[t].status \in RunnableStatus => t \in granted
        /\ session[t].status \notin RunnableStatus
    BY DEF ApprovalInv, RowsApproved, SessionsUnapproved
  <2>3. \E new \in Row, grants \in BOOLEAN :
          /\ Hold(p, t, new, grants)
          /\ new.status \in RunnableStatus => grants \/ t \in granted
    <3>1. CASE ClientGetsPlan(p, t)
      BY <2>1, <2>2, <3>1 DEF ClientGetsPlan
    <3>2. CASE ClientApproves(p, t)
      <4>1. PICK ok \in BOOLEAN : Hold(p, t, ApproveRow(row[t], ok), ok)
        BY <3>2 DEF ClientApproves
      <4>2. ApproveRow(row[t], ok) \in Row
        BY <2>1, OperationsTyped
      <4>3. ApproveRow(row[t], ok).status = IF ok THEN "approved" ELSE "rejected"
        BY <2>1 DEF ApproveRow, Row
      <4> QED  BY <4>1, <4>2, <4>3 DEF RunnableStatus
    <3>3. CASE ClientApprovesExternal(p, t)
      <4>1. \A ok \in BOOLEAN : ApproveExternalRow(row[t], ok).status = row[t].status
        BY <2>1 DEF ApproveExternalRow, Row
      <4> QED  BY <2>1, <2>2, <3>3, <4>1, OperationsTyped DEF ClientApprovesExternal
    <3>4. CASE ClientPlans(p, t)
      BY <2>1, <2>2, <3>4, OperationsTyped DEF ClientPlans, CanPlan, RunnableStatus
    <3>5. CASE ClientSetsStatus(p, t)
      <4>1. PICK s \in Status, new \in SUBSET {Note} :
              CanSetStatus(row[t], s) /\ Hold(p, t, StatusRow(row[t], s, new), s = "approved")
        BY <3>5 DEF ClientSetsStatus
      <4>2. StatusRow(row[t], s, new) \in Row
        BY <2>1, <4>1, OperationsTyped DEF Artifact
      <4>3. StatusRow(row[t], s, new).status = s
        BY <2>1 DEF StatusRow, Row
      <4> QED  BY <2>2, <4>1, <4>2, <4>3 DEF CanSetStatus, RunnableStatus
    <3>6. CASE ClientAttaches(p, t)
      <4>1. AttachRow(row[t], Note).status = row[t].status
        BY <2>1 DEF AttachRow, Row
      <4> QED  BY <2>1, <2>2, <3>6, <4>1, OperationsTyped DEF ClientAttaches, Artifact
    <3> QED  BY <1>2, <3>1, <3>2, <3>3, <3>4, <3>5, <3>6
  <2>4. UNCHANGED <<row, session, run, granted>>
    BY <1>2 DEF ClientGetsPlan, ClientApproves, ClientApprovesExternal,
                ClientPlans, ClientSetsStatus, ClientAttaches
  <2>5. HeldApproved'
    BY <2>3, <2>4, HoldApproved DEF ApprovalInv
  <2> QED  BY <2>4, <2>5 DEF ApprovalInv, RowsApproved, SessionsUnapproved, RunsApproved
<1> QED  BY <1>1, <1>2, <1>3 DEF ClientStep

(* A request saves a runnable row only under a grant. *)
LEMMA ClientEndApproved ==
  ASSUME TypeOK, ApprovalInv, NEW p \in Proc, ClientEnd(p)
  PROVE  ApprovalInv'
<1>1. RowsApproved' /\ granted \subseteq granted'
  BY WriteApproved DEF ApprovalInv, ClientEnd, ClientSaves, ClientDenied, RowsApproved
<1>2. HeldApproved'
  BY <1>1, ReleaseApproved DEF ApprovalInv, ClientEnd, ClientSaves, ClientDenied
<1>3. UNCHANGED <<session, run>>
  BY DEF ClientEnd, ClientSaves, ClientDenied
<1> QED  BY <1>1, <1>2, <1>3 DEF ApprovalInv, SessionsUnapproved, RunsApproved

(* A death only forgets held rows and runs. *)
LEMMA CrashApproved ==
  ASSUME TypeOK, ApprovalInv, NEW p \in Proc, Crash(p)
  PROVE  ApprovalInv'
<1>1. HeldApproved'
  BY DEF Crash, ApprovalInv, HeldApproved, TypeOK
<1>2. RunsApproved'
  BY DEF Crash, ApprovalInv, RunsApproved, Ended, WorkPC, TypeOK
<1> QED  BY <1>1, <1>2 DEF Crash, ApprovalInv, RowsApproved, SessionsUnapproved

(* run_task goes on only from a runnable, hence granted, row. *)
LEMMA StartRunApproved ==
  ASSUME TypeOK, ApprovalInv, NEW r \in Run, StartRun(r)
  PROVE  ApprovalInv'
<1>1. TaskOf[r] \in Task
  BY RunAssumption
<1>2. \/ \E res \in Result : Finish(r, res) /\ res # "completed"
      \/ \E pc \in RunPC :
           /\ Goto(r, pc)
           /\ pc \in WorkPC \cup {"plan"} => TaskOf[r] \in granted
  BY <1>1 DEF StartRun, StartPC, ApprovalInv, RowsApproved, Result, RunPC, WorkPC
<1>3. RunsApproved'
  BY <1>2, MoveApproved DEF ApprovalInv, StartRun
<1> QED  BY <1>3 DEF StartRun, ApprovalInv, RowsApproved, SessionsUnapproved, HeldApproved

(* A run holds a runnable row only for a granted task. *)
LEMMA RunLoadApproved ==
  ASSUME TypeOK, ApprovalInv, NEW r \in Run,
         RunPlanLoads(r) \/ RunAttachLoads(r) \/ RunCompleteLoads(r) \/ RunBlockLoads(r)
  PROVE  ApprovalInv'
<1>1. ProcOf[r] \in Proc /\ TaskOf[r] \in Task
  BY RunAssumption
<1>2. row[TaskOf[r]] \in Row /\ run[r] \in RunState
  BY <1>1 DEF TypeOK
<1>3. row[TaskOf[r]].status \in RunnableStatus => TaskOf[r] \in granted
  BY <1>1 DEF ApprovalInv, RowsApproved
<1>4. \E new \in Row :
        /\ RunLoads(r, new)
        /\ new.status \in RunnableStatus => TaskOf[r] \in granted
  <2>1. CASE RunPlanLoads(r)
    BY <1>2, <1>3, <2>1, OperationsTyped DEF RunPlanLoads, CanPlan, RunnableStatus
  <2>2. CASE RunAttachLoads(r)
    <3>1. PICK s \in run[r].todo : RunLoads(r, AttachRow(row[TaskOf[r]], s))
      BY <2>2 DEF RunAttachLoads
    <3>2. s \in Artifact
      BY <1>2, <3>1 DEF RunState, Artifact
    <3>3. AttachRow(row[TaskOf[r]], s).status = row[TaskOf[r]].status
      BY <1>2 DEF AttachRow, Row
    <3> QED  BY <1>2, <1>3, <3>1, <3>2, <3>3, OperationsTyped
  <2>3. ASSUME NEW s \in {"completed", "blocked"}, NEW new \in SUBSET Artifact,
               RunLoads(r, StatusRow(row[TaskOf[r]], s, new))
        PROVE  \E n \in Row : RunLoads(r, n) /\ n.status \notin RunnableStatus
    <3>1. StatusRow(row[TaskOf[r]], s, new) \in Row
      BY <1>2, OperationsTyped DEF Status
    <3>2. StatusRow(row[TaskOf[r]], s, new).status = s
      BY <1>2 DEF StatusRow, Row
    <3> QED  BY <2>3, <3>1, <3>2 DEF RunnableStatus
  <2>4. CASE RunCompleteLoads(r)
    BY <1>2, <2>3, <2>4 DEF RunCompleteLoads, RunState
  <2>5. CASE RunBlockLoads(r)
    BY <2>3, <2>5 DEF RunBlockLoads
  <2> QED  BY <2>1, <2>2, <2>4, <2>5
<1>5. HeldApproved'
  BY <1>1, <1>4, HoldApproved DEF RunLoads, ApprovalInv
<1>6. RunsApproved'
  <2>1. UNCHANGED run \/ \E s \in Subtask : run' = [run EXCEPT ![r].todo = @ \ {s}]
    BY <1>2 DEF RunPlanLoads, RunAttachLoads, RunCompleteLoads, RunBlockLoads, RunState
  <2>2. \A q \in Run : run'[q].pc = run[q].pc /\ run'[q].result = run[q].result
    BY <2>1 DEF TypeOK, RunState
  <2> QED  BY <1>4, <2>2 DEF RunLoads, ApprovalInv, RunsApproved
<1> QED  BY <1>4, <1>5, <1>6 DEF RunLoads, ApprovalInv, RowsApproved, SessionsUnapproved

(* A run saves a runnable row only for a granted task. *)
LEMMA RunSaveApproved ==
  ASSUME TypeOK, ApprovalInv, NEW r \in Run,
         \/ RunPlanSaves(r) \/ RunAttachSaves(r) \/ RunCompleteSaves(r)
         \/ RunBlockSaves(r) \/ RunDenied(r) \/ RunBlockLost(r)
  PROVE  ApprovalInv'
<1>1. ProcOf[r] \in Proc
  BY RunAssumption
<1>2. /\ Release(ProcOf[r]) /\ UNCHANGED session
      /\ (\E o \in inflight[ProcOf[r]] : Write(o)) \/ UNCHANGED <<row, granted>>
  BY DEF RunPlanSaves, RunAttachSaves, RunCompleteSaves, RunBlockSaves,
         RunDenied, RunBlockLost, RunSaves
<1>3. RowsApproved' /\ granted \subseteq granted'
  BY <1>1, <1>2, WriteApproved DEF ApprovalInv, RowsApproved
<1>4. HeldApproved'
  BY <1>1, <1>2, <1>3, ReleaseApproved DEF ApprovalInv
<1>5. RunsApproved'
  <2>1. run[r].pc \in {"plan", "complete"} => TaskOf[r] \in granted
    BY DEF ApprovalInv, RunsApproved, WorkPC
  <2>2. \/ UNCHANGED run
        \/ \E pc \in RunPC : Goto(r, pc) /\ (pc \in WorkPC \cup {"plan"} => TaskOf[r] \in granted)
        \/ \E res \in Result : Finish(r, res) /\ (res = "completed" => TaskOf[r] \in granted)
    BY <2>1 DEF RunPlanSaves, RunAttachSaves, RunCompleteSaves, RunBlockSaves,
                RunDenied, RunBlockLost, RunSaves, BlockResult, RunPC, Result, WorkPC
  <2> QED  BY <1>3, <2>2, MoveApproved DEF ApprovalInv
<1> QED  BY <1>2, <1>3, <1>4, <1>5 DEF ApprovalInv, SessionsUnapproved

(* A step of a run that leaves the store alone keeps the invariant. *)
LEMMA RunMoveApproved ==
  ASSUME TypeOK, ApprovalInv, NEW r \in Run,
         \/ RunPlanRefused(r) \/ RunReloads(r) \/ RunSubagentsReturn(r)
         \/ RunSynthesises(r) \/ RunSynthesisReturns(r) \/ RunRaises(r)
  PROVE  ApprovalInv'
<1>1. UNCHANGED <<row, session, inflight, granted>>
  BY DEF RunPlanRefused, RunReloads, RunSubagentsReturn, RunSynthesises,
         RunSynthesisReturns, RunRaises
<1>2. RunsApproved'
  <2>1. run[r].pc \in WorkPC => TaskOf[r] \in granted
    BY DEF ApprovalInv, RunsApproved
  <2>2. CASE RunPlanRefused(r) \/ RunSubagentsReturn(r) \/ RunSynthesises(r) \/ RunRaises(r)
    <3>1. \E pc \in RunPC : Goto(r, pc) /\ (pc \in WorkPC \cup {"plan"} => TaskOf[r] \in granted)
      BY <2>1, <2>2 DEF RunPlanRefused, RunSubagentsReturn, RunSynthesises, RunRaises,
                        Ready, RunPC, WorkPC
    <3> QED  BY <1>1, <3>1, MoveApproved DEF ApprovalInv
  <2>3. CASE RunReloads(r) \/ RunSynthesisReturns(r)
    <3>1. run[r].pc \in WorkPC
      BY <2>3 DEF RunReloads, RunSynthesisReturns, Ready, WorkPC
    <3>2. \A q \in Run \ {r} : run'[q] = run[q]
      BY <2>3 DEF RunReloads, RunSynthesisReturns, Goto, TypeOK
    <3> QED  BY <1>1, <2>1, <3>1, <3>2 DEF ApprovalInv, RunsApproved
  <2> QED  BY <2>2, <2>3
<1> QED  BY <1>1, <1>2 DEF ApprovalInv, RowsApproved, SessionsUnapproved, HeldApproved

(* ApprovalInv is invariant, whatever the processes, their crashes and the *)
(* hooks' denials, unless the chair itself may write a runnable status.    *)
THEOREM ApprovalInvariant ==
  ASSUME NoPreapproval
  PROVE  Spec => []ApprovalInv
<1>1. Init => ApprovalInv
  BY DEF Init, ApprovalInv, RowsApproved, SessionsUnapproved, HeldApproved,
         RunsApproved, AbsentRow, Ended, RunnableStatus, WorkPC
<1>2. TypeOK /\ ApprovalInv /\ [Next]_vars => ApprovalInv'
  <2> SUFFICES ASSUME TypeOK, ApprovalInv, [Next]_vars PROVE ApprovalInv'
    OBVIOUS
  <2>1. CASE ClientStep
    BY <2>1, ClientApproved
  <2>2. ASSUME NEW p \in Proc, ClientEnd(p) \/ Crash(p) PROVE ApprovalInv'
    BY <2>2, ClientEndApproved, CrashApproved
  <2>3. ASSUME NEW r \in Run, StartRun(r) \/ RunStep(r) PROVE ApprovalInv'
    BY <2>3, StartRunApproved, RunLoadApproved, RunSaveApproved, RunMoveApproved
       DEF RunStep
  <2>4. CASE UNCHANGED vars
    BY <2>4 DEF vars, ApprovalInv, RowsApproved, SessionsUnapproved,
                HeldApproved, RunsApproved
  <2> QED  BY <2>1, <2>2, <2>3, <2>4 DEF Next
<1> QED  BY <1>1, <1>2, TypeCorrect, PTL DEF Spec

(* The approval gate: no run works on a task that no client approved.      *)
THEOREM ApprovalGate ==
  ASSUME NoPreapproval
  PROVE  Spec => []ApprovalBeforeWork
<1>1. ApprovalInv => ApprovalBeforeWork
  BY DEF ApprovalInv, RunsApproved, ApprovalBeforeWork
<1> QED  BY <1>1, ApprovalInvariant, PTL

-----------------------------------------------------------------------------
(* One process.  The event loop makes the two connections of a store       *)
(* operation one: between a load and its save nothing else touches a row.  *)

OneProcess == \A p, q \in Proc : p = q

(* The program points at which a run has the event loop: it goes on to its *)
(* next await without giving it up.  At the other live points it awaits    *)
(* its sub-agents or the synthesis.                                        *)
LoopPC == {"plan", "reload", "attach", "complete", "block", "fail"}
LivePC == LoopPC \cup {"work", "synth"}

(* What one operation of the store may make of a row (TaskStore's actions). *)
StoreMakes(r, new) ==
  \/ CanApprove(r) /\ \E ok \in BOOLEAN : new = ApproveRow(r, ok)
  \/ CanApproveExternal(r) /\ \E ok \in BOOLEAN : new = ApproveExternalRow(r, ok)
  \/ CanPlan(r) /\ \E subtasks \in SUBSET Subtask : new = PlanRow(r, subtasks)
  \/ \E s \in Status, arts \in SUBSET Artifact :
       CanSetStatus(r, s) /\ new = StatusRow(r, s, arts)
  \/ Exists(r) /\ \E a \in Artifact : new = AttachRow(r, a)

(* What an operation that is held will do: record the plan of the session  *)
(* file, which is new or has no row, or what the store makes of the row    *)
(* that is in the table.                                                   *)
Records(o) == Exists(o.row) /\ o.row = session[o.task] /\ (o.anew \/ ~Exists(row[o.task]))
Updates(o) == ~o.anew /\ StoreMakes(row[o.task], o.row)

Startable(r) == r.status \in RunnableStatus /\ ExternalCleared(r)

(* An operation is held only by who has the loop; a run has it exactly at  *)
(* its loop points.                                                        *)
HeldInLoop == \A p \in Proc : inflight[p] # {} => holder[p] # Nobody
HeldOne == \A p \in Proc : \A o, q \in inflight[p] : o = q
RunsHoldLoop ==
  \A r \in Run : run[r].pc \in LoopPC <=> holder[ProcOf[r]] = r

(* What is held was made of the row that is still in the table, or is the  *)
(* plan that is still in the session's file.                               *)
HeldCurrent ==
  \A p \in Proc : \A o \in inflight[p] : Records(o) \/ Updates(o)

SessionsPlanned ==
  \A t \in Task : session[t] \in PlannedRow \cup {AbsentRow}

(* A live run has a row, and at its planning points a startable one. *)
RunsHaveRows ==
  \A r \in Run : run[r].pc \in LivePC => Exists(row[TaskOf[r]])
PlansStartable ==
  \A r \in Run : run[r].pc \in {"plan", "reload"} => Startable(row[TaskOf[r]])
PlansHeld ==
  \A r \in Run : run[r].pc = "plan" =>
    \A o \in inflight[ProcOf[r]] :
      o.task = TaskOf[r] /\ o.row = PlanRow(row[TaskOf[r]], Subtask)

AtomicInv ==
  /\ HeldInLoop /\ HeldOne /\ RunsHoldLoop /\ HeldCurrent /\ SessionsPlanned
  /\ RunsHaveRows /\ PlansStartable /\ PlansHeld

(* An operation leaves a row of the table where one was. *)
LEMMA MakesRow ==
  ASSUME NEW r \in Row, NEW new, StoreMakes(r, new)
  PROVE  new \in Row /\ Exists(new)
<1>2. CASE CanApprove(r) /\ \E ok \in BOOLEAN : new = ApproveRow(r, ok)
  BY <1>2 DEF ApproveRow, Row, Status, Exists
<1>3. CASE CanApproveExternal(r) /\ \E ok \in BOOLEAN : new = ApproveExternalRow(r, ok)
  BY <1>3 DEF CanApproveExternal, ApproveExternalRow, Row, Exists
<1>4. CASE CanPlan(r) /\ \E subtasks \in SUBSET Subtask : new = PlanRow(r, subtasks)
  BY <1>4 DEF PlanRow, Row, Status, Exists
<1>5. CASE \E s \in Status, arts \in SUBSET Artifact :
             CanSetStatus(r, s) /\ new = StatusRow(r, s, arts)
  BY <1>5 DEF StatusRow, Row, Status, Exists
<1>6. CASE Exists(r) /\ \E a \in Artifact : new = AttachRow(r, a)
  BY <1>6 DEF AttachRow, Row, Exists
<1> QED  BY <1>2, <1>3, <1>4, <1>5, <1>6 DEF StoreMakes

(* What is due is what is held anew, and with one process one is held.      *)
DueIn(held) == {t \in Task : \E p \in Proc : \E o \in held[p] : o.anew /\ o.task = t}

LEMMA DueHeld ==
  ASSUME OneProcess, NEW held, NEW p \in Proc
  PROVE  /\ held[p] = {} => DueIn(held) = {}
         /\ \A o \in held[p] : o.task \in Task /\ (\A q \in held[p] : q = o)
              => DueIn(held) = IF o.anew THEN {o.task} ELSE {}
<1>1. \A q \in Proc : q = p
  BY DEF OneProcess
<1>2. ASSUME held[p] = {} PROVE DueIn(held) = {}
  BY <1>1, <1>2 DEF DueIn
<1>3. ASSUME NEW o \in held[p], o.task \in Task, \A q \in held[p] : q = o
      PROVE  DueIn(held) = IF o.anew THEN {o.task} ELSE {}
  <2>1. CASE o.anew
    <3>1. DueIn(held) = {o.task}
      BY <1>1, <1>3, <2>1 DEF DueIn
    <3> QED  BY <2>1, <3>1
  <2>2. CASE ~o.anew
    <3>1. DueIn(held) = {}
      BY <1>1, <1>3, <2>2 DEF DueIn
    <3> QED  BY <2>2, <3>1
  <2> QED  BY <2>1, <2>2
<1> QED  BY <1>2, <1>3

StoreStill == UNCHANGED <<row, session, Due>>

(* Writing what an operation makes of the current row is a step of the     *)
(* abstract store.                                                         *)
LEMMA StoreStep ==
  ASSUME NEW t \in Task, NEW new, StoreMakes(row[t], new),
         row' = [row EXCEPT ![t] = new], UNCHANGED <<session, Due>>
  PROVE  Store!Next
<1>2. CASE CanApprove(row[t]) /\ \E ok \in BOOLEAN : new = ApproveRow(row[t], ok)
  <2>1. Store!Approve(t)
    BY <1>2 DEF Store!Approve, Store!Put, CanApprove, Store!CanApprove,
                 ApproveRow, Store!ApproveRow
  <2> QED  BY <2>1 DEF Store!Next
<1>3. CASE /\ CanApproveExternal(row[t])
           /\ \E ok \in BOOLEAN : new = ApproveExternalRow(row[t], ok)
  <2>1. Store!ApproveExternal(t)
    BY <1>3 DEF Store!ApproveExternal, Store!Put, CanApproveExternal, Exists,
                 Store!CanApproveExternal, Store!Exists, ApproveExternalRow, Store!ApproveExternalRow
  <2> QED  BY <2>1 DEF Store!Next
<1>4. CASE CanPlan(row[t]) /\ \E subtasks \in SUBSET Subtask : new = PlanRow(row[t], subtasks)
  <2>1. Store!Plan(t)
    BY <1>4 DEF Store!Plan, Store!Put, CanPlan, Store!CanPlan, PlanRow, Store!PlanRow
  <2> QED  BY <2>1 DEF Store!Next
<1>5. CASE \E s \in Status, arts \in SUBSET Artifact :
             CanSetStatus(row[t], s) /\ new = StatusRow(row[t], s, arts)
  <2>1. Store!SetStatus(t)
    BY <1>5 DEF Store!SetStatus, Store!Put, CanSetStatus, Exists, Status, Artifact, StatusRow,
        Store!CanSetStatus, Store!Exists, Store!Status, Store!Artifact, Store!StatusRow
  <2> QED  BY <2>1 DEF Store!Next
<1>6. CASE Exists(row[t]) /\ \E a \in Artifact : new = AttachRow(row[t], a)
  <2>1. Store!Attach(t)
    BY <1>6 DEF Store!Attach, Store!Put, Exists, Artifact, AttachRow,
                 Store!Exists, Store!Artifact, Store!AttachRow
  <2> QED  BY <2>1 DEF Store!Next
<1> QED  BY <1>2, <1>3, <1>4, <1>5, <1>6 DEF StoreMakes

(* A request's first half: it takes a free loop and holds one operation,   *)
(* on the row in the table or with the plan it has just published.         *)
RequestLoads(p, o) ==
  /\ Enter(p, Client)
  /\ Holds(p, o) /\ o.task \in Task
  /\ (Records(o) \/ Updates(o))'
  /\ SessionsPlanned'
  /\ \/ ~o.anew /\ UNCHANGED session
     \/ o.anew /\ \E r \in PlannedRow : session' = [session EXCEPT ![o.task] = r]
  /\ UNCHANGED <<row, run>>

LEMMA ClientLoads ==
  ASSUME TypeOK, AtomicInv, ClientStep
  PROVE  \/ \E p \in Proc : \E o : RequestLoads(p, o)
         \/ \E p \in Proc, t \in Task : BoardDropsPlan(p, t)
<1> USE RunAssumption
<1>1. ASSUME NEW p \in Proc, NEW t \in Task, BoardSavesSession(p, t)
      PROVE  \E o : RequestLoads(p, o)
  <2>1. PICK r \in PlannedRow : session' = [session EXCEPT ![t] = r] /\ HoldPlan(p, t, r)
    BY <1>1 DEF BoardSavesSession
  <2>2. PICK o : o = [task |-> t, row |-> r, grants |-> FALSE, anew |-> TRUE]
    OBVIOUS
  <2>3. Exists(r)
    BY PlannerAssumption DEF PlannedRow, Exists, Status
  <2>4. SessionsPlanned'
    BY <2>1 DEF TypeOK, AtomicInv, SessionsPlanned
  <2>5. session'[t] = r
    BY <2>1 DEF TypeOK
  <2>6. Records(o)'
    BY <2>2, <2>3, <2>5 DEF Records
  <2>7. Holds(p, o) /\ o.task = t /\ o.anew
    BY <2>1, <2>2 DEF HoldPlan
  <2>8. RequestLoads(p, o)
    BY <1>1, <2>1, <2>4, <2>6, <2>7 DEF RequestLoads, BoardSavesSession
  <2> QED  BY <2>8
<1>2. ASSUME NEW p \in Proc, NEW t \in Task,
             \/ ClientGetsPlan(p, t) \/ ClientApproves(p, t)
             \/ ClientApprovesExternal(p, t) \/ ClientPlans(p, t)
             \/ ClientSetsStatus(p, t) \/ ClientAttaches(p, t)
      PROVE  \E o : RequestLoads(p, o)
  <2>1. Enter(p, Client) /\ UNCHANGED <<row, session, run, granted>>
    BY <1>2 DEF ClientGetsPlan, ClientApproves, ClientApprovesExternal,
                ClientPlans, ClientSetsStatus, ClientAttaches
  <2>2. SessionsPlanned'
    BY <2>1 DEF AtomicInv, SessionsPlanned
  <2>3. \E new, grants :
          /\ Hold(p, t, new, grants)
          /\ \/ Exists(new) /\ new = session[t] /\ ~Exists(row[t])
             \/ StoreMakes(row[t], new)
    <3>1. CASE ClientGetsPlan(p, t)
      BY <3>1 DEF ClientGetsPlan
    <3>2. CASE ClientApproves(p, t)
      BY <3>2 DEF ClientApproves, StoreMakes
    <3>3. CASE ClientApprovesExternal(p, t)
      BY <3>3 DEF ClientApprovesExternal, StoreMakes
    <3>4. CASE ClientPlans(p, t)
      BY <3>4 DEF ClientPlans, StoreMakes
    <3>5. CASE ClientSetsStatus(p, t)
      <4>1. PICK s \in Status, arts \in SUBSET {Note} :
              CanSetStatus(row[t], s) /\ Hold(p, t, StatusRow(row[t], s, arts), s = "approved")
        BY <3>5 DEF ClientSetsStatus
      <4>2. StoreMakes(row[t], StatusRow(row[t], s, arts))
        BY <4>1 DEF StoreMakes, Artifact
      <4> QED  BY <4>1, <4>2
    <3>6. CASE ClientAttaches(p, t)
      BY <3>6 DEF ClientAttaches, StoreMakes, Artifact
    <3> QED  BY <1>2, <3>1, <3>2, <3>3, <3>4, <3>5, <3>6
  <2>4. PICK new, grants :
          /\ Hold(p, t, new, grants)
          /\ \/ Exists(new) /\ new = session[t] /\ ~Exists(row[t])
             \/ StoreMakes(row[t], new)
    BY <2>3
  <2>5. PICK o : o = [task |-> t, row |-> new, grants |-> grants, anew |-> FALSE]
    OBVIOUS
  <2>6. Holds(p, o) /\ o.task = t /\ o.row = new /\ ~o.anew
    BY <2>4, <2>5 DEF Hold
  <2>7. (Records(o) \/ Updates(o))'
    BY <2>1, <2>4, <2>6 DEF Records, Updates
  <2>8. RequestLoads(p, o)
    BY <2>1, <2>2, <2>6, <2>7 DEF RequestLoads
  <2> QED  BY <2>8
<1> QED  BY <1>1, <1>2 DEF ClientStep

(* A request that loads keeps the invariant: it held nothing before, and   *)
(* no run is at a loop point while the loop is free.  A new plan is        *)
(* published to the abstract store, every other operation is not seen.     *)
LEMMA ClientKeeps ==
  ASSUME OneProcess, TypeOK, AtomicInv, ClientStep
  PROVE  AtomicInv' /\ (Store!Next \/ StoreStill)
<1> USE RunAssumption
<1>1. ASSUME NEW p \in Proc, NEW t \in Task, BoardDropsPlan(p, t)
      PROVE  AtomicInv' /\ Store!Next
  <2>1. /\ UNCHANGED <<row, holder, inflight, run>>
        /\ session' = [session EXCEPT ![t] = AbsentRow]
        /\ \A q \in Proc : inflight[q] = {}
    BY <1>1 DEF BoardDropsPlan, AtomicInv, HeldInLoop, OneProcess
  <2>2. HeldInLoop' /\ HeldOne' /\ RunsHoldLoop' /\ HeldCurrent'
    BY <2>1 DEF AtomicInv, HeldInLoop, HeldOne, RunsHoldLoop, HeldCurrent
  <2>3. SessionsPlanned'
    BY <2>1 DEF AtomicInv, SessionsPlanned, TypeOK
  <2>4. RunsHaveRows' /\ PlansStartable' /\ PlansHeld'
    BY <2>1 DEF AtomicInv, RunsHaveRows, PlansStartable, PlansHeld
  <2>5. Due' = Due
    BY <2>1 DEF Due
  <2>6. Store!Withdraw(t)
    BY <2>1, <2>5 DEF Store!Withdraw, AbsentRow, Store!AbsentRow
  <2> QED  BY <2>2, <2>3, <2>4, <2>6 DEF AtomicInv, Store!Next
<1>2. ASSUME NEW p \in Proc, NEW o, RequestLoads(p, o)
      PROVE  AtomicInv' /\ (Store!Next \/ StoreStill)
  <2>1. /\ inflight'[p] = {o} /\ o.task \in Task
        /\ \A q \in Proc : q = p
        /\ holder[p] = Nobody /\ holder'[p] = Client
        /\ UNCHANGED <<row, run>>
    BY <1>2 DEF TypeOK, Holds, Enter, OneProcess, RequestLoads
  <2>2. inflight[p] = {} /\ \A r \in Run : run[r].pc \notin LoopPC
    BY <2>1 DEF AtomicInv, HeldInLoop, RunsHoldLoop
  <2>3. HeldInLoop' /\ HeldOne' /\ RunsHoldLoop'
    BY <2>1, <2>2 DEF HeldInLoop, HeldOne, RunsHoldLoop
  <2>4. HeldCurrent'
    BY <1>2, <2>1 DEF HeldCurrent, RequestLoads
  <2>5. RunsHaveRows' /\ PlansStartable' /\ PlansHeld'
    BY <2>1, <2>2 DEF AtomicInv, RunsHaveRows, PlansStartable, PlansHeld, LoopPC
  <2>6. Due = {} /\ Due' = IF o.anew THEN {o.task} ELSE {}
    <3>1. DueIn(inflight) = {}
      BY <2>2, DueHeld
    <3>2. DueIn(inflight') = IF o.anew THEN {o.task} ELSE {}
      BY <2>1, DueHeld
    <3> QED  BY <3>1, <3>2 DEF Due, DueIn
  <2>7. CASE ~o.anew
    <3>1. UNCHANGED session
      BY <1>2, <2>7 DEF RequestLoads
    <3>2. StoreStill
      BY <2>1, <2>6, <2>7, <3>1 DEF StoreStill
    <3> QED  BY <1>2, <2>3, <2>4, <2>5, <3>2 DEF AtomicInv, RequestLoads
  <2>8. CASE o.anew
    <3>1. PICK r \in PlannedRow : session' = [session EXCEPT ![o.task] = r]
      BY <1>2, <2>8 DEF RequestLoads
    <3>2. Store!Publish(o.task)
      BY <2>1, <2>6, <2>8, <3>1 DEF Store!Publish, PlannedRow, Store!PlannedRow
    <3> QED  BY <1>2, <2>1, <2>3, <2>4, <2>5, <3>2 DEF AtomicInv, RequestLoads, Store!Next
  <2> QED  BY <2>7, <2>8
<1> QED  BY <1>1, <1>2, ClientLoads

(* A save is one operation on the current row, and keeps every row. *)
LEMMA WriteMakes ==
  ASSUME OneProcess, TypeOK, AtomicInv, NEW p \in Proc, \E o \in inflight[p] : Write(o),
         Release(p), UNCHANGED session
  PROVE  Store!Next /\ \A t \in Task : Exists(row[t]) => Exists(row'[t])
<1>1. PICK o \in inflight[p] : Write(o)
  OBVIOUS
<1>2. o.task \in Task /\ row[o.task] \in Row /\ row' = [row EXCEPT ![o.task] = o.row]
  <2>1. o \in Op
    BY <1>1 DEF TypeOK
  <2>2. o.task \in Task
    BY <2>1 DEF Op
  <2> QED  BY <1>1, <2>2 DEF TypeOK, Write
<1>3. Due = (IF o.anew THEN {o.task} ELSE {}) /\ Due' = {}
  <2>1. DueIn(inflight) = IF o.anew THEN {o.task} ELSE {}
    BY <1>1, <1>2, DueHeld DEF AtomicInv, HeldOne
  <2>2. inflight'[p] = {}
    BY DEF Release, TypeOK
  <2>3. DueIn(inflight') = {}
    BY <2>2, DueHeld
  <2> QED  BY <2>1, <2>3 DEF Due, DueIn
<1>4. CASE Records(o)
  <2>1. Exists(session[o.task]) /\ row' = [row EXCEPT ![o.task] = session[o.task]]
        /\ (o.anew \/ ~Exists(row[o.task]))
    BY <1>2, <1>4 DEF Records
  <2>2. Due' = Due \ {o.task} /\ (o.task \in Due \/ ~Exists(row[o.task]))
    BY <1>3, <2>1
  <2>3. Store!Record(o.task)
    BY <2>1, <2>2 DEF Store!Record, Exists, Store!Exists
  <2>4. \A t \in Task : row'[t] = IF t = o.task THEN session[o.task] ELSE row[t]
    BY <2>1 DEF TypeOK
  <2> QED  BY <1>2, <2>1, <2>3, <2>4 DEF Store!Next
<1>5. CASE Updates(o)
  <2>1. ~o.anew /\ StoreMakes(row[o.task], o.row)
    BY <1>5 DEF Updates
  <2>2. UNCHANGED <<session, Due>>
    BY <1>3, <2>1
  <2>3. Store!Next
    BY <1>2, <2>1, <2>2, StoreStep
  <2>4. Exists(o.row)
    BY <1>2, <2>1, MakesRow
  <2>5. \A t \in Task : row'[t] = IF t = o.task THEN o.row ELSE row[t]
    BY <1>2 DEF TypeOK
  <2> QED  BY <2>3, <2>4, <2>5
<1> QED  BY <1>1, <1>4, <1>5 DEF AtomicInv, HeldCurrent

(* What is dropped without a save is forgotten, if it was a new plan. *)
LEMMA DropMakes ==
  ASSUME OneProcess, TypeOK, AtomicInv, NEW p \in Proc, inflight'[p] = {},
         UNCHANGED <<row, session>>
  PROVE  Store!Next \/ StoreStill
<1>1. Due' = {}
  <2>1. DueIn(inflight') = {}
    BY DueHeld
  <2> QED  BY <2>1 DEF Due, DueIn
<1>2. CASE Due = {}
  BY <1>1, <1>2 DEF StoreStill
<1>3. CASE Due # {}
  <2>1. PICK o \in inflight[p] : TRUE
    <3>1. inflight[p] = {} => DueIn(inflight) = {}
      BY DueHeld
    <3> QED  BY <1>3, <3>1 DEF Due, DueIn
  <2>2. o.task \in Task
    <3>1. o \in Op
      BY <2>1 DEF TypeOK
    <3> QED  BY <3>1 DEF Op
  <2>3. DueIn(inflight) = IF o.anew THEN {o.task} ELSE {}
    BY <2>1, <2>2, DueHeld DEF AtomicInv, HeldOne
  <2>4. Due' = Due \ {o.task}
    BY <1>1, <2>3 DEF Due, DueIn
  <2>5. Store!Forget(o.task)
    BY <2>4 DEF Store!Forget
  <2> QED  BY <2>2, <2>5 DEF Store!Next
<1> QED  BY <1>2, <1>3

(* The steps that let an operation go: what they keep whatever the loop's  *)
(* holder does next.                                                       *)
LEMMA ReleaseKeeps ==
  ASSUME OneProcess, TypeOK, AtomicInv, NEW p \in Proc, Release(p), UNCHANGED session,
         (\E o \in inflight[p] : Write(o)) \/ UNCHANGED row
  PROVE  /\ HeldInLoop' /\ HeldOne' /\ HeldCurrent' /\ SessionsPlanned' /\ PlansHeld'
         /\ Store!Next \/ StoreStill
         /\ \A t \in Task : Exists(row[t]) => Exists(row'[t])
<1>1. \A q \in Proc : inflight'[q] = {}
  BY DEF TypeOK, Release, OneProcess
<1>2. /\ Store!Next \/ StoreStill
      /\ \A t \in Task : Exists(row[t]) => Exists(row'[t])
  <2>1. CASE UNCHANGED row
    BY <1>1, <2>1, DropMakes
  <2>2. CASE \E o \in inflight[p] : Write(o)
    BY <2>2, WriteMakes
  <2> QED  BY <2>1, <2>2
<1>3. HeldInLoop' /\ HeldOne' /\ HeldCurrent' /\ PlansHeld'
  BY <1>1, RunAssumption DEF HeldInLoop, HeldOne, HeldCurrent, PlansHeld
<1>4. SessionsPlanned'
  BY DEF AtomicInv, SessionsPlanned
<1> QED  BY <1>2, <1>3, <1>4

(* A request that saves, or is denied, keeps the invariant. *)
LEMMA ClientEndKeeps ==
  ASSUME OneProcess, TypeOK, AtomicInv, NEW p \in Proc, ClientEnd(p)
  PROVE  AtomicInv' /\ (Store!Next \/ StoreStill)
<1> USE RunAssumption
<1>1. /\ Release(p) /\ Leave(p) /\ UNCHANGED <<session, run>> /\ holder[p] = Client
      /\ (\E o \in inflight[p] : Write(o)) \/ UNCHANGED row
  BY DEF ClientEnd, ClientSaves, ClientDenied
<1>2. \A q \in Proc : q = p /\ holder'[q] = Nobody
  BY <1>1 DEF OneProcess, Leave, TypeOK
<1>3. \A r \in Run : run[r].pc \notin LoopPC
  BY <1>1, <1>2 DEF AtomicInv, RunsHoldLoop
<1>4. RunsHoldLoop'
  BY <1>1, <1>2, <1>3 DEF RunsHoldLoop
<1>5. RunsHaveRows' /\ PlansStartable'
  BY <1>1, <1>3, ReleaseKeeps DEF AtomicInv, RunsHaveRows, PlansStartable, LoopPC
<1> QED  BY <1>1, <1>4, <1>5, ReleaseKeeps DEF AtomicInv

(* A death ends every live run and drops what was held. *)
LEMMA CrashKeeps ==
  ASSUME OneProcess, TypeOK, AtomicInv, NEW p \in Proc, Crash(p)
  PROVE  AtomicInv' /\ (Store!Next \/ StoreStill)
<1> USE RunAssumption
<1>1. /\ \A q \in Proc : q = p /\ holder'[q] = Nobody /\ inflight'[q] = {}
      /\ UNCHANGED <<row, session>>
  BY DEF Crash, OneProcess, TypeOK
<1>2. \A r \in Run : run'[r].pc \notin LivePC
  BY <1>1 DEF Crash, Ended, LivePC, LoopPC
<1>3. HeldInLoop' /\ HeldOne' /\ RunsHoldLoop' /\ HeldCurrent' /\ PlansHeld'
  BY <1>1, <1>2 DEF HeldInLoop, HeldOne, RunsHoldLoop, HeldCurrent, PlansHeld, LivePC
<1>4. SessionsPlanned' /\ (Store!Next \/ StoreStill)
  BY <1>1, DropMakes DEF AtomicInv, SessionsPlanned
<1>5. RunsHaveRows' /\ PlansStartable'
  BY <1>2 DEF RunsHaveRows, PlansStartable, LivePC, LoopPC
<1> QED  BY <1>1, <1>3, <1>4, <1>5 DEF AtomicInv

(* run_task takes the loop only on a row it found. *)
LEMMA StartRunKeeps ==
  ASSUME OneProcess, TypeOK, AtomicInv, NEW r \in Run, StartRun(r)
  PROVE  AtomicInv' /\ StoreStill
<1> USE RunAssumption
<1>1. ProcOf[r] \in Proc /\ TaskOf[r] \in Task /\ run[r] \in RunState
      /\ UNCHANGED <<row, session, inflight>>
  BY DEF StartRun, TypeOK
<1>2. /\ \A q \in Proc : q = ProcOf[r] /\ holder[q] = Nobody /\ inflight[q] = {}
      /\ \A q \in Run : run[q].pc \notin LoopPC
  BY <1>1 DEF StartRun, OneProcess, AtomicInv, HeldInLoop, RunsHoldLoop
<1>3. \A q \in Run \ {r} : run'[q] = run[q]
  BY DEF StartRun, Finish, Goto, TypeOK
<1>4. \/ run'[r].pc = "done" /\ UNCHANGED holder
      \/ /\ run'[r].pc = StartPC(row[TaskOf[r]])
         /\ row[TaskOf[r]].status \in RunnableStatus
         /\ Enter(ProcOf[r], r)
  BY <1>1 DEF StartRun, Finish, Goto, Ended, TypeOK, RunState
<1>5. HeldInLoop' /\ HeldOne' /\ HeldCurrent' /\ PlansHeld'
  BY <1>1, <1>2 DEF HeldInLoop, HeldOne, HeldCurrent, PlansHeld
<1>6. RunsHoldLoop'
  <2>1. CASE run'[r].pc = "done" /\ UNCHANGED holder
    BY <1>2, <1>3, <2>1 DEF RunsHoldLoop, LoopPC
  <2>2. CASE run'[r].pc = StartPC(row[TaskOf[r]]) /\ Enter(ProcOf[r], r)
    <3>1. \A q \in Proc : holder'[q] = r
      BY <1>1, <1>2, <2>2 DEF Enter, TypeOK
    <3> QED  BY <1>2, <1>3, <2>2, <3>1 DEF RunsHoldLoop, LoopPC, StartPC
  <2> QED  BY <1>4, <2>1, <2>2
<1>7. RunsHaveRows'
  BY <1>1, <1>3, <1>4 DEF AtomicInv, RunsHaveRows, LivePC, LoopPC, Exists, RunnableStatus
<1>8. PlansStartable'
  BY <1>1, <1>2, <1>3, <1>4 DEF PlansStartable, LoopPC, Startable, StartPC
<1>9. SessionsPlanned' /\ StoreStill
  BY <1>1 DEF AtomicInv, SessionsPlanned, StoreStill, Due
<1> QED  BY <1>1, <1>5, <1>6, <1>7, <1>8, <1>9 DEF AtomicInv

(* A run that loads holds what one operation makes of its task's row. *)
LEMMA RunLoadKeeps ==
  ASSUME OneProcess, TypeOK, AtomicInv, NEW r \in Run,
         RunPlanLoads(r) \/ RunAttachLoads(r) \/ RunCompleteLoads(r) \/ RunBlockLoads(r)
  PROVE  AtomicInv' /\ StoreStill
<1> USE RunAssumption
<1>1. ProcOf[r] \in Proc /\ TaskOf[r] \in Task /\ run[r] \in RunState
      /\ row[TaskOf[r]] \in Row
  BY DEF TypeOK
<1>2. run[r].pc \in LoopPC /\ holder[ProcOf[r]] = r /\ inflight[ProcOf[r]] = {}
  BY DEF RunPlanLoads, RunAttachLoads, RunCompleteLoads, RunBlockLoads, Ready, LoopPC
<1>3. Exists(row[TaskOf[r]])
  BY <1>1, <1>2 DEF AtomicInv, RunsHaveRows, LivePC
<1>4. /\ \E new : /\ RunLoads(r, new)
                  /\ StoreMakes(row[TaskOf[r]], new)
                  /\ run[r].pc = "plan" => new = PlanRow(row[TaskOf[r]], Subtask)
      /\ \A q \in Run : run'[q].pc = run[q].pc
  <2>1. CASE RunPlanLoads(r)
    <3>1. StoreMakes(row[TaskOf[r]], PlanRow(row[TaskOf[r]], Subtask))
      BY <2>1 DEF RunPlanLoads, StoreMakes
    <3> QED  BY <2>1, <3>1 DEF RunPlanLoads
  <2>2. CASE RunAttachLoads(r)
    <3>1. PICK s \in run[r].todo :
            /\ RunLoads(r, AttachRow(row[TaskOf[r]], s))
            /\ run' = [run EXCEPT ![r].todo = @ \ {s}]
      BY <2>2 DEF RunAttachLoads
    <3>2. s \in Artifact
      BY <1>1, <3>1 DEF RunState, Artifact
    <3>3. StoreMakes(row[TaskOf[r]], AttachRow(row[TaskOf[r]], s))
      BY <1>3, <3>2 DEF StoreMakes
    <3>4. \A q \in Run : run'[q].pc = run[q].pc
      BY <3>1 DEF TypeOK, RunState
    <3>5. run[r].pc # "plan"
      BY <2>2 DEF RunAttachLoads, Ready
    <3> QED  BY <3>1, <3>3, <3>4, <3>5
  <2>3. CASE RunCompleteLoads(r)
    <3>1. run[r].files \in SUBSET Artifact
      BY <1>1 DEF RunState
    <3>2. CanSetStatus(row[TaskOf[r]], "completed")
      BY <1>3 DEF CanSetStatus
    <3>3. StoreMakes(row[TaskOf[r]], StatusRow(row[TaskOf[r]], "completed", run[r].files))
      BY <3>1, <3>2 DEF StoreMakes, Status
    <3> QED  BY <2>3, <3>3 DEF RunCompleteLoads, Ready
  <2>4. CASE RunBlockLoads(r)
    <3>1. CanSetStatus(row[TaskOf[r]], "blocked")
      BY <1>3 DEF CanSetStatus
    <3>2. StoreMakes(row[TaskOf[r]], StatusRow(row[TaskOf[r]], "blocked", {}))
      BY <3>1 DEF StoreMakes, Status
    <3> QED  BY <2>4, <3>2 DEF RunBlockLoads, Ready
  <2> QED  BY <2>1, <2>2, <2>3, <2>4
<1>5. PICK new : /\ RunLoads(r, new)
                 /\ StoreMakes(row[TaskOf[r]], new)
                 /\ run[r].pc = "plan" => new = PlanRow(row[TaskOf[r]], Subtask)
  BY <1>4
<1>a. PICK o : o = [task |-> TaskOf[r], row |-> new, grants |-> FALSE, anew |-> FALSE]
  OBVIOUS
<1>6. /\ UNCHANGED <<row, session, holder>>
      /\ inflight'[ProcOf[r]] = {o} /\ o.task = TaskOf[r] /\ o.row = new /\ ~o.anew
      /\ \A q \in Proc : q = ProcOf[r]
  BY <1>1, <1>5, <1>a DEF RunLoads, Hold, Holds, TypeOK, OneProcess
<1>7. HeldInLoop' /\ RunsHoldLoop'
  <2>1. r # Nobody
    OBVIOUS
  <2>2. HeldInLoop'
    BY <1>1, <1>2, <1>6, <2>1, RunAssumption DEF HeldInLoop
  <2>3. RunsHoldLoop'
    BY <1>4, <1>6 DEF AtomicInv, RunsHoldLoop
  <2> QED  BY <2>2, <2>3
<1>8. HeldCurrent' /\ HeldOne' /\ SessionsPlanned'
  <2>1. Updates(o)'
    BY <1>1, <1>5, <1>6 DEF Updates
  <2> QED  BY <1>6, <2>1 DEF AtomicInv, HeldCurrent, HeldOne, SessionsPlanned
<1>b. StoreStill
  <2>1. DueIn(inflight) = {} /\ DueIn(inflight') = {}
    BY <1>1, <1>2, <1>6, DueHeld
  <2> QED  BY <1>6, <2>1 DEF StoreStill, Due, DueIn
<1>9. RunsHaveRows' /\ PlansStartable'
  BY <1>4, <1>6 DEF AtomicInv, RunsHaveRows, PlansStartable
<1>10. PlansHeld'
  <2>1. \A q \in Run : run[q].pc \in LoopPC => q = r
    BY <1>2, <1>6 DEF AtomicInv, RunsHoldLoop
  <2>2. \A q \in Run : run'[q].pc = "plan" => q = r
    BY <1>4, <2>1 DEF LoopPC
  <2> QED  BY <1>4, <1>5, <1>6, <2>2 DEF PlansHeld
<1> QED  BY <1>b, <1>7, <1>8, <1>9, <1>10 DEF AtomicInv

(* What a run that saves, or is denied, or gives up, may go on to. *)
LEMMA RunSaveKeeps ==
  ASSUME OneProcess, TypeOK, AtomicInv, NEW r \in Run,
         \/ RunPlanSaves(r) \/ RunAttachSaves(r) \/ RunCompleteSaves(r)
         \/ RunBlockSaves(r) \/ RunDenied(r) \/ RunBlockLost(r)
  PROVE  AtomicInv' /\ (Store!Next \/ StoreStill)
<1> USE RunAssumption
<1>1. ProcOf[r] \in Proc /\ TaskOf[r] \in Task /\ run[r] \in RunState
      /\ row[TaskOf[r]] \in Row
  BY DEF TypeOK
<1>2. /\ Release(ProcOf[r]) /\ UNCHANGED session /\ holder[ProcOf[r]] = r
      /\ (\E o \in inflight[ProcOf[r]] : Write(o)) \/ UNCHANGED row
  BY DEF RunPlanSaves, RunAttachSaves, RunCompleteSaves, RunBlockSaves,
         RunDenied, RunBlockLost, RunSaves
<1>3. /\ run[r].pc \in LoopPC
      /\ \A q \in Run \ {r} : run'[q] = run[q] /\ run[q].pc \notin LoopPC
  <2>1. run[r].pc \in LoopPC
    BY <1>2 DEF AtomicInv, RunsHoldLoop
  <2>2. \A q \in Run \ {r} : run'[q] = run[q]
    BY DEF RunPlanSaves, RunAttachSaves, RunCompleteSaves, RunBlockSaves,
           RunDenied, RunBlockLost, Goto, Finish, TypeOK
  <2>3. \A q \in Run \ {r} : run[q].pc \notin LoopPC
    BY <1>1, <1>2 DEF AtomicInv, RunsHoldLoop, OneProcess
  <2> QED  BY <2>1, <2>2, <2>3
<1>4. \/ /\ run'[r].pc = "reload" /\ UNCHANGED holder
         /\ run[r].pc = "plan" /\ \E o \in inflight[ProcOf[r]] : Write(o)
      \/ run'[r].pc = "attach" /\ UNCHANGED holder
      \/ run'[r].pc = "block" /\ UNCHANGED holder
      \/ run'[r].pc = "done" /\ Leave(ProcOf[r])
  BY <1>1 DEF RunPlanSaves, RunAttachSaves, RunCompleteSaves, RunBlockSaves,
         RunDenied, RunBlockLost, RunSaves, Goto, Finish, Ended, TypeOK, RunState
<1>5. RunsHoldLoop'
  <2>1. CASE UNCHANGED holder /\ run'[r].pc \in LoopPC
    BY <1>2, <1>3, <2>1 DEF AtomicInv, RunsHoldLoop
  <2>2. CASE Leave(ProcOf[r]) /\ run'[r].pc = "done"
    <3>1. \A q \in Proc : holder'[q] = Nobody
      BY <1>1, <2>2 DEF Leave, TypeOK, OneProcess
    <3> QED  BY <1>3, <2>2, <3>1 DEF RunsHoldLoop, LoopPC
  <2> QED  BY <1>4, <2>1, <2>2 DEF LoopPC
<1>6. /\ HeldInLoop' /\ HeldOne' /\ HeldCurrent' /\ SessionsPlanned' /\ PlansHeld'
      /\ Store!Next \/ StoreStill
      /\ \A t \in Task : Exists(row[t]) => Exists(row'[t])
  BY <1>1, <1>2, ReleaseKeeps
<1>7. RunsHaveRows'
  <2>1. \A q \in Run : run'[q].pc \in LivePC => run[q].pc \in LivePC
    BY <1>3 DEF LivePC
  <2> QED  BY <1>6, <2>1 DEF AtomicInv, RunsHaveRows
<1>8. PlansStartable'
  <2>1. \A q \in Run : run'[q].pc \in {"plan", "reload"} => q = r /\ run'[r].pc = "reload"
    BY <1>3, <1>4 DEF LoopPC
  <2>2. ASSUME run'[r].pc = "reload" PROVE Startable(row'[TaskOf[r]])
    <3>1. run[r].pc = "plan" /\ \E o \in inflight[ProcOf[r]] : Write(o)
      BY <1>4, <2>2 DEF Leave
    <3>2. PICK o \in inflight[ProcOf[r]] : Write(o)
      BY <3>1
    <3>3. o.task = TaskOf[r] /\ o.row = PlanRow(row[TaskOf[r]], Subtask)
      BY <3>1, <3>2 DEF AtomicInv, PlansHeld
    <3>4. row'[TaskOf[r]] = PlanRow(row[TaskOf[r]], Subtask)
      BY <1>1, <3>2, <3>3 DEF Write, TypeOK
    <3>5. Startable(row[TaskOf[r]])
      BY <3>1 DEF AtomicInv, PlansStartable
    <3> QED  BY <1>1, <3>4, <3>5 DEF PlanRow, Startable, ExternalCleared, RunnableStatus, Row
  <2> QED  BY <2>1, <2>2 DEF PlansStartable
<1> QED  BY <1>5, <1>6, <1>7, <1>8 DEF AtomicInv

(* A run gives the loop up only for an await, and takes it again after. *)
LEMMA RunMoveKeeps ==
  ASSUME OneProcess, TypeOK, AtomicInv, NEW r \in Run,
         \/ RunPlanRefused(r) \/ RunReloads(r) \/ RunSubagentsReturn(r)
         \/ RunSynthesises(r) \/ RunSynthesisReturns(r) \/ RunRaises(r)
  PROVE  AtomicInv' /\ StoreStill
<1> USE RunAssumption
<1>1. ProcOf[r] \in Proc /\ TaskOf[r] \in Task /\ run[r] \in RunState
      /\ UNCHANGED <<row, session, inflight>>
  BY DEF TypeOK, RunPlanRefused, RunReloads, RunSubagentsReturn, RunSynthesises,
         RunSynthesisReturns, RunRaises
<1>2. run[r].pc \in LivePC /\ \A q \in Run \ {r} : run'[q] = run[q]
  BY DEF RunPlanRefused, RunReloads, RunSubagentsReturn, RunSynthesises,
         RunSynthesisReturns, RunRaises, Ready, Goto, TypeOK, LivePC, LoopPC
<1>3. inflight[ProcOf[r]] = {}
      /\ (holder[ProcOf[r]] = r \/ holder[ProcOf[r]] = Nobody)
  BY <1>1 DEF RunPlanRefused, RunReloads, RunSubagentsReturn, RunSynthesises,
         RunSynthesisReturns, RunRaises, Ready, Enter, AtomicInv, HeldInLoop
<1>4. \A q \in Proc : q = ProcOf[r] /\ inflight[q] = {}
  BY <1>1, <1>3 DEF OneProcess
<1>5. \A q \in Run \ {r} : run[q].pc \notin LoopPC
  BY <1>3, <1>4 DEF AtomicInv, RunsHoldLoop
<1>6. \/ run'[r].pc \in LoopPC \ {"plan", "reload"} /\ holder'[ProcOf[r]] = r
      \/ run'[r].pc \in {"work", "synth"} /\ holder'[ProcOf[r]] = Nobody
  <2>1. CASE RunPlanRefused(r) \/ RunRaises(r)
    BY <1>1, <2>1 DEF RunPlanRefused, RunRaises, Ready, Goto, TypeOK, RunState, LoopPC
  <2>2. CASE RunReloads(r) \/ RunSynthesises(r)
    BY <1>1, <2>2 DEF RunReloads, RunSynthesises, Ready, Goto, Leave, TypeOK, RunState
  <2>3. CASE RunSubagentsReturn(r) \/ RunSynthesisReturns(r)
    BY <1>1, <2>3 DEF RunSubagentsReturn, RunSynthesisReturns, Goto, Enter, TypeOK,
         RunState, LoopPC
  <2> QED  BY <2>1, <2>2, <2>3
<1>7. RunsHoldLoop'
  BY <1>1, <1>2, <1>4, <1>5, <1>6 DEF RunsHoldLoop, LoopPC
<1>8. HeldInLoop' /\ HeldOne' /\ HeldCurrent' /\ PlansHeld'
  BY <1>1, <1>4 DEF HeldInLoop, HeldOne, HeldCurrent, PlansHeld
<1>9. SessionsPlanned' /\ StoreStill
  BY <1>1 DEF AtomicInv, SessionsPlanned, StoreStill, Due
<1>10. RunsHaveRows'
  BY <1>1, <1>2 DEF AtomicInv, RunsHaveRows
<1>11. PlansStartable'
  BY <1>2, <1>5, <1>6 DEF PlansStartable, LoopPC
<1> QED  BY <1>1, <1>7, <1>8, <1>9, <1>10, <1>11 DEF AtomicInv

(* With one process AtomicInv holds for ever, and every step is a step of  *)
(* the abstract store or leaves it alone.                                  *)
LEMMA AtomicStep ==
  ASSUME OneProcess, TypeOK, AtomicInv, [Next]_vars
  PROVE  AtomicInv' /\ (Store!Next \/ StoreStill)
<1>1. CASE ClientStep
  BY <1>1, ClientKeeps
<1>2. ASSUME NEW p \in Proc, ClientEnd(p) \/ Crash(p)
      PROVE  AtomicInv' /\ (Store!Next \/ StoreStill)
  BY <1>2, ClientEndKeeps, CrashKeeps
<1>3. ASSUME NEW r \in Run, StartRun(r) \/ RunStep(r)
      PROVE  AtomicInv' /\ (Store!Next \/ StoreStill)
  BY <1>3, StartRunKeeps, RunLoadKeeps, RunSaveKeeps, RunMoveKeeps DEF RunStep
<1>4. CASE UNCHANGED vars
  BY <1>4 DEF vars, AtomicInv, HeldInLoop, HeldOne, RunsHoldLoop, HeldCurrent, SessionsPlanned,
       Records, Updates, RunsHaveRows, PlansStartable, PlansHeld, StoreStill, Due
<1> QED  BY <1>1, <1>2, <1>3, <1>4 DEF Next

LEMMA AtomicInit == Init => AtomicInv /\ Store!Init
<1> SUFFICES ASSUME Init PROVE AtomicInv /\ Store!Init
  OBVIOUS
<1> USE RunAssumption
<1>1. HeldInLoop /\ HeldOne /\ HeldCurrent /\ SessionsPlanned
  BY DEF Init, HeldInLoop, HeldOne, HeldCurrent, SessionsPlanned, AbsentRow
<1>2. RunsHoldLoop /\ RunsHaveRows /\ PlansStartable /\ PlansHeld
  BY DEF Init, RunsHoldLoop, RunsHaveRows, PlansStartable, PlansHeld, Ended, LivePC, LoopPC
<1>3. Store!Init
  BY DEF Init, Store!Init, Due, AbsentRow, Store!AbsentRow
<1> QED  BY <1>1, <1>2, <1>3 DEF AtomicInv

LEMMA AtomicInvariant ==
  ASSUME OneProcess
  PROVE  Spec => []AtomicInv
<1>1. TypeOK /\ AtomicInv /\ [Next]_vars => AtomicInv'
  BY AtomicStep
<1> QED  BY <1>1, AtomicInit, TypeCorrect, PTL DEF Spec

(* With one process the store is atomic: every save applies one operation  *)
(* of tasks.py to the row it replaces, whatever the requests, the runs,    *)
(* the hooks' denials and the crashes do, and a row starts over only from  *)
(* the plan of a deliberation that has just ended.                         *)
THEOREM StoreRefined ==
  ASSUME OneProcess
  PROVE  Spec => RefinesStore
<1>1. TypeOK /\ AtomicInv /\ [Next]_vars => [Store!Next]_(Store!storeVars)
  BY AtomicStep DEF StoreStill, Store!storeVars
<1> QED  BY <1>1, AtomicInit, AtomicInvariant, TypeCorrect, PTL
         DEF Spec, RefinesStore, Store!Spec

(* With one process no sub-agent starts on a row that a request has        *)
(* meanwhile rejected, finished, or whose external action it withdrew.     *)
THEOREM StartsCleared ==
  ASSUME OneProcess
  PROVE  Spec => []WorkStartsCleared
<1>1. AtomicInv => WorkStartsCleared
  BY DEF AtomicInv, PlansStartable, Startable, WorkStartsCleared
<1> QED  BY <1>1, AtomicInvariant, PTL
=====
