------------------------------- MODULE TaskRows -------------------------------
(***************************************************************************)
(* The payload of one row of the delegated_tasks table                     *)
(* (server/execution/tasks.py) and what each store operation makes of it.  *)
(*                                                                         *)
(* Titles, objectives, agents and timestamps are abstracted: a row keeps   *)
(* the fields on which the operations and the runner decide.  Every row    *)
(* names a known manager agent (_normalize_delegated_task resolves it), so *)
(* a request that names another manager is an error that changes nothing   *)
(* and is not represented.                                                 *)
(***************************************************************************)

CONSTANTS
  Task,           \* task ids
  Subtask,        \* ids of the subtasks of the manager's default plan
  Summary,        \* the manager's _summary.md
  Note,           \* an artifact that an API client attaches itself
  PlannerStatus,  \* statuses the chair's delegation JSON may carry
  PlannerExtReq,  \* external_action_required values that JSON may carry
  PlannerExtOk    \* and those of external_action_approved

(* tasks.py TASK_STATUSES; "absent" stands for a row that does not exist. *)
Status == {"proposed", "approved", "running", "completed", "blocked", "rejected"}

(* runner.py _RUNNABLE_STATUSES: what run_task agrees to execute. *)
RunnableStatus == {"approved", "running"}

Artifact == Subtask \cup {Summary, Note}

Row == [status : Status \cup {"absent"},
        plan   : SUBSET Subtask,
        extReq : BOOLEAN,
        extOk  : BOOLEAN,
        arts   : SUBSET Artifact]

AbsentRow == [status |-> "absent", plan |-> {}, extReq |-> FALSE,
              extOk |-> FALSE, arts |-> {}]

Exists(r) == r.status # "absent"

ASSUME PlannerAssumption ==
  /\ PlannerStatus \subseteq Status
  /\ PlannerExtReq \subseteq BOOLEAN /\ PlannerExtOk \subseteq BOOLEAN

(* Rows that parse_delegation_plan can produce from the chair's JSON. *)
PlannedRow == [status : PlannerStatus, plan : {{}}, extReq : PlannerExtReq,
               extOk : PlannerExtOk, arts : {{}}]

-----------------------------------------------------------------------------
(* The operations: when the loaded row is accepted, and what is saved.     *)

(* A definition marked "Slip" is a plausible mistake in the definition      *)
(* after it, which the properties are shown to catch (PROJECT.json,        *)
(* "mutants"); the specifications do not use it.                           *)

(* Slip: a rejection is stored under a word of its own. *)
ApproveRowDeclined(r, ok) ==
  [r EXCEPT !.status = IF ok THEN "approved" ELSE "declined"]

CanApprove(r) == r.status \in {"proposed", "approved", "rejected"}
ApproveRow(r, ok) == [r EXCEPT !.status = IF ok THEN "approved" ELSE "rejected"]

CanApproveExternal(r) == Exists(r) /\ r.extReq
ApproveExternalRow(r, ok) == [r EXCEPT !.extOk = ok]

(* Slip: any existing task can be planned. *)
CanPlanExisting(r) == Exists(r)
CanPlan(r) == r.status \in {"approved", "running"}
PlanRow(r, subtasks) == [r EXCEPT !.plan = subtasks, !.status = "running"]

CanSetStatus(r, s) ==
  /\ Exists(r)
  /\ s = "running" => r.status \in {"approved", "running"}
StatusRow(r, s, new) == [r EXCEPT !.status = s, !.arts = @ \cup new]

AttachRow(r, a) == [r EXCEPT !.arts = @ \cup {a}]

(* run_task's external-action refusal, evaluated on the row it loaded. *)
ExternalCleared(r) == r.extReq => r.extOk
=============================================================================
