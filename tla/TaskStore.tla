------------------------------ MODULE TaskStore ------------------------------
(***************************************************************************)
(* What the delegated-task store promises to its callers: every operation  *)
(* takes effect on the current row, at one instant, and a row starts over  *)
(* only from the plan of a deliberation that has just ended.  No           *)
(* acknowledged write is lost otherwise.                                   *)
(***************************************************************************)
EXTENDS TaskRows

VARIABLES
  row,     \* the delegated_tasks table
  plan,    \* the plans in the session files
  due      \* tasks whose plan the deliberation that made it has yet to record

storeVars == <<row, plan, due>>

Init ==
  /\ row = [t \in Task |-> AbsentRow] /\ plan = [t \in Task |-> AbsentRow]
  /\ due = {}

(* A deliberation ends, with a plan or without. *)
Publish(t) ==
  /\ \E r \in PlannedRow : plan' = [plan EXCEPT ![t] = r]
  /\ due' = due \cup {t} /\ UNCHANGED row
Withdraw(t) == plan' = [plan EXCEPT ![t] = AbsentRow] /\ UNCHANGED <<row, due>>

(* What was due is denied, or dies with its process. *)
Forget(t) == due' = due \ {t} /\ UNCHANGED <<row, plan>>

(* A plan that is not due is recorded only where there is no row. *)
Record(t) ==
  /\ Exists(plan[t]) /\ (t \in due \/ ~Exists(row[t]))
  /\ row' = [row EXCEPT ![t] = plan[t]]
  /\ due' = due \ {t} /\ UNCHANGED plan

Put(t, r) == row' = [row EXCEPT ![t] = r] /\ UNCHANGED <<plan, due>>

Approve(t) ==
  /\ CanApprove(row[t])
  /\ \E ok \in BOOLEAN : Put(t, ApproveRow(row[t], ok))

ApproveExternal(t) ==
  /\ CanApproveExternal(row[t])
  /\ \E ok \in BOOLEAN : Put(t, ApproveExternalRow(row[t], ok))

Plan(t) ==
  /\ CanPlan(row[t])
  /\ \E subtasks \in SUBSET Subtask : Put(t, PlanRow(row[t], subtasks))

SetStatus(t) ==
  \E s \in Status, new \in SUBSET Artifact :
    /\ CanSetStatus(row[t], s)
    /\ Put(t, StatusRow(row[t], s, new))

Attach(t) ==
  /\ Exists(row[t])
  /\ \E a \in Artifact : Put(t, AttachRow(row[t], a))

Next ==
  \E t \in Task :
    \/ Publish(t) \/ Withdraw(t) \/ Forget(t)
    \/ Record(t) \/ Approve(t) \/ ApproveExternal(t)
    \/ Plan(t) \/ SetStatus(t) \/ Attach(t)

Spec == Init /\ [][Next]_storeVars
=============================================================================
