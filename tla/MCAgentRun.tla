------------------------------ MODULE MCAgentRun ------------------------------
(* Small instances of AgentRun for TLC. *)
EXTENDS AgentRun, TLC

(* The subtasks of a plan are interchangeable when all of them have tools. *)
SubtaskSymmetry == Permutations(Subtask)
=============================================================================
