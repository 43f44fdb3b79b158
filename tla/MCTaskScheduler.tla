---------------------------- MODULE MCTaskScheduler ----------------------------
(* Small instances of TaskScheduler for TLC. *)
EXTENDS TaskScheduler, TLC

CONSTANTS ta, tb, v1

(* Two tasks of one venture, the second depending on the first or not. *)
MCVentureOf == (ta :> v1) @@ (tb :> v1)
MCDeps == (ta :> {}) @@ (tb :> {ta})
NoDeps == (ta :> {}) @@ (tb :> {})
MCRank == (ta :> 1) @@ (tb :> 2)

(* Ids of task_runs rows are interchangeable. *)
RunSymmetry == Permutations(RunId)
=============================================================================
