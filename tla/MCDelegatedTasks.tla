--------------------------- MODULE MCDelegatedTasks ---------------------------
(* Small instances of DelegatedTasks for TLC. *)
EXTENDS DelegatedTasks, TLC

CONSTANTS t1, r1, r2, api, cli, s1, s2

(* Two runs of one task, both in the API server. *)
OneProcProcOf == (r1 :> api) @@ (r2 :> api)
OneTaskOf == (r1 :> t1) @@ (r2 :> t1)

(* The second run belongs to the command-line process. *)
TwoProcProcOf == (r1 :> api) @@ (r2 :> cli)
=============================================================================
