------------------------------ MODULE MCHookGate ------------------------------
(***************************************************************************)
(* The hook gate of a session, its web searches, the memory of the board,  *)
(* the records around a board session, and the reviews of the harness.     *)
(* They share no state, so a behaviour follows one of them and leaves the  *)
(* others where they start.                                                *)
(***************************************************************************)
EXTENDS HookGate, WebSearch, SotbMemory, Initiatives, BoardStart, HarnessReviews, TLC

VARIABLE focus

Live(e) == [text |-> e, section |-> "live"]
MCAlike == {"a", "b"} \X {"a", "b"}
MCUpdate == {<<Live("a")>>, <<Live("b")>>, <<Live("a"), Live("b")>>}
MCEdit == {<<>>, <<Live("a")>>, <<Live("a"), Live("b"), Live("c")>>}

(* The same two processes are the gate's, the callers of searches, the     *)
(* writers of initiatives and the discovery commands.                      *)
GateSymmetry ==
  Permutations(Proc) \cup Permutations(Review) \cup Permutations(Model)
    \cup Permutations(Budget)

allVars == <<focus, vars, searchVars, memoryVars, initiativeVars, startVars, harnessVars>>
Follow(f) == focus = f /\ UNCHANGED focus

AllInit ==
  /\ focus \in {"gate", "search", "memory", "initiative", "start", "harness",
                "cached harness"}
  /\ Init /\ SearchInit
  /\ MemoryInit /\ (focus # "memory" => md = <<>>)
  /\ InitiativesInit
  /\ (focus # "initiative" =>
        initiative = [status |-> "none", source |-> CHOOSE s \in Source : TRUE])
  /\ StartInit /\ (focus # "start" => candidate.status = "reviewed" /\ ~candidate.reject)
  /\ HarnessInit
  /\ (focus \notin {"harness", "cached harness"} => 
        file = [model |-> CHOOSE m \in Model : TRUE, budget |-> CHOOSE b \in Budget : TRUE,
                version |-> 1])

OneGate ==
  /\ Follow("gate") /\ Next
  /\ UNCHANGED <<searchVars, memoryVars, initiativeVars, startVars, harnessVars>>
OneSearch ==
  /\ Follow("search") /\ SearchNext
  /\ UNCHANGED <<vars, memoryVars, initiativeVars, startVars, harnessVars>>
OneMemory ==
  /\ Follow("memory") /\ MemoryNext
  /\ UNCHANGED <<vars, searchVars, initiativeVars, startVars, harnessVars>>
OneInitiative ==
  /\ Follow("initiative") /\ InitiativesNext
  /\ UNCHANGED <<vars, searchVars, memoryVars, startVars, harnessVars>>
OneCandidate ==
  /\ Follow("start") /\ StartNext
  /\ UNCHANGED <<vars, searchVars, memoryVars, initiativeVars, harnessVars>>
(* All reviews while nothing asks the server for the configuration, and    *)
(* one review while something does.                                        *)
OneHarness ==
  /\ Follow("harness") \/ Follow("cached harness")
  /\ HarnessNext
  /\ IF focus = "harness" THEN reading' = {}
     ELSE Cardinality({r \in Review : review'[r].status # "none"}) <= 1
  /\ UNCHANGED <<vars, searchVars, memoryVars, initiativeVars, startVars>>

AllNext == OneGate \/ OneSearch \/ OneMemory \/ OneInitiative \/ OneCandidate \/ OneHarness

AllSpec == AllInit /\ [][AllNext]_allVars

(* What the database and the files keep around a board session: the newest *)
(* closeout of an initiative survives every migration (initiatives/store   *)
(* .py:433), a closed initiative is reopened only by a writer that loaded  *)
(* it before, a promotion and a session name what exists, and a command    *)
(* that nobody overtook undoes nothing and starts the board once.          *)
RecordsKept ==
  /\ [](InitiativesTypeOK /\ CloseoutKept /\ StartTypeOK /\ StartGrounded)
  /\ [][ClosedStays]_initiativeVars
  /\ [][StartKept]_startVars

(* What a review changes (reviews.py:183): the server knows the            *)
(* configuration it has applied, an application or a tuning that nobody    *)
(* overtook changes what it is about and nothing else, and a revert that   *)
(* nobody overtook takes back exactly its review.                          *)
ReviewsApplied ==
  /\ [](HarnessTypeOK /\ ConfigKnown)
  /\ [][OnlyWhatWasReviewed]_harnessVars
=============================================================================
