---------------------------- MODULE Deliberation -----------------------------
(***************************************************************************)
(* BoardOrchestrator.deliberate (deliberation/orchestrator.py): selection, *)
(* intake, two stages in which the council is asked in parallel and a      *)
(* quorum decides, the rebuttals of the strongest disagreements, the       *)
(* chair's synthesis with one revision, the brief, the decision and its    *)
(* delegation plan, and what is written of it: the session's file, the     *)
(* delegated tasks and the ledger.                                         *)
(***************************************************************************)
EXTENDS BoardJudges, LiveRebuttal

CONSTANTS
  Member,                  \* the roster without the chair: the secretary is left out by default,
                           \* but not of a council that is named or routed
  Suppressed,              \* routing_suppressed_member_ids
  Gating,                  \* members with a capability of the clarification gate
  Review,                  \* bound: what a review may hold
  min_stage1_responses,    \* HarnessConfig
  min_stage2_responses,
  disagreement_threshold,
  auto_promote_enabled

ASSUME DeliberationAssumption ==
  /\ IsFiniteSet(Member) /\ Suppressed \subseteq Member /\ Gating \subseteq Member
  /\ min_stage1_responses \in Nat /\ min_stage2_responses \in Nat
  /\ disagreement_threshold \in Nat /\ auto_promote_enabled \in BOOLEAN

VARIABLES
  board,    \* where deliberate is, its arguments, and the pairs still to be rebutted
  seat,     \* what the stage under way has of each member
  session,  \* the BoardSession in memory
  file,     \* data/sessions/<session_id>.json, as this deliberation left it
  rows      \* what this deliberation wrote to the store: "tasks", "ledger"

deliberationVars == <<board, seat, session, file, rows, rebuttal, transcript>>

BoardPC == {"new", "shortcut", "classify", "intake", "evidence", "stage1", "judge", "stage2",
            "score", "rebut", "stage3", "verify", "revise", "reverify", "brief", "decide",
            "plan", "repair", "save", "record_plan", "ledger", "done", "failed", "killed"}
Ended == {"done", "failed", "killed"}

(* version 0 is no synthesis; 2 is the revised one. *)
NoSynthesis == [version |-> 0, empty |-> TRUE, actions |-> FALSE]
Synthesis(v) == {s \in [version : {v}, empty : BOOLEAN, actions : BOOLEAN] :
                   s.empty => ~s.actions}

(* The decision of a session that waits for the owner's answers: a fixed   *)
(* text, which says that there is none yet.                                *)
Deferral == 3

BoardSession ==
  [status |-> "completed", council |-> {}, stage1 |-> {}, stage2 |-> <<>>,
   contradictions |-> {}, rebuttals |-> <<>>, synthesis |-> NoSynthesis,
   verification |-> 0, brief |-> 0, decision |-> 0, plan |-> 0]
NoFile == [BoardSession EXCEPT !.status = "absent"]

DeliberationTypeOK ==
  /\ board.pc \in BoardPC /\ board.verify \in BOOLEAN
  /\ seat \in [Member -> {"idle", "asked", "answered", "failed"}]
  /\ session.council \subseteq Member /\ session.stage1 \subseteq session.council
  /\ DOMAIN session.stage2 \subseteq session.council
  /\ {session.verification, session.brief, session.plan} \subseteq 0..2
  /\ session.decision \in 0..2 \cup {Deferral}
  /\ rows \subseteq {"tasks", "ledger"}
  /\ RebuttalTypeOK

Idle == [m \in Member |-> "idle"]

DeliberationInit ==
  /\ board = [pc |-> "new", verify |-> FALSE, agenda |-> <<>>]
  /\ seat = Idle /\ session = BoardSession /\ file = NoFile /\ rows = {}
  /\ RebuttalInit

To(pc) == board' = [board EXCEPT !.pc = pc]
Only(pc) == To(pc) /\ UNCHANGED <<seat, session, file, rows, rebuttal, transcript>>

(* The session changes, and nothing of it is stored. *)
Notes(pc, s) ==
  To(pc) /\ session' = s /\ UNCHANGED <<seat, file, rows, rebuttal, transcript>>

(* An exception that deliberate lets through: nothing has been saved. *)
Raises == Only("failed")

_minimum_required_responses(total, max_required) == Max({1, Min({max_required, total})})

-----------------------------------------------------------------------------
(* Selection. *)

(* The call: a text that asks for a brief, members named by hand (perhaps  *)
(* none that exist), the default council, or the classifier's choice.      *)
deliberate ==
  /\ board.pc = "new"
  /\ \E verify, skip \in BOOLEAN, after \in {"shortcut", "classify", "intake"} :
     \E named \in SUBSET Member :
       /\ after = "classify" => ~skip
       /\ board' = [board EXCEPT !.verify = verify,
                                 !.pc = IF skip /\ after = "intake" THEN "evidence" ELSE after]
       /\ session' = [session EXCEPT !.council = IF after = "intake" THEN named ELSE {}]
  /\ UNCHANGED <<seat, file, rows, rebuttal, transcript>>

(* Those whose capabilities the query needs, filled up to the floor of     *)
(* stage 1 from the active ones; everyone, when the classifier fails.      *)
classify_query ==
  {s \in SUBSET Member : Cardinality(s) >= Min({min_stage1_responses, Cardinality(Member)})}

(* Routing suppressions, unless no one would be left. *)
_apply_routing_adjustments(ids) == IF ids \subseteq Suppressed THEN ids ELSE ids \ Suppressed

Classified ==
  /\ board.pc = "classify"
  /\ \E ids \in classify_query :
       Notes("intake", [session EXCEPT !.council = _apply_routing_adjustments(ids)])

-----------------------------------------------------------------------------
(* The secretary's shortcut: a brief and no deliberation. *)

run_secretary_shortcut ==
  /\ board.pc = "shortcut"
  /\ \/ /\ file' = [BoardSession EXCEPT !.status = "completed"]
        /\ session' = [BoardSession EXCEPT !.status = "completed"]
        /\ To("done") /\ UNCHANGED <<seat, rows, rebuttal, transcript>>
     \/ Raises

(* Intake: a short and ambiguous query before a gating member waits for    *)
(* the owner's answers.  The session so far is saved and recorded, with    *)
(* the decision that a clarification is required.                          *)
_should_pause_for_clarification(council) == IF council \cap Gating = {} THEN {FALSE} ELSE BOOLEAN

stage0_intake ==
  /\ board.pc = "intake"
  /\ \/ /\ TRUE \in _should_pause_for_clarification(session.council)
        /\ session' = [session EXCEPT !.status = "clarification_required",
                                      !.decision = Deferral]
        /\ file' = session'
        /\ To("ledger") /\ UNCHANGED <<seat, rows, rebuttal, transcript>>
     \/ Only("evidence")

(* Searches that fail or find nothing leave a member without an addendum.  *)
_collect_member_evidence == board.pc = "evidence" /\ Only("stage1")

-----------------------------------------------------------------------------
(* The two stages: every member of the council is asked at once. *)

InStage == board.pc \in {"stage1", "stage2"}

Asks ==
  /\ InStage /\ seat = Idle
  /\ Cardinality(session.council) > (IF board.pc = "stage1" THEN 0 ELSE 1)
  /\ seat' = [m \in Member |-> IF m \in session.council THEN "asked" ELSE "idle"]
  /\ UNCHANGED <<board, session, file, rows, rebuttal, transcript>>

_query_member(m) ==
  /\ InStage /\ seat[m] = "asked"
  /\ \E r \in {"answered", "failed"} : seat' = [seat EXCEPT ![m] = r]
  /\ UNCHANGED <<board, session, file, rows, rebuttal, transcript>>

Quorum(n, max_required) ==
  n >= _minimum_required_responses(Cardinality(session.council), max_required)

Gathered == seat # Idle /\ \A m \in Member : seat[m] # "asked"

(* Slip: whoever has not failed has answered, asked or not. *)
NotFailed == {m \in Member : seat[m] # "failed"}

Answered == {m \in Member : seat[m] = "answered"}

(* A council of none is gathered at once, and falls short of one answer.   *)
stage1 ==
  /\ board.pc = "stage1" /\ (Gathered \/ session.council = {})
  /\ IF Quorum(Cardinality(Answered), min_stage1_responses)
     THEN /\ session' = [session EXCEPT !.stage1 = Answered]
          /\ To(IF board.verify THEN "judge" ELSE "stage2")
     ELSE To("failed") /\ UNCHANGED session
  /\ seat' = Idle /\ UNCHANGED <<file, rows, rebuttal, transcript>>

(* Each answer is atomized (one that fails has no claims) and the claims   *)
(* of different members are judged.                                        *)
_atomize_stage1 ==
  /\ board.pc = "judge"
  /\ \E claims \in [session.stage1 -> atomize] : \E found \in detect_contradictions(claims) :
       Notes("stage2", [session EXCEPT !.contradictions = found])

(* The whole council reviews, those who failed in stage 1 too; one member  *)
(* alone has no peers.                                                     *)
stage2 ==
  /\ board.pc = "stage2"
  /\ \/ /\ Cardinality(session.council) <= 1
        /\ To("score") /\ UNCHANGED session
     \/ /\ Cardinality(session.council) > 1 /\ Gathered
        /\ IF Quorum(Cardinality(Answered), min_stage2_responses)
           THEN /\ \E reviews \in [Answered -> Review] :
                     session' = [session EXCEPT !.stage2 = reviews]
                /\ To("score")
           ELSE To("failed") /\ UNCHANGED session
  /\ seat' = Idle /\ UNCHANGED <<file, rows, rebuttal, transcript>>

-----------------------------------------------------------------------------
(* Rebuttals, one after the other. *)

(* The score is always computed; only a verified session with the feature  *)
(* on and enough disagreement goes live.                                   *)
Promote ==
  /\ board.pc = "score"
  /\ IF /\ board.verify /\ auto_promote_enabled
        /\ compute_disagreement(session.stage2) >= disagreement_threshold
     THEN \E pairs \in pick_top_pairs(session.stage2, session.contradictions) :
            board' = [board EXCEPT !.pc = "rebut", !.agenda = pairs]
     ELSE To("stage3")
  /\ UNCHANGED <<seat, session, file, rows, rebuttal, transcript>>

run_live_rebuttal ==
  /\ board.pc = "rebut" /\ rebuttal.pc = "off" /\ board.agenda # <<>>
  /\ RebuttalStarts
  /\ UNCHANGED <<board, seat, session, file, rows>>

RebuttalTurn ==
  /\ board.pc = "rebut" /\ RebuttalStep
  /\ UNCHANGED <<board, seat, session, file, rows>>

RebuttalRecorded ==
  /\ board.pc = "rebut" /\ rebuttal.pc = "done"
  /\ session' = [session EXCEPT !.rebuttals = Append(@, Head(board.agenda))]
  /\ board' = [board EXCEPT !.agenda = Tail(@)]
  /\ rebuttal' = NoRebuttal /\ transcript' = <<>>
  /\ UNCHANGED <<seat, file, rows>>

RebuttalsOver == board.pc = "rebut" /\ rebuttal.pc = "off" /\ board.agenda = <<>> /\ Only("stage3")

-----------------------------------------------------------------------------
(* Synthesis, verification, one revision. *)

stage3 ==
  /\ board.pc = "stage3"
  /\ \/ \E s \in Synthesis(1) :
          Notes(IF board.verify THEN "verify" ELSE "brief", [session EXCEPT !.synthesis = s])
     \/ Raises

Verified(s) == [session EXCEPT !.verification = s.version]

(* An empty synthesis is not revised, whatever the verifier says. *)
VerifySynthesis ==
  /\ board.pc = "verify"
  /\ \E passed \in verify_synthesis(session.synthesis.empty) :
       Notes(IF passed \/ session.synthesis.empty THEN "brief" ELSE "revise",
             Verified(session.synthesis))

ReviseSynthesis ==
  /\ board.pc = "revise"
  /\ \/ \E s \in Synthesis(2) : Notes("reverify", [session EXCEPT !.synthesis = s])
     \/ Raises

(* Slip: the revision stands with the verification of the first text. *)
KeepFirstVerdict == board.pc = "reverify" /\ Only("brief")

(* Slip: a revision that does not pass is revised again. *)
VerifyUntilPassed ==
  /\ board.pc = "reverify"
  /\ \E passed \in verify_synthesis(session.synthesis.empty) :
       Notes(IF passed THEN "brief" ELSE "revise", Verified(session.synthesis))

(* The revision is verified and kept, whether it passes or not. *)
ReverifySynthesis ==
  /\ board.pc = "reverify"
  /\ Notes("brief", Verified(session.synthesis))

stage4_secretary_brief ==
  /\ board.pc = "brief"
  /\ \/ Notes("decide", [session EXCEPT !.brief = session.synthesis.version])
     \/ Raises

(* The decision is projected from the synthesis; an action section in it   *)
(* asks for a delegation plan, without one the plan is empty.              *)
_metadata_for_decision ==
  /\ board.pc = "decide"
  /\ Notes(IF session.synthesis.actions THEN "plan" ELSE "save",
           [session EXCEPT !.decision = session.synthesis.version])

Planned == [session EXCEPT !.plan = session.synthesis.version]

(* A plan without tasks, or one that cannot be parsed, is asked for once   *)
(* more; what the repair gives is taken, with tasks or without.            *)
build_delegation_plan ==
  /\ board.pc = "plan"
  /\ \/ Notes("save", Planned)
     \/ Only("repair")
     \/ Raises

RepairPlan ==
  /\ board.pc = "repair"
  /\ \/ Notes("save", Planned)
     \/ Only("save")
     \/ Raises

-----------------------------------------------------------------------------
(* What is stored. *)

SaveSession ==
  /\ board.pc = "save"
  /\ file' = session
  /\ To("record_plan") /\ UNCHANGED <<seat, session, rows, rebuttal, transcript>>

(* The tasks of the plan; a failure is logged and the session goes on. *)
record_delegation_plan ==
  /\ board.pc = "record_plan"
  /\ rows' \in {rows, rows \cup (IF session.plan > 0 THEN {"tasks"} ELSE {})}
  /\ To("ledger") /\ UNCHANGED <<seat, session, file, rebuttal, transcript>>

_record_to_ledger ==
  /\ board.pc = "ledger"
  /\ rows' \in {rows, rows \cup {"ledger"}}
  /\ To("done") /\ UNCHANGED <<seat, session, file, rebuttal, transcript>>

(* The process dies; the file and the rows are what is left. *)
Killed ==
  /\ board.pc \notin Ended \cup {"new"}
  /\ board' = [board EXCEPT !.pc = "killed", !.agenda = <<>>]
  /\ seat' = Idle /\ session' = BoardSession
  /\ rebuttal' = NoRebuttal /\ transcript' = <<>>
  /\ UNCHANGED <<file, rows>>

DeliberationStep ==
  \/ deliberate \/ Classified \/ run_secretary_shortcut \/ stage0_intake
  \/ _collect_member_evidence
  \/ Asks \/ (\E m \in Member : _query_member(m)) \/ stage1 \/ _atomize_stage1 \/ stage2
  \/ Promote \/ run_live_rebuttal \/ RebuttalTurn \/ RebuttalRecorded \/ RebuttalsOver
  \/ stage3 \/ VerifySynthesis \/ ReviseSynthesis \/ ReverifySynthesis
  \/ stage4_secretary_brief \/ _metadata_for_decision \/ build_delegation_plan \/ RepairPlan
  \/ SaveSession \/ record_delegation_plan \/ _record_to_ledger

-----------------------------------------------------------------------------
(* A saved decision rests on a deliberation: the quorum of each stage      *)
(* answered, the verification, the brief, the decision and the plan are of *)
(* the one synthesis that is saved.  The only other decision says that     *)
(* there is none, in a session that waits for the owner.  Tasks are        *)
(* delegated only when the file that explains them is there and holds      *)
(* their plan and the decision behind it.                                  *)
DecisionGrounded ==
  /\ file.decision \notin {0, Deferral} =>
       /\ {file.decision, file.brief, file.synthesis.version} = {file.decision}
       /\ file.verification \in {0, file.decision} /\ file.plan \in {0, file.decision}
       /\ Cardinality(file.stage1) >= Min({min_stage1_responses, Cardinality(file.council)})
       /\ Cardinality(file.council) > 1 =>
            Cardinality(DOMAIN file.stage2)
              >= Max({1, Min({min_stage2_responses, Cardinality(file.council)})})
       /\ file.council # {}
  /\ file.decision = Deferral <=> file.status = "clarification_required"
  /\ "tasks" \in rows => file.plan > 0 /\ file.decision = file.plan
  /\ "ledger" \in rows => file.status # "absent"

(* The rebuttals are worth the board's time: between members who took a    *)
(* side in the deliberation, about something a judge found between those   *)
(* two (or, when nothing was found, between the loudest), never twice for  *)
(* one pair, never more than the cap, and each in its order of turns.      *)
RebuttalsSound ==
  LET heard == session.rebuttals \o board.agenda
  IN /\ Len(heard) <= Max({1, auto_promote_max_pairs})
     /\ \A i \in DOMAIN heard :
          /\ Cardinality(heard[i].pair) = 2
          /\ heard[i].pair \subseteq session.stage1 \cup DOMAIN session.stage2
          /\ heard[i] \in session.contradictions \/ session.contradictions = {}
          /\ \A j \in DOMAIN heard : i # j => heard[i].pair # heard[j].pair
     /\ RebuttalOrderly
=============================================================================
