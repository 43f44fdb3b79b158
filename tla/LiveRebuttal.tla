---------------------------- MODULE LiveRebuttal -----------------------------
(***************************************************************************)
(* One auto-promoted rebuttal (deliberation/auto_promote.py): the chair    *)
(* opens and addresses two members in turn, for two rounds at most, a      *)
(* member may have one claim validated, and a summarizer names the         *)
(* outcome.  Nothing here raises: a call that fails leaves an empty text.  *)
(***************************************************************************)
EXTENDS Integers, Sequences

CONSTANT max_rounds

ASSUME RebuttalAssumption == max_rounds \in Nat

VARIABLES
  rebuttal,    \* [pc, round, side, resolution]
  transcript   \* what was said: who, whether it closes the rebuttal, validations

rebuttalVars == <<rebuttal, transcript>>

Side == {"member_a", "member_b"}
Resolution == {"RESOLVED", "PARTIAL", "UNRESOLVED", "None"}
Statement == [role : Side \cup {"chair"}, closes : BOOLEAN, tool_calls : 0..1]
RebuttalPC == {"off", "opening", "chair", "member", "validate", "follow", "summary", "done"}

RebuttalTypeOK ==
  /\ rebuttal \in [pc : RebuttalPC, round : 0..max_rounds, side : Side,
                   resolution : Resolution]
  /\ transcript \in Seq(Statement)

NoRebuttal == [pc |-> "off", round |-> 0, side |-> "member_a", resolution |-> "None"]

RebuttalInit == rebuttal = NoRebuttal /\ transcript = <<>>

Says(role, closes, n) ==
  transcript' = Append(transcript, [role |-> role, closes |-> closes, tool_calls |-> n])

(* run_live_rebuttal is called. *)
RebuttalStarts ==
  /\ rebuttal' = [NoRebuttal EXCEPT !.pc = "opening"]
  /\ transcript' = <<>>

(* What comes after the opening, or after the turn of one side. *)
NextTurn(opened) ==
  IF ~opened /\ rebuttal.side = "member_a"
  THEN rebuttal' = [rebuttal EXCEPT !.pc = "chair", !.side = "member_b"]
  ELSE IF rebuttal.round < max_rounds
  THEN rebuttal' = [rebuttal EXCEPT !.pc = "chair", !.round = @ + 1, !.side = "member_a"]
  ELSE rebuttal' = [rebuttal EXCEPT !.pc = "summary"]

(* The opening statement; "REBUTTAL CLOSED" in it ends the rebuttal. *)
ChairOpens ==
  /\ rebuttal.pc = "opening"
  /\ \E closes \in BOOLEAN :
       /\ Says("chair", closes, 0)
       /\ IF closes THEN rebuttal' = [rebuttal EXCEPT !.pc = "summary"] ELSE NextTurn(TRUE)

ChairAddresses ==
  /\ rebuttal.pc = "chair"
  /\ \E closes \in BOOLEAN :
       /\ Says("chair", closes, 0)
       /\ rebuttal' = [rebuttal EXCEPT !.pc = IF closes THEN "summary" ELSE "member"]

(* The member answers, fails, or calls some other tool, which is ignored: *)
(* its text, empty or not, is its turn.                                   *)
MemberSpeaks ==
  /\ rebuttal.pc = "member"
  /\ Says(rebuttal.side, FALSE, 0)
  /\ NextTurn(FALSE)

(* It calls validate_claim; the first such call is run. *)
MemberValidates ==
  /\ rebuttal.pc = "member"
  /\ rebuttal' = [rebuttal EXCEPT !.pc = "validate"]
  /\ UNCHANGED transcript

(* The result, or its error, goes back to the member and on the session. *)
ClaimValidated ==
  /\ rebuttal.pc = "validate"
  /\ rebuttal' = [rebuttal EXCEPT !.pc = "follow"]
  /\ UNCHANGED transcript

(* The follow-up, without tools; it may fail and leave an empty text. *)
MemberFollowsUp ==
  /\ rebuttal.pc = "follow"
  /\ Says(rebuttal.side, FALSE, 1)
  /\ NextTurn(FALSE)

(* The last valid Resolution line of the summary, if it has one. *)
_parse_resolution == Resolution

summarize_rebuttal ==
  /\ rebuttal.pc = "summary"
  /\ \E r \in _parse_resolution : rebuttal' = [rebuttal EXCEPT !.pc = "done", !.resolution = r]
  /\ UNCHANGED transcript

RebuttalStep ==
  \/ ChairOpens \/ ChairAddresses \/ MemberSpeaks \/ MemberValidates \/ ClaimValidated
  \/ MemberFollowsUp \/ summarize_rebuttal

-----------------------------------------------------------------------------
Turns(side) == {i \in DOMAIN transcript : transcript[i].role = side}

(* A member speaks only when the chair has just addressed it and has not   *)
(* closed the rebuttal; a statement that closes is the last one; and over  *)
(* the whole rebuttal B never has more turns, or answers earlier, than A.  *)
RebuttalOrderly ==
  /\ \A i \in DOMAIN transcript :
       /\ transcript[i].closes => i = Len(transcript)
       /\ transcript[i].role # "chair" => i > 2 /\ transcript[i - 1].role = "chair"
  /\ \A i \in Turns("member_b") : \E j \in Turns("member_a") :
       j = i - 2 /\ \A k \in Turns("member_b") : k < i => k < j
=============================================================================
