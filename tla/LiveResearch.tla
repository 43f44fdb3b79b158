---------------------------- MODULE LiveResearch -----------------------------
(***************************************************************************)
(* run_live_research (deliberation/live.py): the chair's intake assigns    *)
(* members, their turns (MemberTurn) run together, the secretary writes a  *)
(* brief; between rounds the follow-ups the user typed meanwhile           *)
(* (deliberation/followup.py) send members back to work, and the brief is  *)
(* written again.                                                          *)
(***************************************************************************)
EXTENDS Integers, Sequences, FiniteSets

CONSTANTS
  Seat,          \* the members of the roster
  Upgraded,      \* UPGRADED_MEMBERS
  MaxFollowups,  \* bound: follow-ups the user types
  MaxRounds      \* max_followup_rounds

ASSUME ResearchAssumption ==
  /\ IsFiniteSet(Seat) /\ Upgraded \subseteq Seat
  /\ MaxFollowups \in Nat /\ MaxRounds \in Nat

VARIABLES
  research,   \* where run_live_research is
  seat,       \* the turn of each member
  buffer,     \* FollowupBuffer._buffer
  pending,    \* the follow-ups of the round
  fate,       \* what became of each follow-up typed
  version,    \* responses written so far
  briefed     \* the responses the brief in hand was written from

researchVars == <<research, seat, buffer, pending, fate, version, briefed>>

Target == Seat \cup {"stranger"}
Followup == [id : 1..MaxFollowups, target : Target]
ResearchPC == {"intake", "gather", "brief", "drain", "round", "revising", "done", "failed"}

ResearchTypeOK ==
  /\ research \in [pc : ResearchPC, rounds : 0..MaxRounds]
  /\ seat \in [Seat -> {"off", "fast", "tools", "back", "raised"}]
  /\ buffer \in Seq(Followup)
  /\ pending \in Seq(Followup)
  /\ fate \in Seq({"queued", "taken", "skipped", "revised"})
  /\ version \in Nat
  /\ briefed \in Nat

ResearchInit ==
  /\ research = [pc |-> "intake", rounds |-> 0]
  /\ seat = [s \in Seat |-> "off"]
  /\ buffer = <<>>
  /\ pending = <<>>
  /\ fate = <<>>
  /\ version = 0
  /\ briefed = 0

-----------------------------------------------------------------------------
(* The members a parsed answer, or DEFAULT_ROUTING, names, and the user's  *)
(* overrides leave: an id of no member gets no turn.                       *)
parse_routing_decision == SUBSET Seat

(* The members not yet upgraded are put into fast mode. *)
_phase1_mode_override(routed) ==
  [s \in Seat |-> IF s \notin routed THEN "off"
                  ELSE IF s \in Upgraded THEN "tools" ELSE "fast"]

run_chair_intake ==
  /\ research.pc = "intake"
  /\ \E routed \in parse_routing_decision : seat' = _phase1_mode_override(routed)
  /\ research' = [research EXCEPT !.pc = "gather"]
  /\ UNCHANGED <<buffer, pending, fate, version, briefed>>

(* No provider answered the chair: query_llm's exception leaves intake. *)
IntakeRaises ==
  /\ research.pc = "intake"
  /\ research' = [research EXCEPT !.pc = "failed"]
  /\ UNCHANGED <<seat, buffer, pending, fate, version, briefed>>

AtWork(s) == seat[s] \in {"fast", "tools"}

(* A turn of the first round ends, whether or not the gather still waits.  *)
SeatEnds(s) ==
  /\ AtWork(s)
  /\ research.pc \in {"gather", "failed"}
  /\ seat' = [seat EXCEPT ![s] = "back"] \/ seat' = [seat EXCEPT ![s] = "raised"]
  /\ UNCHANGED <<research, buffer, pending, fate, version, briefed>>

(* gather without return_exceptions: the first exception ends the research *)
(* and leaves the other turns running.                                     *)
GatherRaises ==
  /\ research.pc = "gather"
  /\ \E s \in Seat : seat[s] = "raised"
  /\ research' = [research EXCEPT !.pc = "failed"]
  /\ UNCHANGED <<seat, buffer, pending, fate, version, briefed>>

GatherReturns ==
  /\ research.pc = "gather"
  /\ \A s \in Seat : seat[s] \in {"off", "back"}
  /\ research' = [research EXCEPT !.pc = "brief"]
  /\ version' = Cardinality({s \in Seat : seat[s] = "back"})
  /\ UNCHANGED <<seat, buffer, pending, fate, briefed>>

(* _generate_brief: the transcript is built before the model is asked. *)
_generate_brief ==
  /\ research.pc = "brief"
  /\ \/ research' = [research EXCEPT !.pc = "drain"] /\ briefed' = version
     \/ research' = [research EXCEPT !.pc = "failed"] /\ UNCHANGED briefed
  /\ UNCHANGED <<seat, buffer, pending, fate, version>>

-----------------------------------------------------------------------------
(* Follow-ups. The reader of the command line queues those with a target.  *)
FollowupTyped ==
  /\ research.pc \notin {"done", "failed"}
  /\ Len(fate) < MaxFollowups
  /\ \E t \in Target :
       buffer' = Append(buffer, [id |-> Len(fate) + 1, target |-> t])
  /\ fate' = Append(fate, "queued")
  /\ UNCHANGED <<research, seat, pending, version, briefed>>

(* FollowupBuffer.snapshot takes everything that is there. *)
Snapshot ==
  /\ research.pc = "drain"
  /\ research.rounds < MaxRounds
  /\ buffer # <<>>
  /\ pending' = buffer
  /\ buffer' = <<>>
  /\ fate' = [i \in DOMAIN fate |-> IF \E k \in DOMAIN buffer : buffer[k].id = i
                                    THEN "taken" ELSE fate[i]]
  /\ research' = [research EXCEPT !.pc = "round", !.rounds = @ + 1]
  /\ UNCHANGED <<seat, version, briefed>>

(* Nothing pending, or the rounds are used up: the research returns. *)
ResearchReturns ==
  /\ research.pc = "drain"
  /\ buffer = <<>> \/ research.rounds = MaxRounds
  /\ research' = [research EXCEPT !.pc = "done"]
  /\ UNCHANGED <<seat, buffer, pending, fate, version, briefed>>

(* A follow-up nobody upgraded can take is skipped, with an event. *)
FollowupSkipped ==
  /\ research.pc = "round"
  /\ pending # <<>>
  /\ Head(pending).target \notin Upgraded
  /\ fate' = [fate EXCEPT ![Head(pending).id] = "skipped"]
  /\ pending' = Tail(pending)
  /\ UNCHANGED <<research, seat, buffer, version, briefed>>

(* The member, routed before or not, is given a turn with a deep budget. *)
MemberRevises ==
  /\ research.pc = "round"
  /\ pending # <<>>
  /\ Head(pending).target \in Upgraded
  /\ research' = [research EXCEPT !.pc = "revising"]
  /\ seat' = [seat EXCEPT ![Head(pending).target] = "tools"]
  /\ UNCHANGED <<buffer, pending, fate, version, briefed>>

MemberRevised ==
  /\ research.pc = "revising"
  /\ seat' = [seat EXCEPT ![Head(pending).target] = "back"]
  /\ fate' = [fate EXCEPT ![Head(pending).id] = "revised"]
  /\ version' = version + 1
  /\ pending' = Tail(pending)
  /\ research' = [research EXCEPT !.pc = "round"]
  /\ UNCHANGED <<buffer, briefed>>

RevisionRaises ==
  /\ research.pc = "revising"
  /\ seat' = [seat EXCEPT ![Head(pending).target] = "raised"]
  /\ research' = [research EXCEPT !.pc = "failed"]
  /\ UNCHANGED <<buffer, pending, fate, version, briefed>>

(* Slip: the round ends without a new brief. *)
RoundEndsStale ==
  /\ research.pc = "round"
  /\ pending = <<>>
  /\ research' = [research EXCEPT !.pc = "drain"]
  /\ UNCHANGED <<seat, buffer, pending, fate, version, briefed>>

RoundEnds ==
  /\ research.pc = "round"
  /\ pending = <<>>
  /\ research' = [research EXCEPT !.pc = "brief"]
  /\ UNCHANGED <<seat, buffer, pending, fate, version, briefed>>

ResearchStep ==
  \/ run_chair_intake \/ IntakeRaises \/ GatherRaises \/ GatherReturns \/ _generate_brief
  \/ Snapshot \/ ResearchReturns \/ FollowupSkipped \/ MemberRevises \/ MemberRevised
  \/ RevisionRaises \/ RoundEnds
  \/ \E s \in Seat : SeatEnds(s)

-----------------------------------------------------------------------------
(* Properties.                                                             *)

(* A research that returns has answered for every follow-up: the brief it  *)
(* returns was written from every revision, and what was typed was worked  *)
(* in or refused with an event, once; only what came after the last drain, *)
(* or past the last round, stays in the buffer. No turn is left running.   *)
FollowupsAccounted ==
  research.pc = "done" =>
    /\ briefed = version
    /\ \A i \in DOMAIN fate :
         IF \E k \in DOMAIN buffer : buffer[k].id = i THEN fate[i] = "queued"
         ELSE fate[i] \in {"skipped", "revised"}
    /\ \A s \in Seat : ~AtWork(s)
=============================================================================
