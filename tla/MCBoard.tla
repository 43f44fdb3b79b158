------------------------------- MODULE MCBoard -------------------------------
(***************************************************************************)
(* A deliberation, a live meeting with the requests that hold its rounds,  *)
(* and the stream of one such request.  They share no state, so a          *)
(* behaviour follows one of them and leaves the others where they start.   *)
(***************************************************************************)
EXTENDS Deliberation, LiveMeeting, BoardStream

VARIABLE focus

MCReview == {[challenges |-> 0, changed |-> FALSE], [challenges |-> 1, changed |-> TRUE]}
MCBoardSeats == {"critic", "builder", "secretary"}
MCSelected == {{}, {"secretary"}, {"critic", "secretary"}}

vars == <<focus, deliberationVars, meetingVars, feedVars>>

Init ==
  /\ focus \in {"deliberation", "meeting", "stream"}
  /\ DeliberationInit /\ MeetingInit
  /\ IF focus = "stream" THEN FeedInit
     ELSE /\ feed = [pc |-> "done", route |-> "deliberate", task |-> "returned"]
          /\ queue = <<>> /\ put = 0 /\ sent = <<>>

OneDeliberation ==
  focus = "deliberation" /\ DeliberationStep /\ UNCHANGED <<focus, meetingVars, feedVars>>
OneRound(r) == focus = "meeting" /\ RoundStep(r) /\ UNCHANGED <<focus, deliberationVars, feedVars>>
OneTask == focus = "stream" /\ TaskStep /\ UNCHANGED <<focus, deliberationVars, meetingVars>>
OneFeed == focus = "stream" /\ FeedStep /\ UNCHANGED <<focus, deliberationVars, meetingVars>>

(* What nothing has to do: requests, hang-ups, and the end of the process. *)
Environment ==
  \/ focus = "deliberation" /\ Killed /\ UNCHANGED <<focus, meetingVars, feedVars>>
  \/ focus = "meeting" /\ MeetingRequest /\ UNCHANGED <<focus, deliberationVars, feedVars>>
  \/ focus = "stream" /\ FeedEnvironment /\ UNCHANGED <<focus, deliberationVars, meetingVars>>

Next == OneDeliberation \/ (\E r \in Call : OneRound(r)) \/ OneTask \/ OneFeed \/ Environment

(* One request is followed; the other may stall wherever it likes. *)
Runs == OneDeliberation \/ OneRound("first") \/ OneFeed

(* Providers answer or fail, and the event loop runs what is ready: the    *)
(* deliberation, the round, the stream, and the task behind it.            *)
Spec == Init /\ [][Next]_vars /\ WF_vars(Runs) /\ WF_vars(OneTask)

TypeOK == DeliberationTypeOK /\ MeetingTypeOK /\ FeedTypeOK

Busy ==
  CASE focus = "deliberation" -> board.pc \notin Ended
    [] focus = "meeting" -> InFlight("first")
    [] OTHER -> feed.pc \notin {"done", "gone"}

(* What is begun ends: the stages, the rebuttals and the one revision of a *)
(* deliberation, a round of a meeting whatever other requests do, and the  *)
(* stream of a request that hears of its end.                              *)
BoardEnds == Busy ~> ~Busy
=============================================================================
