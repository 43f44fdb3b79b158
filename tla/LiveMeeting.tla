----------------------------- MODULE LiveMeeting -----------------------------
(***************************************************************************)
(* A live meeting: LiveBoardConversation.discuss (deliberation/live.py)    *)
(* and the routes that open, continue and adjourn it (api/routes/board.py).*)
(* The meeting is a file.  A round is held on a copy of it in memory, one  *)
(* speaker after the other, and is written back when it is over; nothing   *)
(* in the file says that a round is under way.                             *)
(***************************************************************************)
EXTENDS Integers, Sequences, FiniteSets, SequencesExt

CONSTANTS
  Call,               \* bound: requests that hold a round at one time
  Opener,             \* bound: those of them that open meetings
  Board,              \* every member but the chair
  Listed,             \* MEMBER_ORDER: those that words and order can call on
  Selected,           \* bound: councils a selection may give, perhaps empty
  max_turns,          \* AGENTIC_BOARD_LIVE_MAX_TURNS
  max_continuations   \* AGENTIC_BOARD_LIVE_MAX_CONTINUATIONS

ASSUME MeetingAssumption ==
  /\ IsFiniteSet(Board) /\ {"user", "decision"} \cap Board = {}
  /\ Opener \subseteq Call
  /\ Selected \subseteq SUBSET Board /\ Listed \subseteq Board
  /\ max_turns \in Nat \ {0} /\ max_continuations \in Nat \ {0}

VARIABLES
  meeting,   \* data/sessions/<session_id>.json
  call       \* what each request holds

meetingVars == <<meeting, call>>

NoMeeting == [status |-> "absent", count |-> 0, council |-> {}, log |-> <<>>, briefs |-> 0]
Said(m, by) == Append(m.log, [round |-> m.count, by |-> by])

NoCall == [pc |-> "idle", held |-> NoMeeting, council |-> {}, used |-> {}, continued |-> FALSE,
          late |-> FALSE]
CallPC == {"idle", "shortcut", "round", "brief", "save", "resave"}
InFlight(r) == call[r].pc # "idle"

MeetingTypeOK ==
  /\ meeting.status \in {"absent", "awaiting_chair_decision", "adjourned", "completed"}
  /\ meeting.council \subseteq Board /\ meeting.count \in Nat
  /\ meeting.log \in Seq([round : Nat, by : Board \cup {"user", "decision"}])
  /\ \A r \in Call : /\ call[r].pc \in CallPC /\ call[r].used \subseteq Board
                     /\ call[r].late \in BOOLEAN

MeetingInit == meeting = NoMeeting /\ call = [r \in Call |-> NoCall]

Becomes(r, c) == call' = [call EXCEPT ![r] = c]

(* Only the file is shared: a copy that someone else holds is late from    *)
(* now on, and the writer's own is the latest.                             *)
Writes(r, m, c) ==
  /\ meeting' = m
  /\ call' = [q \in Call |-> IF q = r THEN [c EXCEPT !.late = FALSE]
                             ELSE [call[q] EXCEPT !.late = @ \/ InFlight(q)]]

(* The route that continues a meeting saves the session once more. *)
After(r, m) ==
  IF call[r].continued THEN [call[r] EXCEPT !.pc = "resave", !.held = m] ELSE NoCall

-----------------------------------------------------------------------------
(* What discuss does with the first message of a round: a text that asks   *)
(* for a brief never gets to the council.                                  *)
Begins(r, held, council, continued, late) ==
  \E pc \in {"shortcut", "round"} :
    Becomes(r, [pc |-> pc, held |-> held, council |-> council, used |-> {},
              continued |-> continued, late |-> late])

(* POST /deliberate: a new meeting, on which the council of the first      *)
(* round is noted.  Its id is the client's or the second's, and nothing    *)
(* looks for a meeting of that id: what there is will be replaced, so the  *)
(* new meeting is late for it from the start.                              *)
OpenMeeting(r) ==
  /\ call[r].pc = "idle"
  /\ \E council \in Selected :
       Begins(r, [NoMeeting EXCEPT !.status = "running", !.council = council,
                                   !.log = <<[round |-> 0, by |-> "user"]>>],
              council, FALSE, meeting.status # "absent")
  /\ UNCHANGED meeting

(* Slip: any meeting that is not capped can go on. *)
ContinueAny(r) ==
  /\ call[r].pc = "idle" /\ meeting.status # "absent" /\ meeting.count < max_continuations
  /\ LET next == [meeting EXCEPT !.status = "running", !.count = @ + 1]
     IN Begins(r, [next EXCEPT !.log = Said(next, "user")], meeting.council, TRUE, FALSE)
  /\ UNCHANGED meeting

(* POST /continue: only a meeting that waits for the chair, and only as    *)
(* often as the cap allows.  An empty selection is taken for no selection. *)
continue_meeting(r) ==
  /\ call[r].pc = "idle"
  /\ meeting.status = "awaiting_chair_decision" /\ meeting.count < max_continuations
  /\ LET next == [meeting EXCEPT !.status = "running", !.count = @ + 1]
     IN Begins(r, [next EXCEPT !.log = Said(next, "user")],
               IF meeting.council = {} THEN Board ELSE meeting.council, TRUE, FALSE)
  /\ UNCHANGED meeting

(* The brief is a new session with the id of the meeting, and is saved in  *)
(* its place; a provider that fails ends the request.                      *)
MeetingShortcut(r) ==
  /\ call[r].pc = "shortcut"
  /\ LET brief == [NoMeeting EXCEPT !.status = "completed", !.briefs = 1]
     IN \/ Writes(r, brief, After(r, brief))
        \/ Becomes(r, NoCall) /\ UNCHANGED meeting

-----------------------------------------------------------------------------
(* The round. *)

Available(c) == c.council \ c.used

(* The first word goes to a listed member; where there is none, no one     *)
(* speaks at all.                                                          *)
_opening_turn_decision(c) == c.council \cap Listed

(* Then a listed member, for the words of the last message or in order,    *)
(* and the others when the listed ones have spoken.                        *)
route_next_speaker(c) ==
  IF c.used = {} THEN _opening_turn_decision(c)
  ELSE IF Cardinality(c.used) = max_turns THEN {}
  ELSE IF Available(c) \cap Listed # {} THEN Available(c) \cap Listed
  ELSE Available(c)

(* A message is streamed and kept; one that fails ends the request, and    *)
(* with it the round.                                                      *)
_stream_member_message(r) ==
  /\ call[r].pc = "round"
  /\ \E m \in route_next_speaker(call[r]) :
       \/ Becomes(r, [call[r] EXCEPT !.used = @ \cup {m}, !.held.log = Said(call[r].held, m)])
       \/ Becomes(r, NoCall)
  /\ UNCHANGED meeting

(* The budget is used up, or everyone has spoken: the chair decides.  The  *)
(* secretary has something to sum up only when someone spoke.              *)
TurnsOver(r) ==
  /\ call[r].pc = "round" /\ route_next_speaker(call[r]) = {}
  /\ Becomes(r, [call[r] EXCEPT !.held.status = "awaiting_chair_decision",
                              !.pc = IF call[r].used = {} THEN "save" ELSE "brief"])
  /\ UNCHANGED meeting

_produce_live_secretary_brief(r) ==
  /\ call[r].pc = "brief"
  /\ \E made \in 0..1 : Becomes(r, [call[r] EXCEPT !.pc = "save", !.held.briefs = @ + made])
  /\ UNCHANGED meeting

SaveMeeting(r) ==
  /\ call[r].pc = "save"
  /\ Writes(r, call[r].held, After(r, call[r].held))

(* It does so before it reports that it is complete, unless its client has *)
(* gone.                                                                   *)
SaveAgain(r) ==
  /\ call[r].pc = "resave"
  /\ \/ Writes(r, call[r].held, NoCall)
     \/ Becomes(r, NoCall) /\ UNCHANGED meeting

(* POST /adjourn: reads and writes the file at once; an adjourned meeting  *)
(* is left as it is.                                                       *)
adjourn_meeting ==
  /\ meeting.status = "awaiting_chair_decision"
  /\ \E log \in {meeting.log, Said(meeting, "decision")} :
       meeting' = [meeting EXCEPT !.status = "adjourned", !.log = log]
  /\ call' = [q \in Call |-> [call[q] EXCEPT !.late = @ \/ InFlight(q)]]

(* The server stops with every round it holds. *)
ServerStops ==
  /\ \E r \in Call : InFlight(r)
  /\ call' = [r \in Call |-> NoCall]
  /\ UNCHANGED meeting

(* What a request that has begun goes on to do. *)
RoundStep(r) ==
  \/ MeetingShortcut(r) \/ _stream_member_message(r) \/ TurnsOver(r)
  \/ _produce_live_secretary_brief(r) \/ SaveMeeting(r) \/ SaveAgain(r)

MeetingRequest ==
  \/ \E r \in Opener : OpenMeeting(r)
  \/ \E r \in Call : continue_meeting(r)
  \/ adjourn_meeting \/ ServerStops

-----------------------------------------------------------------------------
Entries(m, k) == {i \in DOMAIN m.log : m.log[i].round = k}
Speakers(m, k) == {m.log[i].by : i \in Entries(m, k)} \ {"user", "decision"}

(* The file tells one consistent story: as many rounds as it counts, no    *)
(* more than the cap, each begun by the owner, in which no one spoke twice *)
(* or from outside the council, and which ended when the turns were used   *)
(* up or everyone had spoken (a council without a listed member is never   *)
(* heard).                                                                 *)
Consistent(m) ==
  m.log # <<>> =>
    /\ m.count <= max_continuations /\ m.briefs <= m.count + 1
    /\ {m.log[i].round : i \in DOMAIN m.log} = 0..m.count
    /\ \A k \in 0..m.count :
         LET s == Speakers(m, k)
         IN /\ Cardinality({i \in Entries(m, k) : m.log[i].by = "user"}) = 1
            /\ Cardinality({i \in Entries(m, k) : m.log[i].by \in Board}) = Cardinality(s)
            /\ Cardinality(s) <= max_turns /\ (m.council = {} \/ s \subseteq m.council)
            /\ \/ Cardinality(s) = max_turns \/ m.council \subseteq s
               \/ m.council \cap Listed = {}

Saves(r) == InFlight(r) /\ call'[r].pc # call[r].pc /\ meeting' # meeting

(* Whatever is written is consistent; and a request whose copy is still    *)
(* the latest only adds to what was said, and leaves an adjourned meeting  *)
(* adjourned.  (A brief that was asked for as a follow-up does replace the *)
(* meeting, and so does a request that read it before someone else wrote,  *)
(* or that opens a new meeting under its id without reading it.)           *)
MeetingKept ==
  [][ /\ meeting' # meeting => Consistent(meeting')
      /\ \A r \in Call : Saves(r) /\ ~call[r].late =>
           /\ meeting.status # "adjourned"
           /\ meeting'.status = "completed" \/ IsPrefix(meeting.log, meeting'.log)
    ]_meetingVars
=============================================================================
