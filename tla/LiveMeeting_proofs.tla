--------------------------- MODULE LiveMeeting_proofs ---------------------------
(***************************************************************************)
(* What a live meeting keeps, for any number of requests, members, turns   *)
(* and rounds.  The file is always a meeting whose rounds are over; a copy *)
(* that a request holds is such a meeting with one round under way.        *)
(***************************************************************************)
EXTENDS LiveMeeting, FiniteSetTheorems, SequenceTheorems, TLAPS

MeetingNext == (\E r \in Call : RoundStep(r)) \/ MeetingRequest

Line == [round : Nat, by : Board \cup {"user", "decision"}]
MeetingRecord ==
  [status : {"absent", "running", "awaiting_chair_decision", "adjourned", "completed"},
   count : Nat, council : SUBSET Board, log : Seq(Line), briefs : Nat]
CallRecord ==
  [pc : CallPC, held : MeetingRecord, council : SUBSET Board, used : SUBSET Board,
   continued : BOOLEAN, late : BOOLEAN]

CallsTyped ==
  /\ meeting \in MeetingRecord /\ meeting.status # "running"
  /\ meeting.status = "absent" => meeting.log = <<>>
  /\ call \in [Call -> CallRecord]

Rounds(m) == {m.log[i].round : i \in DOMAIN m.log}
OwnerLines(m, k) == {i \in Entries(m, k) : m.log[i].by = "user"}
MemberLines(m, k) == {i \in Entries(m, k) : m.log[i].by \in Board}

(* The lines of a round that one member after the other of s has spoken in. *)
RoundHeard(m, k, s) ==
  /\ Cardinality(OwnerLines(m, k)) = 1 /\ Cardinality(MemberLines(m, k)) = Cardinality(s)
  /\ Speakers(m, k) = s /\ s \subseteq Board /\ Cardinality(s) <= max_turns
  /\ m.council = {} \/ s \subseteq m.council

RoundOver(m, k) ==
  LET s == Speakers(m, k)
  IN /\ RoundHeard(m, k, s)
     /\ Cardinality(s) = max_turns \/ m.council \subseteq s \/ m.council \cap Listed = {}

(* A meeting whose last round is under way: s has spoken in it. *)
UnderWay(m, s) ==
  /\ m.log # <<>> /\ m.count <= max_continuations
  /\ Rounds(m) = 0..m.count
  /\ \A k \in 0..m.count : k # m.count => RoundOver(m, k)
  /\ RoundHeard(m, m.count, s)

(* What can be written, and be gone on with. *)
Whole(m) == Consistent(m) /\ (m.status = "awaiting_chair_decision" => m.log # <<>>)

(* What a request holds of the meeting, from the first turn to the last    *)
(* write.                                                                  *)
CopyHeld(c) ==
  /\ c.pc \in {"round", "brief"} => UnderWay(c.held, c.used) /\ c.held.briefs <= c.held.count
  /\ c.pc = "round" => c.held.council \in {{}, c.council} /\ c.used \subseteq c.council
  /\ c.pc = "brief" => RoundOver(c.held, c.held.count)
  /\ c.pc \in {"brief", "save"} => c.held.status = "awaiting_chair_decision"
  /\ c.pc \in {"save", "resave"} =>
       Whole(c.held) /\ c.held.status \in {"awaiting_chair_decision", "completed"}

(* A copy that nobody overtook begins with what the file m says. *)
CopyFollows(m, c) ==
  c.pc # "idle" /\ ~c.late =>
    /\ m.status # "adjourned"
    /\ c.pc \in {"round", "brief", "save"} => IsPrefix(m.log, c.held.log)
    /\ c.pc = "resave" => c.held = m

MeetingInv ==
  /\ CallsTyped /\ Whole(meeting)
  /\ \A r \in Call : CopyHeld(call[r]) /\ CopyFollows(meeting, call[r])

-----------------------------------------------------------------------------
(* Lines of a log, and what they make of a round.                         *)

(* n says what m says, and one line more. *)
LineAdded(m, n, c, x) ==
  /\ m.log \in Seq(Line) /\ c \in Nat /\ x \in Board \cup {"user", "decision"}
  /\ n.log = Append(m.log, [round |-> c, by |-> x])

(* A line is added to the log: it is of one round, and leaves the others.  *)
LEMMA LogGrows ==
  ASSUME NEW m, NEW n, NEW c, NEW x, LineAdded(m, n, c, x)
  PROVE  /\ n.log \in Seq(Line) /\ Len(n.log) = Len(m.log) + 1
         /\ \A i \in 1..Len(m.log) : n.log[i] = m.log[i]
         /\ n.log[Len(m.log) + 1].by = x
         /\ \A k : /\ Entries(m, k) \subseteq 1..Len(m.log)
                   /\ k # c => Entries(n, k) = Entries(m, k)
         /\ Entries(n, c) = Entries(m, c) \cup {Len(m.log) + 1}
         /\ Rounds(n) = Rounds(m) \cup {c}
<1> DEFINE l == Len(m.log)
           e == [round |-> c, by |-> x]
<1>1. e \in Line /\ e.round = c /\ e.by = x
  BY DEF Line, LineAdded
<1> HIDE DEF e
<1>2. n.log = Append(m.log, e) /\ m.log \in Seq(Line)
  BY DEF e, LineAdded
<1>3. /\ l \in Nat /\ DOMAIN m.log = 1..l
      /\ n.log \in Seq(Line) /\ Len(n.log) = l + 1 /\ DOMAIN n.log = 1..(l + 1)
      /\ n.log[l + 1] = e /\ \A i \in 1..l : n.log[i] = m.log[i]
  BY <1>1, <1>2
<1> HIDE DEF l
<1>4. \A k : /\ Entries(m, k) = {i \in 1..l : m.log[i].round = k}
             /\ Entries(n, k) = {i \in 1..(l + 1) : n.log[i].round = k}
  BY <1>3 DEF Entries
<1>5. 1..(l + 1) = (1..l) \cup {l + 1} /\ l + 1 \notin 1..l
  BY <1>3
<1>6. \A k : Entries(m, k) \subseteq 1..l /\ (k # c => Entries(n, k) = Entries(m, k))
  <2> SUFFICES ASSUME NEW k
               PROVE  Entries(m, k) \subseteq 1..l /\ (k # c => Entries(n, k) = Entries(m, k))
    OBVIOUS
  <2>1. ASSUME k # c, NEW i PROVE i \in Entries(n, k) <=> i \in Entries(m, k)
    BY <1>1, <1>3, <1>4, <1>5, <2>1
  <2> QED  BY <1>4, <2>1
<1>7. Entries(n, c) = Entries(m, c) \cup {l + 1}
  BY <1>1, <1>3, <1>4, <1>5
<1>8. Rounds(n) = Rounds(m) \cup {c}
  <2>1. {n.log[i].round : i \in 1..(l + 1)} = {n.log[i].round : i \in 1..l}
                                              \cup {n.log[l + 1].round}
    BY <1>5
  <2>2. {n.log[i].round : i \in 1..l} = {m.log[i].round : i \in 1..l}
    BY <1>3
  <2> QED  BY <1>1, <1>3, <2>1, <2>2 DEF Rounds
<1> QED  BY <1>1, <1>3, <1>6, <1>7, <1>8 DEF l

(* The rounds that are spoken of after a line. *)
LEMMA RoundsGrow ==
  ASSUME NEW m, NEW n, NEW c, NEW x, LineAdded(m, n, c, x)
  PROVE  Rounds(n) = Rounds(m) \cup {c}
BY LogGrows

(* The entries of a round are finitely many. *)
LEMMA EntriesFinite ==
  ASSUME NEW m, m.log \in Seq(Line), NEW k
  PROVE  /\ IsFiniteSet(Entries(m, k)) /\ Entries(m, k) \subseteq 1..Len(m.log)
         /\ \A T \in SUBSET Entries(m, k) : IsFiniteSet(T) /\ Cardinality(T) \in Nat
<1>1. Entries(m, k) \subseteq 1..Len(m.log) /\ Len(m.log) \in Nat
  BY DEF Entries
<1>2. IsFiniteSet(1..Len(m.log))
  BY <1>1, FS_Interval
<1> QED  BY <1>1, <1>2, FS_Subset, FS_CardinalityType

(* A round is what its own lines are. *)
LEMMA SameRound ==
  ASSUME NEW m, NEW n, NEW k, Entries(n, k) = Entries(m, k), n.council = m.council,
         \A i \in Entries(m, k) : n.log[i] = m.log[i]
  PROVE  /\ Speakers(n, k) = Speakers(m, k)
         /\ \A s : RoundHeard(n, k, s) <=> RoundHeard(m, k, s)
         /\ RoundOver(n, k) <=> RoundOver(m, k)
<1>1. Speakers(n, k) = Speakers(m, k)
  BY DEF Speakers
<1>2. /\ OwnerLines(n, k) = OwnerLines(m, k)
      /\ MemberLines(n, k) = MemberLines(m, k)
  BY DEF OwnerLines, MemberLines
<1>3. \A s : RoundHeard(n, k, s) <=> RoundHeard(m, k, s)
  BY <1>1, <1>2 DEF RoundHeard
<1> QED  BY <1>1, <1>3 DEF RoundOver

(* A line leaves the rounds that it is not of as they were. *)
LEMMA OtherRounds ==
  ASSUME NEW m, NEW n, NEW c, NEW x, LineAdded(m, n, c, x), n.council = m.council,
         NEW k, k # c
  PROVE  /\ \A s : RoundHeard(n, k, s) <=> RoundHeard(m, k, s)
         /\ RoundOver(n, k) <=> RoundOver(m, k)
<1>1. Entries(n, k) = Entries(m, k) /\ \A i \in Entries(m, k) : n.log[i] = m.log[i]
  BY LogGrows
<1> QED  BY <1>1, SameRound

(* A line of the round under way, by the owner, the chair or a member. *)
LEMMA LineOfRound ==
  ASSUME NEW m, NEW n, NEW c, NEW x, LineAdded(m, n, c, x)
  PROVE  /\ x = "user" => OwnerLines(n, c) = OwnerLines(m, c) \cup {Len(m.log) + 1}
         /\ x # "user" => OwnerLines(n, c) = OwnerLines(m, c)
         /\ x \in Board =>
              /\ MemberLines(n, c) = MemberLines(m, c) \cup {Len(m.log) + 1}
              /\ Speakers(n, c) = Speakers(m, c) \cup {x}
         /\ x \notin Board =>
              MemberLines(n, c) = MemberLines(m, c) /\ Speakers(n, c) = Speakers(m, c)
         /\ Len(m.log) + 1 \notin MemberLines(m, c)
<1> DEFINE l == Len(m.log) + 1
<1>1. /\ Entries(n, c) = Entries(m, c) \cup {l} /\ n.log[l].by = x
      /\ Entries(m, c) \subseteq 1..Len(m.log)
      /\ \A i \in 1..Len(m.log) : n.log[i] = m.log[i]
  BY LogGrows
<1>2. l \notin 1..Len(m.log)
  OBVIOUS
<1>3. \A i \in Entries(m, c) : n.log[i] = m.log[i]
  BY <1>1
<1> HIDE DEF l
<1>4. /\ x = "user" => OwnerLines(n, c) = OwnerLines(m, c) \cup {l}
      /\ x # "user" => OwnerLines(n, c) = OwnerLines(m, c)
  BY <1>1, <1>2, <1>3 DEF OwnerLines
<1>5. /\ x \in Board => MemberLines(n, c) = MemberLines(m, c) \cup {l}
      /\ x \notin Board => MemberLines(n, c) = MemberLines(m, c)
  BY <1>1, <1>2, <1>3 DEF MemberLines
<1>6. {n.log[i].by : i \in Entries(n, c)} = {m.log[i].by : i \in Entries(m, c)} \cup {x}
  <2>1. {n.log[i].by : i \in Entries(n, c)} = {n.log[i].by : i \in Entries(m, c)} \cup {n.log[l].by}
    BY <1>1
  <2>2. {n.log[i].by : i \in Entries(m, c)} = {m.log[i].by : i \in Entries(m, c)}
    BY <1>3
  <2> QED  BY <1>1, <2>1, <2>2
<1>7. x \in {"user", "decision"} <=> x \notin Board
  BY MeetingAssumption DEF LineAdded
<1>8. /\ x \in Board => Speakers(n, c) = Speakers(m, c) \cup {x}
      /\ x \notin Board => Speakers(n, c) = Speakers(m, c)
  BY <1>6, <1>7 DEF Speakers
<1>9. l \notin MemberLines(m, c)
  BY <1>1, <1>2 DEF MemberLines
<1> QED  BY <1>4, <1>5, <1>8, <1>9 DEF l

(* A round begins with the owner's message. *)
LEMMA RoundBegins ==
  ASSUME NEW m, NEW n, NEW c, LineAdded(m, n, c, "user"), Entries(m, c) = {}
  PROVE  RoundHeard(n, c, {})
<1>1. /\ OwnerLines(n, c) = {Len(m.log) + 1}
      /\ MemberLines(n, c) = {}
      /\ Speakers(n, c) = {}
  <2>1. "user" \notin Board
    BY MeetingAssumption
  <2>2. Speakers(m, c) = {} /\ OwnerLines(m, c) = {} /\ MemberLines(m, c) = {}
    BY DEF Speakers, OwnerLines, MemberLines
  <2> QED  BY <2>1, <2>2, LineOfRound
<1>2. Cardinality({Len(m.log) + 1}) = 1 /\ Cardinality({}) = 0 /\ 0 <= max_turns
  <2>1. Cardinality({Len(m.log) + 1}) = 1
    BY FS_Singleton
  <2>2. Cardinality({}) = 0
    BY FS_EmptySet
  <2> QED  BY <2>1, <2>2, MeetingAssumption
<1> QED  BY <1>1, <1>2 DEF RoundHeard

(* A member who has not spoken takes its turn. *)
LEMMA TurnTaken ==
  ASSUME NEW m, NEW n, NEW c, NEW x \in Board, LineAdded(m, n, c, x),
         n.council = m.council, NEW s \in SUBSET Board, x \notin s,
         RoundHeard(m, c, s), Cardinality(s) < max_turns, m.council = {} \/ x \in m.council
  PROVE  RoundHeard(n, c, s \cup {x})
<1> DEFINE l == Len(m.log) + 1
<1>1. /\ OwnerLines(n, c) = OwnerLines(m, c)
      /\ MemberLines(n, c) = MemberLines(m, c) \cup {l}
      /\ Speakers(n, c) = Speakers(m, c) \cup {x} /\ l \notin MemberLines(m, c)
  <2>1. x # "user"
    BY MeetingAssumption
  <2> QED  BY <2>1, LineOfRound
<1>2. IsFiniteSet(MemberLines(m, c)) /\ IsFiniteSet(s) /\ Cardinality(s) \in Nat
  BY EntriesFinite, FS_Subset, FS_CardinalityType, MeetingAssumption DEF LineAdded, MemberLines
<1> HIDE DEF l
<1>3. /\ Cardinality(MemberLines(m, c) \cup {l}) = Cardinality(MemberLines(m, c)) + 1
      /\ Cardinality(s \cup {x}) = Cardinality(s) + 1
  BY <1>1, <1>2, FS_AddElement
<1>4. Cardinality(MemberLines(m, c)) = Cardinality(s)
  BY DEF RoundHeard
<1>5. Cardinality(s \cup {x}) <= max_turns
  BY <1>2, <1>3, MeetingAssumption
<1>6. n.council = {} \/ s \cup {x} \subseteq n.council
  BY DEF RoundHeard
<1> QED  BY <1>1, <1>3, <1>4, <1>5, <1>6 DEF RoundHeard

(* The chair's decision is not a turn. *)
LEMMA DecisionNoted ==
  ASSUME NEW m, NEW n, NEW c, LineAdded(m, n, c, "decision"), n.council = m.council,
         RoundOver(m, c)
  PROVE  RoundOver(n, c)
<1>1. /\ OwnerLines(n, c) = OwnerLines(m, c)
      /\ MemberLines(n, c) = MemberLines(m, c)
      /\ Speakers(n, c) = Speakers(m, c)
  <2>1. "decision" \notin Board /\ "decision" # "user"
    BY MeetingAssumption
  <2> QED  BY <2>1, LineOfRound
<1> QED  BY <1>1 DEF RoundOver, RoundHeard

(* What Consistent says, round by round. *)
LEMMA ConsistentRounds ==
  ASSUME NEW m \in MeetingRecord
  PROVE  Consistent(m) <=>
           (m.log # <<>> =>
              /\ m.count <= max_continuations /\ m.briefs <= m.count + 1
              /\ Rounds(m) = 0..m.count
              /\ \A k \in 0..m.count : RoundOver(m, k))
<1>1. m.log \in Seq(Line)
  BY DEF MeetingRecord
<1>2. ASSUME NEW k PROVE Speakers(m, k) \subseteq Board
  <2>1. \A i \in Entries(m, k) : m.log[i] \in Line
    BY <1>1 DEF Entries
  <2> QED  BY <2>1 DEF Speakers, Line
<1> QED  BY <1>2 DEF Consistent, Rounds, RoundOver, RoundHeard, OwnerLines, MemberLines

(* A prefix, line by line. *)
LEMMA PrefixByLine ==
  ASSUME NEW s \in Seq(Line), NEW t \in Seq(Line)
  PROVE  IsPrefix(s, t) <=> Len(s) <= Len(t) /\ \A i \in 1..Len(s) : s[i] = t[i]
<1>1. Len(s) \in Nat /\ Len(t) \in Nat
  OBVIOUS
<1>2. ASSUME Len(s) <= Len(t)
      PROVE  SubSeq(s, 1, Len(s)) = SubSeq(t, 1, Len(s)) <=> \A i \in 1..Len(s) : s[i] = t[i]
  <2> DEFINE u == SubSeq(s, 1, Len(s))
             v == SubSeq(t, 1, Len(s))
  <2>1. /\ u \in Seq(Line) /\ v \in Seq(Line) /\ Len(u) = Len(s) /\ Len(v) = Len(s)
        /\ \A i \in 1..Len(s) : u[i] = s[i] /\ v[i] = t[i]
    BY <1>1, <1>2
  <2> HIDE DEF u, v
  <2>2. u = v <=> \A i \in 1..Len(s) : s[i] = t[i]
    BY <2>1, SeqEqual
  <2> QED  BY <2>2 DEF u, v
<1> QED  BY <1>2 DEF IsPrefix

(* Whatever is said begins with nothing. *)
LEMMA SaysNothing ==
  ASSUME NEW t \in Seq(Line)
  PROVE  IsPrefix(<<>>, t)
<1> DEFINE s == <<>>
<1>1. s \in Seq(Line) /\ Len(s) = 0
  OBVIOUS
<1> HIDE DEF s
<1>2. IsPrefix(s, t)
  <2>1. Len(s) <= Len(t) /\ \A i \in 1..Len(s) : s[i] = t[i]
    BY <1>1
  <2> QED  BY <1>1, <2>1, PrefixByLine
<1> QED  BY <1>2 DEF s

(* What is said after m begins with what m says. *)
LEMMA SaysMore ==
  ASSUME NEW m, NEW n, NEW c, NEW x, LineAdded(m, n, c, x), NEW s \in Seq(Line),
         IsPrefix(s, m.log)
  PROVE  IsPrefix(s, n.log)
<1>1. /\ m.log \in Seq(Line) /\ n.log \in Seq(Line) /\ Len(n.log) = Len(m.log) + 1
      /\ \A i \in 1..Len(m.log) : n.log[i] = m.log[i]
  <2>1. m.log \in Seq(Line)
    BY DEF LineAdded
  <2> QED  BY <2>1, LogGrows
<1>2. Len(s) <= Len(m.log) /\ \A i \in 1..Len(s) : s[i] = m.log[i]
  BY <1>1, PrefixByLine
<1>3. Len(s) <= Len(n.log) /\ \A i \in 1..Len(s) : s[i] = n.log[i]
  <2>1. Len(s) \in Nat /\ Len(m.log) \in Nat
    BY <1>1
  <2> QED  BY <1>1, <1>2, <2>1
<1> QED  BY <1>1, <1>3, PrefixByLine

(* What is said begins with itself. *)
LEMMA SaysItself ==
  ASSUME NEW s \in Seq(Line)
  PROVE  IsPrefix(s, s)
BY PrefixByLine

-----------------------------------------------------------------------------
(* Steps of a request.                                                     *)

(* Requests and meetings as they begin. *)
LEMMA NothingHeld ==
  /\ NoMeeting \in MeetingRecord /\ NoMeeting.log = <<>> /\ NoMeeting.status = "absent"
  /\ NoMeeting.count = 0 /\ NoMeeting.council = {} /\ NoMeeting.briefs = 0
  /\ NoCall \in CallRecord /\ NoCall.pc = "idle"
  /\ \A m, c : c.pc = "idle" => CopyHeld(c) /\ CopyFollows(m, c)
  /\ \A m : m.log = <<>> /\ m.status # "awaiting_chair_decision" => Whole(m)
<1>1. <<>> \in Seq(Line)
  OBVIOUS
<1>2. NoMeeting \in MeetingRecord
  BY <1>1 DEF NoMeeting, MeetingRecord
<1>3. NoCall \in CallRecord
  BY <1>2 DEF NoCall, CallRecord, CallPC
<1> QED  BY <1>2, <1>3 DEF NoMeeting, NoCall, CopyHeld, CopyFollows, Whole, Consistent

(* One request goes on by itself. *)
LEMMA GoesOnAlone ==
  ASSUME MeetingInv, NEW r \in Call, NEW c \in CallRecord, Becomes(r, c), meeting' = meeting,
         CopyHeld(c), CopyFollows(meeting, c)
  PROVE  MeetingInv' /\ call'[r] = c /\ \A q \in Call : q # r => call'[q] = call[q]
<1>1. /\ call' \in [Call -> CallRecord] /\ call'[r] = c
      /\ \A q \in Call : q # r => call'[q] = call[q]
  BY DEF Becomes, MeetingInv, CallsTyped
<1>2. CallsTyped' /\ Whole(meeting)'
  BY <1>1 DEF MeetingInv, CallsTyped
<1>3. \A q \in Call : CopyHeld(call'[q]) /\ CopyFollows(meeting', call'[q])
  BY <1>1 DEF MeetingInv
<1> QED  BY <1>1, <1>2, <1>3 DEF MeetingInv

(* One request writes: the copies of the others are late. *)
LEMMA WritesAlone ==
  ASSUME MeetingInv, NEW r \in Call, NEW m \in MeetingRecord, NEW c \in CallRecord,
         Writes(r, m, c), Whole(m), m.status \notin {"absent", "running", "adjourned"},
         CopyHeld(c), c.pc \in {"idle", "resave"}, c.pc = "resave" => c.held = m
  PROVE  MeetingInv' /\ \A q \in Call : q # r => call'[q].pc = call[q].pc
<1>1. /\ meeting' = m /\ call[r] \in CallRecord
      /\ call' = [q \in Call |-> IF q = r THEN [c EXCEPT !.late = FALSE]
                                 ELSE [call[q] EXCEPT !.late = @ \/ InFlight(q)]]
  BY DEF Writes, MeetingInv, CallsTyped
<1>2. PICK d : d = [c EXCEPT !.late = FALSE]
  OBVIOUS
<1>3. /\ d \in CallRecord /\ d.pc = c.pc /\ d.held = c.held /\ d.used = c.used
      /\ d.council = c.council
  BY <1>2 DEF CallRecord
<1>4. CopyHeld(d) /\ CopyFollows(m, d)
  BY <1>3 DEF CopyHeld, CopyFollows
<1>5. ASSUME NEW q \in Call, q # r
      PROVE  /\ call'[q] \in CallRecord /\ call'[q].pc = call[q].pc
             /\ CopyHeld(call'[q]) /\ CopyFollows(m, call'[q])
  <2>1. PICK e : e = [call[q] EXCEPT !.late = @ \/ InFlight(q)]
    OBVIOUS
  <2>2. call[q] \in CallRecord /\ CopyHeld(call[q])
    BY DEF MeetingInv, CallsTyped
  <2>3. (call[q].late \/ InFlight(q)) \in BOOLEAN
    OBVIOUS
  <2>4. /\ e \in CallRecord /\ e.pc = call[q].pc /\ e.held = call[q].held
        /\ e.used = call[q].used /\ e.council = call[q].council
        /\ e.late = (call[q].late \/ InFlight(q))
    BY <2>1, <2>2, <2>3 DEF CallRecord
  <2>5. CopyHeld(e)
    BY <2>2, <2>4 DEF CopyHeld
  <2>6. CopyFollows(m, e)
    BY <2>4 DEF CopyFollows, InFlight
  <2>7. call'[q] = e
    BY <1>1, <1>5, <2>1
  <2> QED  BY <2>4, <2>5, <2>6, <2>7
<1>6. call'[r] = d
  BY <1>1, <1>2
<1>7. \A q \in Call : /\ call'[q] \in CallRecord
                      /\ CopyHeld(call'[q]) /\ CopyFollows(m, call'[q])
  BY <1>3, <1>4, <1>5, <1>6
<1>8. call' \in [Call -> CallRecord]
  BY <1>1, <1>7
<1> QED  BY <1>1, <1>5, <1>7, <1>8 DEF MeetingInv, CallsTyped

(* The next speaker is of the council and has not spoken; where there is   *)
(* none, the round is over.                                                *)
LEMMA NextSpeaker ==
  ASSUME NEW c \in CallRecord, Cardinality(c.used) <= max_turns, c.used \subseteq c.council
  PROVE  /\ \A m \in route_next_speaker(c) :
              m \in c.council /\ m \notin c.used /\ Cardinality(c.used) < max_turns
         /\ route_next_speaker(c) = {} =>
              \/ Cardinality(c.used) = max_turns \/ c.council \subseteq c.used
              \/ c.council \cap Listed = {}
<1>1. c.used \in SUBSET Board /\ Cardinality(c.used) \in Nat
  <2>1. c.used \in SUBSET Board
    BY DEF CallRecord
  <2> QED  BY <2>1, FS_Subset, FS_CardinalityType, MeetingAssumption
<1>2. CASE c.used = {}
  <2>1. route_next_speaker(c) = c.council \cap Listed
    BY <1>2 DEF route_next_speaker, _opening_turn_decision
  <2>2. Cardinality(c.used) = 0
    BY <1>2, FS_EmptySet
  <2> QED  BY <1>2, <2>1, <2>2, MeetingAssumption
<1>3. CASE c.used # {} /\ Cardinality(c.used) = max_turns
  BY <1>3 DEF route_next_speaker
<1>4. CASE c.used # {} /\ Cardinality(c.used) # max_turns
  <2>1. Cardinality(c.used) < max_turns
    BY <1>1, <1>4, MeetingAssumption
  <2>2. CASE Available(c) \cap Listed # {}
    <3>1. route_next_speaker(c) = Available(c) \cap Listed
      BY <1>4, <2>2 DEF route_next_speaker
    <3> QED  BY <2>1, <2>2, <3>1 DEF Available
  <2>3. CASE Available(c) \cap Listed = {}
    <3>1. route_next_speaker(c) = Available(c)
      BY <1>4, <2>3 DEF route_next_speaker
    <3> QED  BY <2>1, <3>1 DEF Available
  <2> QED  BY <2>2, <2>3
<1> QED  BY <1>2, <1>3, <1>4

(* A round is under way from the owner's message on. *)
LEMMA RoundOpens ==
  ASSUME NEW m \in MeetingRecord, NEW n \in MeetingRecord, LineAdded(m, n, n.count, "user"),
         n.council = m.council, n.count <= max_continuations,
         Rounds(m) = 0..(n.count - 1),
         \A k \in 0..(n.count - 1) : RoundOver(m, k)
  PROVE  UnderWay(n, {})
<1>1. n.count \in Nat /\ m.log \in Seq(Line)
  BY DEF MeetingRecord
<1>2. Entries(m, n.count) = {}
  <2>1. \A i \in DOMAIN m.log : m.log[i].round \in 0..(n.count - 1)
    BY DEF Rounds
  <2> QED  BY <1>1, <2>1 DEF Entries
<1>3. RoundHeard(n, n.count, {})
  BY <1>2, RoundBegins
<1>4. n.log # <<>>
  <2>1. Len(n.log) = Len(m.log) + 1 /\ Len(m.log) \in Nat
    BY <1>1, LogGrows
  <2> QED  BY <2>1
<1>5. Rounds(n) = 0..n.count
  <2>1. Rounds(n) = (0..(n.count - 1)) \cup {n.count}
    <3>1. Rounds(n) = Rounds(m) \cup {n.count}
      BY RoundsGrow
    <3> QED  BY <3>1
  <2>2. (0..(n.count - 1)) \cup {n.count} = 0..n.count
    BY <1>1
  <2> QED  BY <2>1, <2>2
<1>6. \A k \in 0..n.count : k # n.count => RoundOver(n, k)
  <2> SUFFICES ASSUME NEW k \in 0..n.count, k # n.count PROVE RoundOver(n, k)
    OBVIOUS
  <2>1. k \in 0..(n.count - 1)
    BY <1>1
  <2>2. RoundOver(m, k)
    BY <2>1
  <2> QED  BY <2>2, OtherRounds
<1> QED  BY <1>3, <1>4, <1>5, <1>6 DEF UnderWay

(* A request begins: what it holds is a meeting whose round has just       *)
(* begun.                                                                  *)
LEMMA BeginsKeeps ==
  ASSUME MeetingInv, NEW r \in Call, NEW held \in MeetingRecord, NEW council \in SUBSET Board,
         NEW continued \in BOOLEAN, NEW late \in BOOLEAN,
         Begins(r, held, council, continued, late), meeting' = meeting,
         UnderWay(held, {}), held.briefs <= held.count, held.council \in {{}, council},
         ~late => meeting.status # "adjourned" /\ IsPrefix(meeting.log, held.log)
  PROVE  MeetingInv' /\ \A q \in Call : q # r => call'[q] = call[q]
<1>1. PICK pc \in {"shortcut", "round"} :
        Becomes(r, [pc |-> pc, held |-> held, council |-> council, used |-> {},
                    continued |-> continued, late |-> late])
  BY DEF Begins
<1>2. PICK c : c = [pc |-> pc, held |-> held, council |-> council, used |-> {},
                    continued |-> continued, late |-> late]
  OBVIOUS
<1>3. /\ c \in CallRecord /\ c.pc = pc /\ c.held = held /\ c.council = council /\ c.used = {}
      /\ c.late = late
  BY <1>2 DEF CallRecord, CallPC
<1>4. CopyHeld(c) /\ CopyFollows(meeting, c)
  BY <1>3 DEF CopyHeld, CopyFollows
<1> QED  BY <1>1, <1>2, <1>3, <1>4, GoesOnAlone

(* The first round of a new meeting, which is late for the one there is.   *)
LEMMA OpenKeeps ==
  ASSUME MeetingInv, NEW r \in Call, OpenMeeting(r)
  PROVE  MeetingInv' /\ \A q \in Call : q # r => call'[q] = call[q]
<1>1. PICK council \in Selected :
        Begins(r, [NoMeeting EXCEPT !.status = "running", !.council = council,
                                    !.log = <<[round |-> 0, by |-> "user"]>>],
               council, FALSE, meeting.status # "absent")
  BY DEF OpenMeeting
<1>2. PICK held : held = [NoMeeting EXCEPT !.status = "running", !.council = council,
                                           !.log = <<[round |-> 0, by |-> "user"]>>]
  OBVIOUS
<1>3. council \in SUBSET Board
  BY MeetingAssumption
<1>4. PICK m : m = [NoMeeting EXCEPT !.council = council]
  OBVIOUS
<1>5. m \in MeetingRecord /\ m.log = <<>> /\ m.council = council
  BY <1>3, <1>4, NothingHeld DEF MeetingRecord
<1>6. [round |-> 0, by |-> "user"] \in Line
  BY DEF Line
<1>7. <<[round |-> 0, by |-> "user"]>> = Append(<<>>, [round |-> 0, by |-> "user"])
      /\ <<[round |-> 0, by |-> "user"]>> \in Seq(Line)
  BY <1>6
<1>8. /\ held.log = <<[round |-> 0, by |-> "user"]>> /\ held.council = council
      /\ held.count = 0 /\ held.briefs = 0
  BY <1>2 DEF NoMeeting
<1>9. held \in MeetingRecord
  BY <1>2, <1>3, <1>7, NothingHeld DEF MeetingRecord
<1>10. LineAdded(m, held, held.count, "user")
  BY <1>5, <1>7, <1>8 DEF LineAdded, MeetingRecord
<1>11. UnderWay(held, {})
  <2>1. Rounds(m) = 0..(held.count - 1)
    BY <1>5, <1>8 DEF Rounds
  <2>2. \A k \in 0..(held.count - 1) : RoundOver(m, k)
    BY <1>8
  <2>3. held.count <= max_continuations
    BY <1>8, MeetingAssumption
  <2> QED  BY <1>5, <1>8, <1>9, <1>10, <2>1, <2>2, <2>3, RoundOpens
<1>12. PICK late : late = (meeting.status # "absent")
  OBVIOUS
<1>13. late \in BOOLEAN /\ meeting' = meeting /\ Begins(r, held, council, FALSE, late)
  BY <1>1, <1>2, <1>12 DEF OpenMeeting
<1>14. ASSUME ~late PROVE meeting.status # "adjourned" /\ IsPrefix(meeting.log, held.log)
  <2>1. meeting.log = <<>> /\ meeting.status = "absent" /\ held.log \in Seq(Line)
    BY <1>9, <1>12, <1>14 DEF MeetingInv, CallsTyped, MeetingRecord
  <2> QED  BY <2>1, SaysNothing
<1>15. held.briefs <= held.count /\ held.council \in {{}, council}
  BY <1>8
<1> QED  BY <1>3, <1>9, <1>11, <1>13, <1>14, <1>15, BeginsKeeps

(* The owner goes on with a meeting: the next round is under way.          *)
LEMMA ContinueKeeps ==
  ASSUME MeetingInv, NEW r \in Call, continue_meeting(r)
  PROVE  MeetingInv' /\ meeting' = meeting
<1>1. PICK next : next = [meeting EXCEPT !.status = "running", !.count = @ + 1]
  OBVIOUS
<1>2. PICK held : held = [next EXCEPT !.log = Said(next, "user")]
  OBVIOUS
<1>3. PICK council : council = IF meeting.council = {} THEN Board ELSE meeting.council
  OBVIOUS
<1>4. /\ meeting \in MeetingRecord /\ meeting.count \in Nat /\ meeting.log \in Seq(Line)
      /\ meeting.council \in SUBSET Board
  BY DEF MeetingInv, CallsTyped, MeetingRecord
<1>5. /\ meeting.status = "awaiting_chair_decision" /\ meeting.count < max_continuations
      /\ Begins(r, held, council, TRUE, FALSE) /\ meeting' = meeting
  BY <1>1, <1>2, <1>3 DEF continue_meeting
<1>6. /\ next \in MeetingRecord /\ next.log = meeting.log /\ next.council = meeting.council
      /\ next.count = meeting.count + 1 /\ next.briefs = meeting.briefs
  <2>1. next = [meeting EXCEPT !.status = "running", !.count = meeting.count + 1]
    BY <1>1
  <2>2. meeting.count + 1 \in Nat
    BY <1>4
  <2> QED  BY <1>4, <2>1, <2>2 DEF MeetingRecord
<1>7. /\ [round |-> next.count, by |-> "user"] \in Line
      /\ Said(next, "user") = Append(meeting.log, [round |-> next.count, by |-> "user"])
      /\ Said(next, "user") \in Seq(Line)
  <2>1. [round |-> next.count, by |-> "user"] \in Line
    BY <1>4, <1>6 DEF Line
  <2> QED  BY <1>4, <1>6, <2>1 DEF Said
<1>8. /\ held \in MeetingRecord /\ held.log = Said(next, "user")
      /\ held.council = meeting.council /\ held.count = meeting.count + 1
      /\ held.briefs = meeting.briefs
  BY <1>2, <1>6, <1>7 DEF MeetingRecord
<1>9. LineAdded(meeting, held, held.count, "user")
  BY <1>4, <1>6, <1>7, <1>8 DEF LineAdded
<1>10. /\ meeting.briefs <= meeting.count + 1 /\ Rounds(meeting) = 0..meeting.count
       /\ \A k \in 0..meeting.count : RoundOver(meeting, k)
  <2>1. Consistent(meeting) /\ meeting.log # <<>>
    BY <1>5 DEF MeetingInv, Whole
  <2> QED  BY <1>4, <2>1, ConsistentRounds
<1>11. UnderWay(held, {})
  <2>1. held.count - 1 = meeting.count /\ held.count <= max_continuations
    BY <1>4, <1>5, <1>8, MeetingAssumption
  <2>2. /\ Rounds(meeting) = 0..(held.count - 1)
        /\ \A k \in 0..(held.count - 1) : RoundOver(meeting, k)
    BY <1>10, <2>1
  <2> QED  BY <1>4, <1>8, <1>9, <2>1, <2>2, RoundOpens
<1>12. IsPrefix(meeting.log, held.log)
  BY <1>4, <1>9, SaysItself, SaysMore
<1>13. council \in SUBSET Board /\ held.council \in {{}, council}
  BY <1>3, <1>4, <1>8
<1>14. held.briefs <= held.count /\ meeting.status # "adjourned"
  BY <1>5, <1>8, <1>10
<1> QED  BY <1>5, <1>8, <1>11, <1>12, <1>13, <1>14, BeginsKeeps

(* Records that say the same.                                              *)
LEMMA SaysTheSame ==
  ASSUME NEW m, NEW n, n.log = m.log, n.council = m.council
  PROVE  /\ \A k, s : RoundHeard(n, k, s) <=> RoundHeard(m, k, s)
         /\ \A k : RoundOver(n, k) <=> RoundOver(m, k)
         /\ Rounds(n) = Rounds(m)
         /\ n.count = m.count => \A s : UnderWay(n, s) <=> UnderWay(m, s)
<1>1. \A k : Entries(n, k) = Entries(m, k)
  BY DEF Entries
<1>2. \A k : \A s : RoundHeard(n, k, s) <=> RoundHeard(m, k, s)
  BY <1>1, SameRound
<1>3. \A k : RoundOver(n, k) <=> RoundOver(m, k)
  BY <1>1, SameRound
<1>4. Rounds(n) = Rounds(m)
  BY DEF Rounds
<1>5. ASSUME n.count = m.count, NEW s PROVE UnderWay(n, s) <=> UnderWay(m, s)
  BY <1>2, <1>3, <1>4, <1>5 DEF UnderWay
<1> QED  BY <1>2, <1>3, <1>4, <1>5

(* When its last round is over the meeting can be written. *)
LEMMA RoundsOver ==
  ASSUME NEW m \in MeetingRecord, NEW s, UnderWay(m, s), RoundOver(m, m.count),
         m.briefs <= m.count + 1
  PROVE  Whole(m)
<1>1. m.count \in Nat /\ \A k \in 0..m.count : RoundOver(m, k)
  BY DEF MeetingRecord, UnderWay
<1>2. m.log # <<>> /\ Consistent(m)
  BY <1>1, ConsistentRounds DEF UnderWay
<1> QED  BY <1>2 DEF Whole

(* A request that has written is done, or writes once more. *)
LEMMA AfterWriting ==
  ASSUME CallsTyped, NEW r \in Call, NEW m \in MeetingRecord, Whole(m),
         m.status \in {"awaiting_chair_decision", "completed"}
  PROVE  LET c == After(r, m)
         IN /\ c \in CallRecord /\ c.pc \in {"idle", "resave"} /\ CopyHeld(c)
            /\ c.pc = "resave" => c.held = m
<1>1. CASE call[r].continued
  <2>1. PICK c : c = [call[r] EXCEPT !.pc = "resave", !.held = m]
    OBVIOUS
  <2>2. call[r] \in CallRecord
    BY DEF CallsTyped
  <2>3. c \in CallRecord /\ c.pc = "resave" /\ c.held = m
    BY <2>1, <2>2 DEF CallRecord, CallPC
  <2>4. CopyHeld(c)
    BY <2>3 DEF CopyHeld
  <2> QED  BY <1>1, <2>1, <2>3, <2>4 DEF After
<1>2. CASE ~call[r].continued
  BY <1>2, NothingHeld DEF After
<1> QED  BY <1>1, <1>2

(* What a step may do to the file: see MeetingKept.                        *)
StepKept ==
  /\ meeting' # meeting => Consistent(meeting')
  /\ \A r \in Call : Saves(r) /\ ~call[r].late =>
       /\ meeting.status # "adjourned"
       /\ meeting'.status = "completed" \/ IsPrefix(meeting.log, meeting'.log)

(* A request writes what it holds, or what it was asked for.               *)
LEMMA WriteKept ==
  ASSUME MeetingInv, NEW r \in Call, InFlight(r), NEW m \in MeetingRecord, NEW c \in CallRecord,
         Writes(r, m, c), Whole(m), m.status \in {"awaiting_chair_decision", "completed"},
         CopyHeld(c), c.pc \in {"idle", "resave"}, c.pc = "resave" => c.held = m,
         ~call[r].late => m = meeting \/ m.status = "completed" \/ IsPrefix(meeting.log, m.log)
  PROVE  MeetingInv' /\ StepKept
<1>1. MeetingInv' /\ \A q \in Call : q # r => call'[q].pc = call[q].pc
  BY WritesAlone
<1>2. meeting' = m
  BY DEF Writes
<1>3. ASSUME NEW q \in Call, Saves(q), ~call[q].late
      PROVE  /\ meeting.status # "adjourned"
             /\ meeting'.status = "completed" \/ IsPrefix(meeting.log, meeting'.log)
  <2>1. q = r /\ meeting' # meeting
    BY <1>1, <1>3 DEF Saves
  <2>2. meeting.status # "adjourned"
    BY <1>3, <2>1 DEF MeetingInv, CopyFollows, InFlight
  <2> QED  BY <1>2, <1>3, <2>1, <2>2
<1>4. Consistent(meeting')
  BY <1>2 DEF Whole
<1> QED  BY <1>1, <1>3, <1>4 DEF StepKept

(* Where nothing is written nothing is lost.                               *)
LEMMA NothingWritten ==
  ASSUME meeting' = meeting
  PROVE  StepKept
BY DEF StepKept, Saves

(* A request that ends without a word. *)
LEMMA CallEnds ==
  ASSUME MeetingInv, NEW r \in Call, Becomes(r, NoCall), meeting' = meeting
  PROVE  MeetingInv' /\ StepKept
<1>1. NoCall \in CallRecord /\ CopyHeld(NoCall) /\ CopyFollows(meeting, NoCall)
  BY NothingHeld
<1> QED  BY <1>1, GoesOnAlone, NothingWritten

(* The brief takes the place of the meeting. *)
LEMMA ShortcutKeeps ==
  ASSUME MeetingInv, NEW r \in Call, MeetingShortcut(r)
  PROVE  MeetingInv' /\ StepKept
<1>1. PICK brief : brief = [NoMeeting EXCEPT !.status = "completed", !.briefs = 1]
  OBVIOUS
<1>2. /\ brief \in MeetingRecord /\ brief.status = "completed" /\ brief.log = <<>>
  BY <1>1, NothingHeld DEF MeetingRecord
<1>3. Whole(brief)
  BY <1>2, NothingHeld
<1>4. CASE Becomes(r, NoCall) /\ UNCHANGED meeting
  BY <1>4, CallEnds
<1>5. CASE Writes(r, brief, After(r, brief))
  <2>1. PICK c : c = After(r, brief)
    OBVIOUS
  <2>2. /\ c \in CallRecord /\ c.pc \in {"idle", "resave"} /\ CopyHeld(c)
        /\ c.pc = "resave" => c.held = brief
    BY <1>2, <1>3, <2>1, AfterWriting DEF MeetingInv
  <2>3. Writes(r, brief, c) /\ InFlight(r)
    BY <1>5, <2>1 DEF MeetingShortcut, InFlight
  <2> QED  BY <1>2, <1>3, <2>2, <2>3, WriteKept
<1> QED  BY <1>1, <1>4, <1>5 DEF MeetingShortcut

(* A member speaks, once in the round and within the budget of turns, or   *)
(* the request ends.                                                       *)
LEMMA MessageKeeps ==
  ASSUME MeetingInv, NEW r \in Call, _stream_member_message(r)
  PROVE  MeetingInv' /\ StepKept
<1> DEFINE a == call[r]
           h == call[r].held
<1>1. /\ a \in CallRecord /\ a.pc = "round" /\ CopyHeld(a) /\ CopyFollows(meeting, a)
      /\ h \in MeetingRecord /\ h.count \in Nat /\ h.log \in Seq(Line) /\ meeting' = meeting
      /\ meeting.log \in Seq(Line) /\ a.used \in SUBSET Board /\ a.council \in SUBSET Board
  BY DEF MeetingInv, CallsTyped, CallRecord, MeetingRecord, _stream_member_message
<1>2. PICK m \in route_next_speaker(a) :
        \/ Becomes(r, [a EXCEPT !.used = @ \cup {m}, !.held.log = Said(h, m)])
        \/ Becomes(r, NoCall)
  BY DEF _stream_member_message
<1>3. CASE Becomes(r, NoCall)
  BY <1>1, <1>3, CallEnds
<1>4. CASE Becomes(r, [a EXCEPT !.used = @ \cup {m}, !.held.log = Said(h, m)])
  <2>1. PICK c : c = [a EXCEPT !.used = @ \cup {m}, !.held.log = Said(h, m)]
    OBVIOUS
  <2>2. /\ UnderWay(h, a.used) /\ h.briefs <= h.count /\ h.council \in {{}, a.council}
        /\ a.used \subseteq a.council
    BY <1>1 DEF CopyHeld
  <2>3. RoundHeard(h, h.count, a.used) /\ Cardinality(a.used) <= max_turns
    BY <2>2 DEF UnderWay, RoundHeard
  <2>4. m \in a.council /\ m \notin a.used /\ Cardinality(a.used) < max_turns /\ m \in Board
    BY <1>1, <2>2, <2>3, NextSpeaker
  <2>5. /\ [round |-> h.count, by |-> m] \in Line
        /\ Said(h, m) = Append(h.log, [round |-> h.count, by |-> m])
        /\ Said(h, m) \in Seq(Line)
    <3>1. [round |-> h.count, by |-> m] \in Line
      BY <1>1, <2>4 DEF Line
    <3> QED  BY <1>1, <3>1 DEF Said
  <2>6. PICK n : n = [h EXCEPT !.log = Said(h, m)]
    OBVIOUS
  <2>7. /\ n \in MeetingRecord /\ n.log = Said(h, m) /\ n.council = h.council
        /\ n.count = h.count /\ n.briefs = h.briefs
    BY <1>1, <2>5, <2>6 DEF MeetingRecord
  <2>8. /\ c = [a EXCEPT !.used = @ \cup {m}, !.held = n]
    BY <1>1, <2>1, <2>6 DEF CallRecord
  <2>9. /\ c \in CallRecord /\ c.pc = "round" /\ c.held = n /\ c.used = a.used \cup {m}
        /\ c.council = a.council /\ c.late = a.late
    BY <1>1, <2>4, <2>7, <2>8 DEF CallRecord
  <2>10. LineAdded(h, n, h.count, m)
    BY <1>1, <2>4, <2>5, <2>7 DEF LineAdded
  <2>11. UnderWay(n, a.used \cup {m})
    <3>1. RoundHeard(n, h.count, a.used \cup {m})
      <4>1. h.council = {} \/ m \in h.council
        BY <2>2, <2>4
      <4> QED  BY <1>1, <2>3, <2>4, <2>7, <2>10, <4>1, TurnTaken
    <3>2. \A k \in 0..h.count : k # h.count => RoundOver(n, k)
      <4> SUFFICES ASSUME NEW k \in 0..h.count, k # h.count PROVE RoundOver(n, k)
        OBVIOUS
      <4>1. RoundOver(h, k)
        BY <2>2 DEF UnderWay
      <4> QED  BY <2>7, <2>10, <4>1, OtherRounds
    <3>3. Rounds(n) = 0..h.count
      <4>1. Rounds(h) = 0..h.count
        BY <2>2 DEF UnderWay
      <4>2. Rounds(n) = Rounds(h) \cup {h.count}
        BY <2>10, RoundsGrow
      <4> QED  BY <1>1, <4>1, <4>2
    <3>4. n.log # <<>>
      <4>1. Len(n.log) = Len(h.log) + 1 /\ Len(h.log) \in Nat
        BY <1>1, <2>10, LogGrows
      <4> QED  BY <4>1
    <3>5. h.count <= max_continuations
      BY <2>2 DEF UnderWay
    <3> QED  BY <2>7, <3>1, <3>2, <3>3, <3>4, <3>5 DEF UnderWay
  <2>12. CopyHeld(c)
    BY <2>2, <2>4, <2>7, <2>9, <2>11 DEF CopyHeld
  <2>13. CopyFollows(meeting, c)
    <3>1. ASSUME ~a.late PROVE IsPrefix(meeting.log, n.log)
      <4>1. IsPrefix(meeting.log, h.log)
        BY <1>1, <3>1 DEF CopyFollows
      <4> QED  BY <1>1, <2>10, <4>1, SaysMore
    <3> QED  BY <1>1, <2>9, <3>1 DEF CopyFollows
  <2>14. Becomes(r, c)
    BY <1>4, <2>1
  <2> QED  BY <1>1, <2>9, <2>12, <2>13, <2>14, GoesOnAlone, NothingWritten
<1> QED  BY <1>2, <1>3, <1>4

(* The round is over when nobody is left to speak, and not before. *)
LEMMA TurnsOverKeeps ==
  ASSUME MeetingInv, NEW r \in Call, TurnsOver(r)
  PROVE  MeetingInv' /\ StepKept
<1> DEFINE a == call[r]
           h == call[r].held
           n == [h EXCEPT !.status = "awaiting_chair_decision"]
<1>1. /\ a \in CallRecord /\ a.pc = "round" /\ CopyHeld(a) /\ CopyFollows(meeting, a)
      /\ h \in MeetingRecord /\ meeting' = meeting /\ h.briefs \in Nat /\ h.count \in Nat
      /\ route_next_speaker(a) = {}
  BY DEF MeetingInv, CallsTyped, CallRecord, MeetingRecord, TurnsOver
<1>2. /\ UnderWay(h, a.used) /\ h.briefs <= h.count /\ h.council \in {{}, a.council}
      /\ a.used \subseteq a.council
  BY <1>1 DEF CopyHeld
<1>3. /\ RoundHeard(h, h.count, a.used) /\ Cardinality(a.used) <= max_turns
      /\ Speakers(h, h.count) = a.used
  BY <1>2 DEF UnderWay, RoundHeard
<1>4. RoundOver(h, h.count)
  <2>1. \/ Cardinality(a.used) = max_turns \/ a.council \subseteq a.used
        \/ a.council \cap Listed = {}
    BY <1>1, <1>2, <1>3, NextSpeaker
  <2>2. \/ Cardinality(a.used) = max_turns \/ h.council \subseteq a.used
        \/ h.council \cap Listed = {}
    BY <1>2, <2>1
  <2> QED  BY <1>3, <2>2 DEF RoundOver
<1>5. PICK c : c = [a EXCEPT !.held.status = "awaiting_chair_decision",
                             !.pc = IF a.used = {} THEN "save" ELSE "brief"]
  OBVIOUS
<1>6. /\ n \in MeetingRecord /\ n.log = h.log /\ n.council = h.council /\ n.count = h.count
      /\ n.briefs = h.briefs /\ n.status = "awaiting_chair_decision"
  BY <1>1 DEF MeetingRecord
<1>7. c = [a EXCEPT !.held = n, !.pc = IF a.used = {} THEN "save" ELSE "brief"]
  BY <1>1, <1>5 DEF CallRecord
<1> HIDE DEF n
<1>8. /\ c \in CallRecord /\ c.pc \in {"save", "brief"} /\ c.held = n /\ c.used = a.used
      /\ c.council = a.council /\ c.late = a.late
  BY <1>1, <1>6, <1>7 DEF CallRecord, CallPC
<1>9. UnderWay(n, a.used) /\ RoundOver(n, n.count)
  BY <1>2, <1>4, <1>6, SaysTheSame
<1>10. Whole(n)
  <2>1. n.briefs <= n.count + 1
    BY <1>1, <1>2, <1>6
  <2> QED  BY <1>6, <1>9, <2>1, RoundsOver
<1>11. CopyHeld(c)
  BY <1>2, <1>6, <1>8, <1>9, <1>10 DEF CopyHeld
<1>12. CopyFollows(meeting, c)
  BY <1>1, <1>6, <1>8 DEF CopyFollows
<1>13. Becomes(r, c)
  BY <1>5 DEF TurnsOver
<1> QED  BY <1>1, <1>8, <1>11, <1>12, <1>13, GoesOnAlone, NothingWritten

(* One round adds at most one brief. *)
LEMMA BriefKeeps ==
  ASSUME MeetingInv, NEW r \in Call, _produce_live_secretary_brief(r)
  PROVE  MeetingInv' /\ StepKept
<1> DEFINE a == call[r]
           h == call[r].held
<1>1. /\ a \in CallRecord /\ a.pc = "brief" /\ CopyHeld(a) /\ CopyFollows(meeting, a)
      /\ h \in MeetingRecord /\ meeting' = meeting /\ h.briefs \in Nat /\ h.count \in Nat
  BY DEF MeetingInv, CallsTyped, CallRecord, MeetingRecord, _produce_live_secretary_brief
<1>2. PICK made \in 0..1 : Becomes(r, [a EXCEPT !.pc = "save", !.held.briefs = @ + made])
  BY DEF _produce_live_secretary_brief
<1>3. PICK c : c = [a EXCEPT !.pc = "save", !.held.briefs = @ + made]
  OBVIOUS
<1>4. PICK n : n = [h EXCEPT !.briefs = h.briefs + made]
  OBVIOUS
<1>5. /\ n \in MeetingRecord /\ n.log = h.log /\ n.council = h.council /\ n.count = h.count
      /\ n.briefs = h.briefs + made /\ n.status = h.status
  BY <1>1, <1>4 DEF MeetingRecord
<1>6. c = [a EXCEPT !.pc = "save", !.held = n]
  BY <1>1, <1>3, <1>4 DEF CallRecord
<1>7. /\ c \in CallRecord /\ c.pc = "save" /\ c.held = n /\ c.late = a.late
  BY <1>1, <1>5, <1>6 DEF CallRecord, CallPC
<1>8. /\ UnderWay(h, a.used) /\ h.briefs <= h.count /\ RoundOver(h, h.count)
      /\ h.status = "awaiting_chair_decision"
  BY <1>1 DEF CopyHeld
<1>9. Whole(n)
  <2>1. n.briefs <= n.count + 1
    BY <1>1, <1>5, <1>8
  <2>2. UnderWay(n, a.used) /\ RoundOver(n, n.count)
    BY <1>5, <1>8, SaysTheSame
  <2> QED  BY <1>5, <2>1, <2>2, RoundsOver
<1>10. CopyHeld(c)
  BY <1>5, <1>7, <1>8, <1>9 DEF CopyHeld
<1>11. CopyFollows(meeting, c)
  BY <1>1, <1>5, <1>7 DEF CopyFollows
<1>12. Becomes(r, c)
  BY <1>2, <1>3
<1> QED  BY <1>1, <1>7, <1>10, <1>11, <1>12, GoesOnAlone, NothingWritten

(* The round is written as it was held. *)
LEMMA SaveKeeps ==
  ASSUME MeetingInv, NEW r \in Call, SaveMeeting(r)
  PROVE  MeetingInv' /\ StepKept
<1> DEFINE h == call[r].held
<1>1. /\ call[r] \in CallRecord /\ h \in MeetingRecord /\ InFlight(r)
      /\ CopyHeld(call[r]) /\ CopyFollows(meeting, call[r]) /\ call[r].pc = "save"
  BY DEF MeetingInv, CallsTyped, CallRecord, SaveMeeting, InFlight
<1>2. Whole(h) /\ h.status \in {"awaiting_chair_decision", "completed"}
  BY <1>1 DEF CopyHeld
<1>3. ~call[r].late => IsPrefix(meeting.log, h.log)
  BY <1>1 DEF CopyFollows
<1>4. PICK c : c = After(r, h)
  OBVIOUS
<1>5. /\ c \in CallRecord /\ c.pc \in {"idle", "resave"} /\ CopyHeld(c)
      /\ c.pc = "resave" => c.held = h
  BY <1>1, <1>2, <1>4, AfterWriting DEF MeetingInv
<1>6. Writes(r, h, c)
  BY <1>4 DEF SaveMeeting
<1> HIDE DEF h
<1> QED  BY <1>1, <1>2, <1>3, <1>5, <1>6, WriteKept

(* What is saved once more is what the request has saved, which is the     *)
(* file itself unless someone wrote in between.                            *)
LEMMA SaveAgainKeeps ==
  ASSUME MeetingInv, NEW r \in Call, SaveAgain(r)
  PROVE  MeetingInv' /\ StepKept
<1> DEFINE h == call[r].held
<1>1. /\ call[r] \in CallRecord /\ h \in MeetingRecord /\ InFlight(r)
      /\ CopyHeld(call[r]) /\ CopyFollows(meeting, call[r]) /\ call[r].pc = "resave"
  BY DEF MeetingInv, CallsTyped, CallRecord, SaveAgain, InFlight
<1>2. Whole(h) /\ h.status \in {"awaiting_chair_decision", "completed"}
  BY <1>1 DEF CopyHeld
<1>3. ~call[r].late => h = meeting
  BY <1>1 DEF CopyFollows
<1>4. NoCall \in CallRecord /\ NoCall.pc = "idle" /\ CopyHeld(NoCall)
  BY NothingHeld
<1>5. CASE Writes(r, h, NoCall)
  <2> HIDE DEF h
  <2> QED  BY <1>1, <1>2, <1>3, <1>4, <1>5, WriteKept
<1>6. CASE Becomes(r, NoCall) /\ UNCHANGED meeting
  BY <1>6, CallEnds
<1> QED  BY <1>5, <1>6 DEF SaveAgain

(* An adjournment adds at most a line, and makes late whoever holds a      *)
(* round.                                                                  *)
LEMMA AdjournKeeps ==
  ASSUME MeetingInv, adjourn_meeting
  PROVE  MeetingInv' /\ StepKept
<1>1. PICK log \in {meeting.log, Said(meeting, "decision")} :
        meeting' = [meeting EXCEPT !.status = "adjourned", !.log = log]
  BY DEF adjourn_meeting
<1>2. PICK n : n = [meeting EXCEPT !.status = "adjourned", !.log = log]
  OBVIOUS
<1>3. /\ meeting \in MeetingRecord /\ meeting.count \in Nat /\ meeting.log \in Seq(Line)
      /\ meeting.log # <<>>
  BY DEF MeetingInv, CallsTyped, MeetingRecord, adjourn_meeting, Whole
<1>4. /\ meeting.count <= max_continuations /\ meeting.briefs <= meeting.count + 1
      /\ Rounds(meeting) = 0..meeting.count
      /\ \A k \in 0..meeting.count : RoundOver(meeting, k)
  BY <1>3, ConsistentRounds DEF MeetingInv, Whole
<1>5. /\ [round |-> meeting.count, by |-> "decision"] \in Line
      /\ Said(meeting, "decision") =
           Append(meeting.log, [round |-> meeting.count, by |-> "decision"])
      /\ Said(meeting, "decision") \in Seq(Line)
  <2>1. [round |-> meeting.count, by |-> "decision"] \in Line
    BY <1>3 DEF Line
  <2> QED  BY <1>3, <2>1 DEF Said
<1>6. /\ n \in MeetingRecord /\ n.log = log /\ n.council = meeting.council
      /\ n.count = meeting.count /\ n.briefs = meeting.briefs /\ n.status = "adjourned"
  BY <1>2, <1>3, <1>5 DEF MeetingRecord
<1>7. n.log # <<>> /\ Rounds(n) = 0..n.count /\ \A k \in 0..n.count : RoundOver(n, k)
  <2>1. CASE n.log = meeting.log
    BY <1>3, <1>4, <1>6, <2>1, SaysTheSame
  <2>2. CASE n.log = Said(meeting, "decision")
    <3>1. LineAdded(meeting, n, meeting.count, "decision")
      BY <1>3, <1>5, <2>2 DEF LineAdded
    <3>2. Len(n.log) = Len(meeting.log) + 1 /\ Len(meeting.log) \in Nat
      BY <1>3, <3>1, LogGrows
    <3>3. Rounds(n) = Rounds(meeting) \cup {meeting.count}
      BY <3>1, RoundsGrow
    <3>4. RoundOver(n, meeting.count)
      <4>1. RoundOver(meeting, meeting.count)
        BY <1>3, <1>4
      <4> QED  BY <1>6, <3>1, <4>1, DecisionNoted
    <3>5. ASSUME NEW k \in 0..meeting.count, k # meeting.count PROVE RoundOver(n, k)
      BY <1>4, <1>6, <3>1, <3>5, OtherRounds
    <3> QED  BY <1>3, <1>4, <1>6, <3>2, <3>3, <3>4, <3>5
  <2> QED  BY <1>1, <1>6, <2>1, <2>2
<1>8. Whole(n) /\ Consistent(n)
  <2>1. Consistent(n)
    BY <1>4, <1>6, <1>7, ConsistentRounds
  <2> QED  BY <1>7, <2>1 DEF Whole
<1>9. meeting' = n
  BY <1>1, <1>2
<1>10. ASSUME NEW q \in Call
       PROVE  /\ call'[q] \in CallRecord /\ call'[q].pc = call[q].pc
              /\ CopyHeld(call'[q]) /\ CopyFollows(n, call'[q])
  <2>1. PICK e : e = [call[q] EXCEPT !.late = @ \/ InFlight(q)]
    OBVIOUS
  <2>2. call[q] \in CallRecord /\ CopyHeld(call[q])
    BY DEF MeetingInv, CallsTyped
  <2>3. (call[q].late \/ InFlight(q)) \in BOOLEAN
    OBVIOUS
  <2>4. /\ e \in CallRecord /\ e.pc = call[q].pc /\ e.held = call[q].held
        /\ e.used = call[q].used /\ e.council = call[q].council
        /\ e.late = (call[q].late \/ InFlight(q))
    BY <2>1, <2>2, <2>3 DEF CallRecord
  <2>5. CopyHeld(e)
    BY <2>2, <2>4 DEF CopyHeld
  <2>6. CopyFollows(n, e)
    BY <2>4 DEF CopyFollows, InFlight
  <2>7. call'[q] = e
    BY <2>1 DEF adjourn_meeting
  <2> QED  BY <2>4, <2>5, <2>6, <2>7
<1>11. call' \in [Call -> CallRecord]
  BY <1>10 DEF adjourn_meeting
<1>12. MeetingInv'
  BY <1>6, <1>8, <1>9, <1>10, <1>11 DEF MeetingInv, CallsTyped
<1>13. StepKept
  BY <1>8, <1>9, <1>10 DEF StepKept, Saves
<1> QED  BY <1>12, <1>13

(* The rounds that are held are lost. *)
LEMMA StopKeeps ==
  ASSUME MeetingInv, ServerStops
  PROVE  MeetingInv' /\ StepKept
<1>1. meeting' = meeting /\ call' = [r \in Call |-> NoCall]
  BY DEF ServerStops
<1>2. /\ NoCall \in CallRecord /\ CopyHeld(NoCall) /\ CopyFollows(meeting, NoCall)
  BY NothingHeld
<1>3. MeetingInv'
  BY <1>1, <1>2 DEF MeetingInv, CallsTyped
<1> QED  BY <1>1, <1>3, NothingWritten

(* Every step of a meeting keeps the invariant, and keeps the meeting. *)
LEMMA MeetingStep ==
  ASSUME MeetingInv, [MeetingNext]_meetingVars
  PROVE  MeetingInv' /\ StepKept
<1>1. ASSUME NEW r \in Call, RoundStep(r) PROVE MeetingInv' /\ StepKept
  BY <1>1, ShortcutKeeps, MessageKeeps, TurnsOverKeeps, BriefKeeps, SaveKeeps, SaveAgainKeeps
  DEF RoundStep
<1>2. ASSUME NEW r \in Call, OpenMeeting(r) PROVE MeetingInv' /\ StepKept
  <2>1. meeting' = meeting
    BY <1>2 DEF OpenMeeting
  <2> QED  BY <1>2, <2>1, OpenKeeps, NothingWritten
<1>3. ASSUME NEW r \in Call, continue_meeting(r) PROVE MeetingInv' /\ StepKept
  BY <1>3, ContinueKeeps, NothingWritten
<1>4. CASE UNCHANGED meetingVars
  <2>1. meeting' = meeting /\ call' = call
    BY <1>4 DEF meetingVars
  <2>2. MeetingInv'
    BY <2>1 DEF MeetingInv, CallsTyped
  <2> QED  BY <2>1, <2>2, NothingWritten
<1>5. Opener \subseteq Call
  BY MeetingAssumption
<1>6. CASE MeetingRequest
  BY <1>2, <1>3, <1>5, <1>6, AdjournKeeps, StopKeeps DEF MeetingRequest
<1> QED  BY <1>1, <1>4, <1>6 DEF MeetingNext

(* There is no meeting at first, and nobody holds one. *)
LEMMA MeetingInitial ==
  ASSUME MeetingInit
  PROVE  MeetingInv
<1>1. meeting = NoMeeting /\ call = [r \in Call |-> NoCall]
  BY DEF MeetingInit
<1>2. Whole(NoMeeting) /\ CallsTyped
  BY <1>1, NothingHeld DEF CallsTyped
<1>3. \A r \in Call : CopyHeld(call[r]) /\ CopyFollows(meeting, call[r])
  BY <1>1, NothingHeld
<1> QED  BY <1>1, <1>2, <1>3 DEF MeetingInv
=============================================================================
