---------------------------- MODULE MCBoard_proofs -----------------------------
(***************************************************************************)
(* What a deliberation, a live meeting and an event stream keep, for every *)
(* roster, quorum, cap and number of events.  Each part takes its own      *)
(* steps or stutters, so that its invariant is proved by itself.           *)
(***************************************************************************)
EXTENDS MCBoard, LiveMeeting_proofs, FiniteSetTheorems, SequenceTheorems, TLAPS

DeliberationNext == DeliberationStep \/ Killed
FeedNext == TaskStep \/ FeedStep \/ FeedEnvironment

(* A step of the composition is a step of each part, or leaves it alone.   *)
LEMMA PartsStep ==
  ASSUME [Next]_vars
  PROVE  /\ [DeliberationNext]_deliberationVars
         /\ [MeetingNext]_meetingVars
         /\ [FeedNext]_feedVars
<1> USE DEF DeliberationNext, MeetingNext, FeedNext
<1>1. CASE OneDeliberation
  BY <1>1 DEF OneDeliberation
<1>2. ASSUME NEW r \in Call, OneRound(r)
      PROVE  /\ [DeliberationNext]_deliberationVars
             /\ [MeetingNext]_meetingVars
             /\ [FeedNext]_feedVars
  <2>1. \E q \in Call : RoundStep(q)
    BY <1>2 DEF OneRound
  <2> QED  BY <1>2, <2>1 DEF OneRound
<1>3. CASE OneTask
  BY <1>3 DEF OneTask
<1>4. CASE OneFeed
  BY <1>4 DEF OneFeed
<1>5. CASE Environment
  BY <1>5 DEF Environment
<1>6. CASE UNCHANGED vars
  BY <1>6 DEF vars
<1> QED  BY <1>1, <1>2, <1>3, <1>4, <1>5, <1>6 DEF Next

-----------------------------------------------------------------------------
(* The stream.                                                             *)

Received == [kind : {"event"}, n : 1..MaxEvents] \cup Ends

(* While the generator runs, what it has sent and what is on the queue are *)
(* together what the task has put, in order; it comes to the end of the    *)
(* stream only when the task is done and the queue is empty.               *)
StreamInv ==
  /\ FeedTypeOK
  /\ feed.pc # "done" => \A i \in 1..Len(sent) : sent[i] = Event(i)
  /\ feed.pc \in {"check", "wait"} =>
       /\ Len(sent) + Len(queue) = put
       /\ \A i \in 1..Len(queue) : queue[i] = Len(sent) + i
  /\ feed.pc \in {"result", "done"} => feed.task # "running"
  /\ feed.pc = "result" => Len(sent) = put
  /\ feed.pc = "done" => StreamFaithful

(* What the task and the generator put, take and send is typed. *)
LEMMA FeedTyped ==
  ASSUME StreamInv, FeedNext
  PROVE  FeedTypeOK'
<1> USE StreamAssumption
<1> SUFFICES ASSUME FeedTypeOK PROVE FeedTypeOK'
  BY DEF StreamInv
<1>1. CASE TaskPuts
  BY <1>1 DEF TaskPuts, FeedTypeOK
<1>2. CASE TaskEnds \/ TaskCancelled \/ ClientGone
  BY <1>2 DEF TaskEnds, TaskCancelled, ClientGone, FeedTypeOK
<1>3. CASE CheckTask
  <2>1. Drained(queue) \in Seq(Received) /\ sent \in Seq(Received)
    BY DEF Drained, Event, FeedTypeOK, Received
  <2>2. sent \o Drained(queue) \in Seq(Received)
    BY <2>1, ConcatProperties
  <2>3. sent' \in Seq(Received) /\ queue' \in Seq(1..MaxEvents)
    <3>1. CASE feed.task = "running"
      BY <1>3, <2>1, <3>1 DEF CheckTask, FeedTypeOK
    <3>2. CASE feed.task # "running"
      <4>1. sent' = sent \o Drained(queue) /\ queue' = <<>>
        BY <1>3, <3>2 DEF CheckTask
      <4> QED  BY <2>2, <4>1
    <3> QED  BY <3>1, <3>2
  <2> QED  BY <1>3, <2>3 DEF CheckTask, FeedTypeOK, Received
<1>4. CASE QueueGet
  <2>1. CASE queue = <<>>
    BY <1>4, <2>1 DEF QueueGet, FeedTypeOK
  <2>2. CASE queue # <<>>
    <3>1. Head(queue) \in 1..MaxEvents /\ Tail(queue) \in Seq(1..MaxEvents)
      BY <2>2, HeadTailProperties DEF FeedTypeOK
    <3>2. Event(Head(queue)) \in Received
      BY <3>1 DEF Event, Received
    <3>3. sent' \in Seq(Received) /\ queue' \in Seq(1..MaxEvents)
      <4>1. sent' = Append(sent, Event(Head(queue))) /\ queue' = Tail(queue)
        BY <1>4, <2>2 DEF QueueGet
      <4>2. sent \in Seq(Received)
        BY DEF FeedTypeOK, Received
      <4> QED  BY <3>1, <3>2, <4>1, <4>2, AppendProperties
    <3> QED  BY <1>4, <3>3 DEF QueueGet, FeedTypeOK, Received
  <2> QED  BY <2>1, <2>2
<1>5. CASE SendResult
  <2>1. \A kind \in Outcome : End(kind) \in [kind : {"event"}, n : 1..MaxEvents] \cup Ends
    BY DEF Outcome, End, Ends, Terminal
  <2>2. PICK kind \in Outcome :
          sent' = IF feed.route = "continue" /\ kind = "cancelled" THEN sent
                  ELSE Append(sent, End(kind))
    BY <1>5 DEF SendResult
  <2>3. sent' \in Seq([kind : {"event"}, n : 1..MaxEvents] \cup Ends)
    BY <2>1, <2>2, AppendProperties DEF FeedTypeOK
  <2> QED  BY <1>5, <2>3 DEF SendResult, FeedTypeOK
<1> QED  BY <1>1, <1>2, <1>3, <1>4, <1>5
         DEF FeedNext, TaskStep, FeedStep, FeedEnvironment

(* Every step of the stream keeps what has been sent and what is queued in *)
(* the order of the task.                                                  *)
LEMMA StreamStep ==
  ASSUME StreamInv, FeedNext
  PROVE  StreamInv'
<1> USE StreamAssumption
<1>0. FeedTypeOK /\ FeedTypeOK'
  BY FeedTyped DEF StreamInv
<1>1. CASE TaskPuts
  <2>1. Len(queue') = Len(queue) + 1 /\ queue'[Len(queue) + 1] = put + 1
        /\ \A i \in 1..Len(queue) : queue'[i] = queue[i]
    BY <1>0, <1>1 DEF TaskPuts, FeedTypeOK
  <2>2. Len(sent) \in Nat /\ Len(queue) \in Nat /\ put \in Nat
    BY <1>0 DEF FeedTypeOK
  <2>3. feed' = feed /\ sent' = sent /\ put' = put + 1 /\ feed.task = "running"
    BY <1>1 DEF TaskPuts
  <2>4. feed.pc # "done" /\ feed.pc # "result"
    BY <2>3 DEF StreamInv
  <2>5. ASSUME feed.pc \in {"check", "wait"}
        PROVE  /\ Len(sent) + Len(queue') = put + 1
               /\ \A i \in 1..Len(queue') : queue'[i] = Len(sent) + i
    <3>1. Len(sent) + Len(queue) = put /\ \A i \in 1..Len(queue) : queue[i] = Len(sent) + i
      BY <2>5 DEF StreamInv
    <3>2. ASSUME NEW i \in 1..Len(queue') PROVE queue'[i] = Len(sent) + i
      <4>1. i \in 1..Len(queue) \/ i = Len(queue) + 1
        BY <2>1, <2>2
      <4> QED  BY <2>1, <2>2, <3>1, <4>1
    <3> QED  BY <2>1, <2>2, <3>1, <3>2
  <2> QED  BY <1>0, <2>3, <2>4, <2>5 DEF StreamInv
<1>2. CASE TaskEnds \/ TaskCancelled
  <2>1. /\ feed'.pc = feed.pc /\ feed.task = "running" /\ feed'.task # "running"
        /\ sent' = sent /\ queue' = queue /\ put' = put
    BY <1>0, <1>2 DEF TaskEnds, TaskCancelled, FeedTypeOK
  <2>2. feed.pc # "done" /\ feed.pc # "result"
    BY <2>1 DEF StreamInv
  <2> QED  BY <1>0, <2>1, <2>2 DEF StreamInv
<1>3. CASE ClientGone
  <2>1. feed'.pc = "gone" /\ feed.pc # "done" /\ sent' = sent
    BY <1>0, <1>3 DEF ClientGone, FeedTypeOK
  <2> QED  BY <1>0, <2>1 DEF StreamInv
<1>4. CASE CheckTask
  <2>1. CASE feed.task = "running"
    <3>1. feed'.pc = "wait" /\ sent' = sent /\ queue' = queue /\ put' = put
          /\ feed.pc = "check"
      BY <1>0, <1>4, <2>1 DEF CheckTask, FeedTypeOK
    <3> QED  BY <1>0, <3>1 DEF StreamInv
  <2>2. CASE feed.task # "running"
    <3>1. /\ feed.pc = "check" /\ feed'.pc = "result" /\ feed'.task = feed.task
          /\ sent' = sent \o Drained(queue) /\ put' = put
      BY <1>0, <1>4, <2>2 DEF CheckTask, FeedTypeOK
    <3>2. Drained(queue) \in Seq(Received) /\ sent \in Seq(Received)
          /\ Len(Drained(queue)) = Len(queue)
          /\ \A i \in 1..Len(queue) : Drained(queue)[i] = Event(queue[i])
      BY <1>0 DEF Drained, Event, FeedTypeOK, Received
    <3>3. /\ Len(sent') = Len(sent) + Len(queue)
          /\ \A i \in 1..Len(sent') :
               sent'[i] = IF i <= Len(sent) THEN sent[i] ELSE Drained(queue)[i - Len(sent)]
      <4> DEFINE d == Drained(queue)
      <4>1. sent \in Seq(Received) /\ d \in Seq(Received) /\ sent' = sent \o d
            /\ Len(d) = Len(queue)
        BY <3>1, <3>2
      <4> HIDE DEF d
      <4>2. /\ Len(sent \o d) = Len(sent) + Len(d)
            /\ \A i \in 1..(Len(sent) + Len(d)) :
                 (sent \o d)[i] = IF i <= Len(sent) THEN sent[i] ELSE d[i - Len(sent)]
        BY <4>1, ConcatProperties
      <4> QED  BY <4>1, <4>2 DEF d
    <3>4. /\ Len(sent) \in Nat /\ Len(queue) \in Nat /\ Len(sent) + Len(queue) = put
          /\ \A i \in 1..Len(sent) : sent[i] = Event(i)
          /\ \A i \in 1..Len(queue) : queue[i] = Len(sent) + i
      BY <1>0, <3>1 DEF StreamInv, FeedTypeOK
    <3>5. ASSUME NEW i \in 1..Len(sent') PROVE sent'[i] = Event(i)
      <4>1. CASE i <= Len(sent)
        BY <3>3, <3>4, <4>1
      <4>2. CASE ~(i <= Len(sent))
        <5>1. i - Len(sent) \in 1..Len(queue)
          BY <3>3, <3>4, <4>2
        <5>2. sent'[i] = Event(queue[i - Len(sent)])
          BY <3>2, <3>3, <4>2, <5>1
        <5>3. queue[i - Len(sent)] = i
          BY <3>3, <3>4, <5>1
        <5> QED  BY <5>2, <5>3
      <4> QED  BY <4>1, <4>2
    <3> QED  BY <1>0, <2>2, <3>1, <3>3, <3>4, <3>5 DEF StreamInv
  <2> QED  BY <2>1, <2>2
<1>5. CASE QueueGet
  <2>1. feed.pc = "wait" /\ feed'.pc = "check" /\ put' = put
    BY <1>0, <1>5 DEF QueueGet, FeedTypeOK
  <2>2. CASE queue = <<>>
    <3>1. queue' = queue /\ sent' = sent
      BY <1>5, <2>2 DEF QueueGet
    <3> QED  BY <1>0, <2>1, <3>1 DEF StreamInv
  <2>3. CASE queue # <<>>
    <3>1. sent' = Append(sent, Event(Head(queue))) /\ queue' = Tail(queue)
      BY <1>5, <2>3 DEF QueueGet
    <3>2. /\ Len(sent) \in Nat /\ Len(queue) \in Nat /\ Len(sent) + Len(queue) = put
          /\ \A i \in 1..Len(sent) : sent[i] = Event(i)
          /\ \A i \in 1..Len(queue) : queue[i] = Len(sent) + i
      BY <1>0, <2>1 DEF StreamInv, FeedTypeOK
    <3>3. /\ Len(queue) >= 1 /\ Head(queue) = queue[1] /\ Len(queue') = Len(queue) - 1
          /\ \A i \in 1..Len(queue') : queue'[i] = queue[i + 1]
      BY <1>0, <2>3, <3>1 DEF FeedTypeOK
    <3>4. /\ Len(sent') = Len(sent) + 1 /\ sent'[Len(sent) + 1] = Event(Head(queue))
          /\ \A i \in 1..Len(sent) : sent'[i] = sent[i]
      BY <1>0, <3>1 DEF FeedTypeOK
    <3>5. Head(queue) = Len(sent) + 1
      BY <3>2, <3>3
    <3>6. \A i \in 1..Len(sent') : sent'[i] = Event(i)
      BY <3>2, <3>4, <3>5
    <3>7. \A i \in 1..Len(queue') : queue'[i] = Len(sent') + i
      BY <3>2, <3>3, <3>4
    <3> QED  BY <1>0, <2>1, <3>2, <3>3, <3>4, <3>6, <3>7 DEF StreamInv
  <2> QED  BY <2>2, <2>3
<1>6. CASE SendResult
  <2>1. feed.pc = "result" /\ feed'.pc = "done" /\ put' = put /\ feed'.task = feed.task
    BY <1>0, <1>6 DEF SendResult, FeedTypeOK
  <2>2. PICK kind \in Outcome :
          sent' = IF feed.route = "continue" /\ kind = "cancelled" THEN sent
                  ELSE Append(sent, End(kind))
    BY <1>6 DEF SendResult
  <2>3. /\ Len(sent) \in Nat /\ Len(sent) = put /\ feed.task # "running"
        /\ \A i \in 1..Len(sent) : sent[i] = Event(i)
    BY <1>0, <2>1 DEF StreamInv, FeedTypeOK
  <2>4. CASE sent' = sent
    <3>1. StreamFaithful'
      BY <1>0, <2>3, <2>4 DEF StreamFaithful, FeedTypeOK, Event
    <3> QED  BY <1>0, <2>1, <2>3, <3>1 DEF StreamInv
  <2>5. CASE sent' = Append(sent, End(kind))
    <3>1. /\ Len(sent') = Len(sent) + 1 /\ sent'[Len(sent) + 1] = End(kind)
          /\ \A i \in 1..Len(sent) : sent'[i] = sent[i]
          /\ DOMAIN sent' = 1..(Len(sent) + 1)
      BY <1>0, <2>5 DEF FeedTypeOK
    <3>2. /\ End(kind) \in Ends /\ End(kind).kind = kind
          /\ kind = "complete" => feed.task = "returned"
          /\ feed.task = "raised" => kind = "error"
      BY DEF Outcome, End, Ends, Terminal
    <3>3. ASSUME NEW i \in 1..(Len(sent) + 1)
          PROVE \/ sent'[i] = Event(i)
                \/ /\ sent'[i] \in Ends /\ i = Len(sent') /\ i = put' + 1
                   /\ sent'[i].kind = "complete" => feed'.task = "returned"
                   /\ feed'.task = "raised" => sent'[i].kind = "error"
      <4>1. CASE i = Len(sent) + 1
        BY <2>1, <2>3, <3>1, <3>2, <4>1
      <4>2. CASE i \in 1..Len(sent)
        BY <2>3, <3>1, <4>2
      <4> QED  BY <2>3, <4>1, <4>2
    <3>4. StreamFaithful'
      BY <3>1, <3>3 DEF StreamFaithful, Event
    <3> QED  BY <1>0, <2>1, <2>3, <3>4 DEF StreamInv
  <2> QED  BY <2>2, <2>4, <2>5
<1> QED  BY <1>1, <1>2, <1>3, <1>4, <1>5, <1>6
         DEF FeedNext, TaskStep, FeedStep, FeedEnvironment

(* So every reachable state of the stream has its invariant. *)
LEMMA StreamInvariant == Spec => []StreamInv
<1>1. Init => StreamInv
  <2> SUFFICES ASSUME Init PROVE StreamInv
    OBVIOUS
  <2>1. /\ queue = <<>> /\ put = 0 /\ sent = <<>> /\ feed \in
             [pc : {"check", "done"}, route : {"deliberate", "continue"},
              task : {"running", "returned"}]
        /\ feed.pc = "done" => feed.task = "returned"
    BY DEF Init, FeedInit
  <2>2. FeedTypeOK /\ Len(sent) = 0 /\ Len(queue) = 0 /\ DOMAIN sent = {}
    BY <2>1, StreamAssumption DEF FeedTypeOK
  <2> QED  BY <2>1, <2>2 DEF StreamInv, StreamFaithful
<1>2. StreamInv /\ [Next]_vars => StreamInv'
  <2> SUFFICES ASSUME StreamInv, [Next]_vars PROVE StreamInv'
    OBVIOUS
  <2>1. CASE FeedNext
    BY <2>1, StreamStep
  <2>2. CASE UNCHANGED feedVars
    BY <2>2 DEF feedVars, StreamInv, FeedTypeOK, StreamFaithful
  <2> QED  BY <2>1, <2>2, PartsStep
<1> QED  BY <1>1, <1>2, PTL DEF Spec

(* A client sees the events of a task in the order they were put, each of  *)
(* them once, and the end of the task last: whatever the number of events, *)
(* and wherever they meet the generator's waits and checks.                *)
THEOREM StreamInOrder == Spec => []StreamFaithful
<1>1. StreamInv => StreamFaithful
  <2> SUFFICES ASSUME StreamInv, feed.pc # "done" PROVE StreamFaithful
    BY DEF StreamInv
  <2>1. DOMAIN sent = 1..Len(sent)
    BY DEF StreamInv, FeedTypeOK
  <2> QED  BY <2>1 DEF StreamInv, StreamFaithful
<1> QED  BY <1>1, StreamInvariant, PTL

-----------------------------------------------------------------------------
(* The rebuttals.                                                          *)

(* Nothing is said before the opening and nothing after a statement that   *)
(* closes; a member about to speak has just been addressed, and where it   *)
(* is B, right after a turn of A.                                          *)
RebuttalInv ==
  /\ RebuttalTypeOK
  /\ rebuttal.pc \in {"off", "opening"} => transcript = <<>>
  /\ rebuttal.pc \in {"chair", "member", "validate", "follow"} =>
       \A i \in 1..Len(transcript) : ~transcript[i].closes
  /\ rebuttal.pc = "chair" =>
       /\ Len(transcript) >= 1
       /\ rebuttal.side = "member_b" => transcript[Len(transcript)].role = "member_a"
  /\ rebuttal.pc \in {"member", "validate", "follow"} =>
       /\ Len(transcript) >= 2 /\ transcript[Len(transcript)].role = "chair"
       /\ rebuttal.side = "member_b" => transcript[Len(transcript) - 1].role = "member_a"
  /\ RebuttalOrderly

(* A statement that may be made keeps the order of the ones before it.     *)
LEMMA StatementKeepsOrder ==
  ASSUME RebuttalTypeOK, RebuttalOrderly,
         NEW role \in Side \cup {"chair"}, NEW closes \in BOOLEAN, NEW n \in 0..1,
         Says(role, closes, n),
         \A i \in 1..Len(transcript) : ~transcript[i].closes,
         role # "chair" => Len(transcript) >= 2 /\ transcript[Len(transcript)].role = "chair",
         role = "member_b" => transcript[Len(transcript) - 1].role = "member_a"
  PROVE  /\ transcript' \in Seq(Statement) /\ Len(transcript') = Len(transcript) + 1
         /\ transcript'[Len(transcript')].role = role
         /\ transcript'[Len(transcript')].closes = closes
         /\ \A i \in 1..Len(transcript) : transcript'[i] = transcript[i]
         /\ RebuttalOrderly'
<1> DEFINE l == Len(transcript)
           said == [role |-> role, closes |-> closes, tool_calls |-> n]
<1>1. transcript \in Seq(Statement) /\ l \in Nat /\ DOMAIN transcript = 1..l
  BY DEF RebuttalTypeOK
<1>2. said \in Statement /\ said.role = role /\ said.closes = closes
  BY DEF Statement
<1>3. transcript' = Append(transcript, said)
  BY DEF Says
<1> HIDE DEF said
<1>4. /\ transcript' \in Seq(Statement) /\ Len(transcript') = l + 1
      /\ DOMAIN transcript' = 1..(l + 1) /\ transcript'[l + 1] = said
      /\ \A i \in 1..l : transcript'[i] = transcript[i]
  BY <1>1, <1>2, <1>3
<1>5. ASSUME NEW i \in 1..(l + 1)
      PROVE  /\ transcript'[i].closes => i = l + 1
             /\ transcript'[i].role # "chair" => i > 2 /\ transcript'[i - 1].role = "chair"
  <2>1. CASE i = l + 1
    BY <1>1, <1>2, <1>4, <2>1
  <2>2. CASE i \in 1..l
    <3>1. transcript[i].role # "chair" => i > 2 /\ transcript[i - 1].role = "chair"
      BY <1>1, <2>2 DEF RebuttalOrderly
    <3>2. i > 2 => i - 1 \in 1..l
      BY <1>1, <2>2
    <3> QED  BY <1>4, <2>2, <3>1, <3>2
  <2> QED  BY <1>1, <2>1, <2>2
<1>6. ASSUME NEW i \in 1..(l + 1), transcript'[i].role = "member_b"
      PROVE  \E j \in 1..(l + 1) :
               /\ transcript'[j].role = "member_a" /\ j = i - 2
               /\ \A k \in 1..(l + 1) : transcript'[k].role = "member_b" /\ k < i => k < j
  <2>1. CASE i = l + 1
    <3>1. /\ l >= 2 /\ transcript[l].role = "chair" /\ transcript[l - 1].role = "member_a"
      BY <1>2, <1>4, <1>6, <2>1
    <3>2. l - 1 \in 1..(l + 1) /\ l - 1 = i - 2 /\ l - 1 \in 1..l /\ l \in 1..l
      BY <1>1, <2>1, <3>1
    <3>3. transcript'[l - 1].role = "member_a" /\ transcript'[l].role = "chair"
      BY <1>4, <3>1, <3>2
    <3>4. \A k \in 1..(l + 1) : transcript'[k].role = "member_b" /\ k < i => k < l - 1
      <4> SUFFICES ASSUME NEW k \in 1..(l + 1), transcript'[k].role = "member_b", k < i
                   PROVE k < l - 1
        OBVIOUS
      <4>1. k # l /\ k # l - 1
        BY <3>3
      <4>2. l \in Nat /\ k \in 1..(l + 1) /\ k < l + 1
        BY <1>1, <2>1
      <4> HIDE DEF l
      <4> QED  BY <4>1, <4>2
    <3> QED  BY <3>2, <3>3, <3>4
  <2>2. CASE i \in 1..l
    <3>1. i \in Turns("member_b")
      BY <1>1, <1>4, <1>6, <2>2 DEF Turns
    <3>2. PICK j \in Turns("member_a") :
            j = i - 2 /\ \A k \in Turns("member_b") : k < i => k < j
      BY <3>1 DEF RebuttalOrderly
    <3>3. j \in 1..l /\ transcript[j].role = "member_a"
      BY <1>1, <3>2 DEF Turns
    <3>4. ASSUME NEW k \in 1..(l + 1), transcript'[k].role = "member_b", k < i
          PROVE k < j
      <4>1. k \in 1..l
        BY <1>1, <2>2, <3>4
      <4>2. k \in Turns("member_b")
        BY <1>1, <1>4, <3>4, <4>1 DEF Turns
      <4> QED  BY <3>2, <3>4, <4>2
    <3> QED  BY <1>1, <1>4, <3>2, <3>3, <3>4
  <2> QED  BY <1>1, <2>1, <2>2
<1>7. RebuttalOrderly'
  <2>1. \A r : Turns(r)' = {i \in 1..(l + 1) : transcript'[i].role = r}
    BY <1>4 DEF Turns
  <2> HIDE DEF l
  <2>2. \A i \in DOMAIN transcript' :
          /\ transcript'[i].closes => i = Len(transcript')
          /\ transcript'[i].role # "chair" => i > 2 /\ transcript'[i - 1].role = "chair"
    BY <1>4, <1>5
  <2>3. \A i \in Turns("member_b")' : \E j \in Turns("member_a")' :
          j = i - 2 /\ \A k \in Turns("member_b")' : k < i => k < j
    <3> SUFFICES ASSUME NEW i \in Turns("member_b")'
                 PROVE \E j \in Turns("member_a")' :
                         j = i - 2 /\ \A k \in Turns("member_b")' : k < i => k < j
      OBVIOUS
    <3>1. i \in 1..(l + 1) /\ transcript'[i].role = "member_b"
      BY <2>1
    <3>2. PICK j \in 1..(l + 1) :
             /\ transcript'[j].role = "member_a" /\ j = i - 2
             /\ \A k \in 1..(l + 1) : transcript'[k].role = "member_b" /\ k < i => k < j
      BY <1>6, <3>1
    <3>3. j \in Turns("member_a")' /\ \A k \in Turns("member_b")' : k < i => k < j
      BY <2>1, <3>2
    <3> QED  BY <3>2, <3>3
  <2> QED  BY <2>2, <2>3 DEF RebuttalOrderly
<1> QED  BY <1>2, <1>4, <1>7

(* The turn after one that did not close. *)
LEMMA TurnTyped ==
  ASSUME RebuttalTypeOK, NEW opened \in BOOLEAN, NextTurn(opened)
  PROVE  /\ rebuttal' \in [pc : {"chair", "summary"}, round : 0..max_rounds, side : Side,
                           resolution : Resolution]
         /\ rebuttal'.pc = "chair" /\ rebuttal'.side = "member_b" =>
              rebuttal.side = "member_a" /\ ~opened
<1> USE RebuttalAssumption
<1>1. CASE rebuttal' = [rebuttal EXCEPT !.pc = "chair", !.side = "member_b"]
           /\ ~opened /\ rebuttal.side = "member_a"
  BY <1>1 DEF RebuttalTypeOK, Side
<1>2. CASE rebuttal' = [rebuttal EXCEPT !.pc = "chair", !.round = @ + 1, !.side = "member_a"]
           /\ rebuttal.round < max_rounds
  <2>1. rebuttal.round + 1 \in 0..max_rounds
    BY <1>2 DEF RebuttalTypeOK
  <2> QED  BY <1>2, <2>1 DEF RebuttalTypeOK, Side
<1>3. CASE rebuttal' = [rebuttal EXCEPT !.pc = "summary"]
  BY <1>3 DEF RebuttalTypeOK
<1> QED  BY <1>1, <1>2, <1>3 DEF NextTurn

(* What a rebuttal does next keeps its order of turns.                     *)
LEMMA RebuttalStepOrderly ==
  ASSUME RebuttalInv, RebuttalStep
  PROVE  RebuttalInv'
<1> USE RebuttalAssumption
<1>0. RebuttalTypeOK /\ RebuttalOrderly /\ transcript \in Seq(Statement) /\ Len(transcript) \in Nat
  BY DEF RebuttalInv, RebuttalTypeOK
<1>1. CASE ChairOpens
  <2>1. PICK closes \in BOOLEAN :
          /\ Says("chair", closes, 0)
          /\ IF closes THEN rebuttal' = [rebuttal EXCEPT !.pc = "summary"] ELSE NextTurn(TRUE)
    BY <1>1 DEF ChairOpens
  <2>2. transcript = <<>> /\ Len(transcript) = 0
    BY <1>1 DEF ChairOpens, RebuttalInv
  <2>3. /\ transcript' \in Seq(Statement) /\ Len(transcript') = 1
        /\ transcript'[1].closes = closes /\ RebuttalOrderly'
    BY <1>0, <2>1, <2>2, StatementKeepsOrder
  <2>4. /\ rebuttal' \in [pc : {"chair", "summary"}, round : 0..max_rounds, side : Side,
                          resolution : Resolution]
        /\ rebuttal'.pc = "chair" => ~closes /\ rebuttal'.side = "member_a"
    <3>1. CASE closes
      BY <1>0, <2>1, <3>1 DEF RebuttalTypeOK
    <3>2. CASE ~closes
      <4>1. rebuttal'.side \in Side
        BY <1>0, <2>1, <3>2, TurnTyped
      <4> QED  BY <1>0, <2>1, <3>2, <4>1, TurnTyped DEF Side
    <3> QED  BY <3>1, <3>2
  <2>5. RebuttalTypeOK'
    BY <2>3, <2>4 DEF RebuttalTypeOK, RebuttalPC
  <2> QED  BY <2>3, <2>4, <2>5 DEF RebuttalInv
<1>2. CASE ChairAddresses
  <2>1. PICK closes \in BOOLEAN :
          /\ Says("chair", closes, 0)
          /\ rebuttal' = [rebuttal EXCEPT !.pc = IF closes THEN "summary" ELSE "member"]
    BY <1>2 DEF ChairAddresses
  <2>2. /\ Len(transcript) >= 1 /\ \A i \in 1..Len(transcript) : ~transcript[i].closes
        /\ rebuttal.side = "member_b" => transcript[Len(transcript)].role = "member_a"
    BY <1>2 DEF ChairAddresses, RebuttalInv
  <2>3. /\ transcript' \in Seq(Statement) /\ Len(transcript') = Len(transcript) + 1
        /\ transcript'[Len(transcript')].role = "chair"
        /\ transcript'[Len(transcript')].closes = closes
        /\ \A i \in 1..Len(transcript) : transcript'[i] = transcript[i]
        /\ RebuttalOrderly'
    BY <1>0, <2>1, <2>2, StatementKeepsOrder
  <2>4. /\ rebuttal' \in [pc : {"member", "summary"}, round : 0..max_rounds, side : Side,
                          resolution : Resolution]
        /\ rebuttal'.pc = "member" => ~closes
        /\ rebuttal'.side = rebuttal.side
    BY <1>0, <2>1 DEF RebuttalTypeOK
  <2>5. RebuttalTypeOK'
    BY <2>3, <2>4 DEF RebuttalTypeOK, RebuttalPC
  <2>6. rebuttal'.pc = "member" => \A i \in 1..Len(transcript') : ~transcript'[i].closes
    BY <1>0, <2>2, <2>3, <2>4
  <2>7. rebuttal'.side = "member_b" => transcript'[Len(transcript') - 1].role = "member_a"
    BY <1>0, <2>2, <2>3, <2>4
  <2> QED  BY <1>0, <2>2, <2>3, <2>4, <2>5, <2>6, <2>7 DEF RebuttalInv
<1>3. ASSUME NEW n \in 0..1, rebuttal.pc \in {"member", "follow"},
             Says(rebuttal.side, FALSE, n), NextTurn(FALSE)
      PROVE  RebuttalInv'
  <2>1. rebuttal.side \in Side
    BY <1>0 DEF RebuttalTypeOK
  <2>2. /\ Len(transcript) >= 2 /\ transcript[Len(transcript)].role = "chair"
        /\ \A i \in 1..Len(transcript) : ~transcript[i].closes
        /\ rebuttal.side = "member_b" => transcript[Len(transcript) - 1].role = "member_a"
    BY <1>3 DEF RebuttalInv
  <2>3. /\ transcript' \in Seq(Statement) /\ Len(transcript') = Len(transcript) + 1
        /\ transcript'[Len(transcript')].role = rebuttal.side
        /\ transcript'[Len(transcript')].closes = FALSE
        /\ \A i \in 1..Len(transcript) : transcript'[i] = transcript[i]
        /\ RebuttalOrderly'
    BY <1>0, <1>3, <2>1, <2>2, StatementKeepsOrder
  <2>4. /\ rebuttal' \in [pc : {"chair", "summary"}, round : 0..max_rounds, side : Side,
                          resolution : Resolution]
        /\ rebuttal'.pc = "chair" /\ rebuttal'.side = "member_b" => rebuttal.side = "member_a"
    BY <1>0, <1>3, TurnTyped
  <2>5. RebuttalTypeOK'
    BY <2>3, <2>4 DEF RebuttalTypeOK, RebuttalPC
  <2>6. \A i \in 1..Len(transcript') : ~transcript'[i].closes
    BY <1>0, <2>2, <2>3
  <2> QED  BY <1>0, <2>3, <2>4, <2>5, <2>6 DEF RebuttalInv
<1>4. CASE MemberSpeaks
  BY <1>3, <1>4 DEF MemberSpeaks
<1>5. CASE MemberFollowsUp
  BY <1>3, <1>5 DEF MemberFollowsUp
<1>6. CASE MemberValidates \/ ClaimValidated
  <2>1. /\ transcript' = transcript /\ rebuttal.pc \in {"member", "validate"}
        /\ rebuttal' \in [pc : {"validate", "follow"}, round : 0..max_rounds, side : Side,
                          resolution : Resolution]
        /\ rebuttal'.side = rebuttal.side
    BY <1>0, <1>6 DEF MemberValidates, ClaimValidated, RebuttalTypeOK
  <2>2. RebuttalTypeOK'
    BY <1>0, <2>1 DEF RebuttalTypeOK, RebuttalPC
  <2>3. RebuttalOrderly'
    BY <1>0, <2>1 DEF RebuttalOrderly, Turns
  <2> QED  BY <2>1, <2>2, <2>3 DEF RebuttalInv
<1>7. CASE summarize_rebuttal
  <2>1. /\ transcript' = transcript
        /\ rebuttal' \in [pc : {"done"}, round : 0..max_rounds, side : Side,
                          resolution : Resolution]
    BY <1>0, <1>7 DEF summarize_rebuttal, RebuttalTypeOK, _parse_resolution
  <2>2. RebuttalTypeOK'
    BY <1>0, <2>1 DEF RebuttalTypeOK, RebuttalPC
  <2>3. RebuttalOrderly'
    BY <1>0, <2>1 DEF RebuttalOrderly, Turns
  <2> QED  BY <2>1, <2>2, <2>3 DEF RebuttalInv
<1> QED  BY <1>1, <1>2, <1>4, <1>5, <1>6, <1>7 DEF RebuttalStep

(* No rebuttal is under way before one starts, and one that starts has     *)
(* said nothing.                                                           *)
LEMMA RebuttalFresh ==
  /\ rebuttal = NoRebuttal /\ transcript = <<>> => RebuttalInv
  /\ rebuttal' = NoRebuttal /\ transcript' = <<>> => RebuttalInv'
  /\ RebuttalStarts => RebuttalInv'
<1> USE RebuttalAssumption
<1>1. NoRebuttal \in [pc : RebuttalPC, round : 0..max_rounds, side : Side,
                      resolution : Resolution]
      /\ NoRebuttal.pc = "off"
  BY DEF NoRebuttal, RebuttalPC, Side, Resolution
<1>2. [NoRebuttal EXCEPT !.pc = "opening"]
        \in [pc : RebuttalPC, round : 0..max_rounds, side : Side, resolution : Resolution]
      /\ [NoRebuttal EXCEPT !.pc = "opening"].pc = "opening"
  BY <1>1 DEF RebuttalPC
<1>3. <<>> \in Seq(Statement) /\ DOMAIN <<>> = {}
  OBVIOUS
<1> QED  BY <1>1, <1>2, <1>3
         DEF RebuttalInv, RebuttalTypeOK, RebuttalOrderly, Turns, RebuttalStarts

-----------------------------------------------------------------------------
(* The deliberation.                                                       *)

Finding ==
  [pair : SUBSET Member, topic : Topic \cup {"fallback"}, severity : Severity \cup {"None"}]
Reviewing == UNION {[S -> Review] : S \in SUBSET Member}
SessionRecord ==
  [status : {"completed", "clarification_required", "absent"}, council : SUBSET Member,
   stage1 : SUBSET Member, stage2 : Reviewing, contradictions : SUBSET Finding,
   rebuttals : Seq(Finding),
   synthesis : [version : 0..2, empty : BOOLEAN, actions : BOOLEAN],
   verification : 0..2, brief : 0..2, decision : 0..2 \cup {Deferral}, plan : 0..2]

RecordsTyped ==
  /\ board \in [pc : BoardPC, verify : BOOLEAN, agenda : Seq(Finding)]
  /\ seat \in [Member -> {"idle", "asked", "answered", "failed"}]
  /\ session \in SessionRecord /\ file \in SessionRecord
  /\ rows \subseteq {"tasks", "ledger"}

(* Seats are taken in a stage, and by the council. *)
SeatsTaken ==
  /\ board.pc \notin {"stage1", "stage2"} => seat = Idle
  /\ \A m \in Member : seat[m] # "idle" => m \in session.council

Early == {"new", "shortcut", "classify", "intake", "evidence", "stage1"}
Unreviewed == Early \cup {"judge", "stage2"}
Heard == {"judge", "stage2", "score", "rebut", "stage3", "verify", "revise", "reverify",
          "brief", "decide", "plan", "repair", "save", "record_plan"}
Unsaved == (Early \cup Heard) \ {"record_plan"}

Quorate1(s) ==
  Cardinality(s.stage1) >= Max({1, Min({min_stage1_responses, Cardinality(s.council)})})
Quorate2(s) ==
  Cardinality(s.council) > 1 =>
    Cardinality(DOMAIN s.stage2) >= Max({1, Min({min_stage2_responses, Cardinality(s.council)})})

(* What each stage finds of the stages before it. *)
StagesHeard ==
  /\ session.stage1 \subseteq session.council /\ DOMAIN session.stage2 \subseteq session.council
  /\ session.status # "absent"
  /\ board.pc \in Early \cup Heard => session.status = "completed"
  /\ board.pc \in Early => session.stage1 = {}
  /\ board.pc \in Unreviewed => session.stage2 = <<>>
  /\ board.pc \in Heard => Quorate1(session)
  /\ board.pc \in Heard \ Unreviewed => Quorate2(session)

(* The one synthesis the rest of the session is made of. *)
Versioned(v, verification, brief, decision, plan) ==
  /\ session.synthesis.version \in v /\ session.verification \in verification
  /\ session.brief \in brief /\ session.decision \in decision /\ session.plan \in plan

OfOneText ==
  LET v == session.synthesis.version
  IN /\ board.pc \in Unreviewed \cup {"score", "rebut", "stage3"} =>
          Versioned({0}, {0}, {0}, {0}, {0})
     /\ board.pc = "verify" => Versioned({1}, {0}, {0}, {0}, {0})
     /\ board.pc = "revise" => Versioned({1}, {1}, {0}, {0}, {0})
     /\ board.pc = "reverify" => Versioned({2}, {1}, {0}, {0}, {0})
     /\ board.pc = "brief" => Versioned({1, 2}, {0, v}, {0}, {0}, {0})
     /\ board.pc = "decide" => Versioned({1, 2}, {0, v}, {v}, {0}, {0})
     /\ board.pc \in {"plan", "repair"} => Versioned({1, 2}, {0, v}, {v}, {v}, {0})
     /\ board.pc \in {"save", "record_plan"} => Versioned({1, 2}, {0, v}, {v}, {v}, {0, v})

(* What was found is about two members who were heard; nothing is on the   *)
(* agenda before there are reviews.                                        *)
FoundAmongHeard ==
  /\ \A c \in session.contradictions : Cardinality(c.pair) = 2 /\ c.pair \subseteq session.stage1
  /\ board.pc \in Early \cup {"judge"} => session.contradictions = {}
  /\ board.pc \in Unreviewed \cup {"score"} =>
       session.rebuttals = <<>> /\ board.agenda = <<>>
  /\ rebuttal.pc # "off" => board.pc = "rebut" /\ board.agenda # <<>>
  /\ RebuttalsSound

(* The file is written once, after everything but the rows. *)
FileWritten ==
  /\ board.pc \in Unsaved => file = NoFile /\ rows = {}
  /\ board.pc = "record_plan" => file = session /\ rows = {}
  /\ board.pc = "ledger" => file = session /\ "ledger" \notin rows
  /\ DecisionGrounded

DeliberationInv ==
  RecordsTyped /\ SeatsTaken /\ StagesHeard /\ OfOneText /\ FoundAmongHeard /\ FileWritten

(* What the judge finds are things two members claimed. *)
LEMMA FoundPairs ==
  ASSUME NEW S \in SUBSET Member, NEW claims \in [S -> atomize],
         NEW found \in detect_contradictions(claims)
  PROVE  /\ found \subseteq Finding
         /\ \A c \in found : Cardinality(c.pair) = 2 /\ c.pair \subseteq S
<1>1. PICK kept \in _score_pair_overlap(Candidates(claims)) :
        \E verdict \in [kept -> _judge_pair] :
          found = {[pair |-> c.pair, topic |-> c.topic, severity |-> verdict[c]] :
                     c \in {k \in kept : verdict[k] # "none"}}
  BY DEF detect_contradictions
<1>2. PICK verdict \in [kept -> _judge_pair] :
        found = {[pair |-> c.pair, topic |-> c.topic, severity |-> verdict[c]] :
                   c \in {k \in kept : verdict[k] # "none"}}
  BY <1>1
<1>3. kept \subseteq Candidates(claims)
  BY <1>1 DEF _score_pair_overlap, kSubset
<1>4. ASSUME NEW c \in kept, verdict[c] # "none"
      PROVE  /\ c.pair \in SUBSET S /\ Cardinality(c.pair) = 2
             /\ c.topic \in Topic /\ verdict[c] \in Severity
  <2>1. c \in [pair : kSubset(2, DOMAIN claims), topic : Topic]
    BY <1>3, <1>4 DEF Candidates
  <2>2. DOMAIN claims = S
    OBVIOUS
  <2>3. c.pair \in kSubset(2, S) /\ c.topic \in Topic
    BY <2>1, <2>2
  <2>4. verdict[c] \in Severity
    BY <1>4 DEF _judge_pair
  <2> QED  BY <2>3, <2>4 DEF kSubset
<1>5. ASSUME NEW f \in found
      PROVE  f \in Finding /\ Cardinality(f.pair) = 2 /\ f.pair \subseteq S
  <2>1. PICK c \in kept :
          verdict[c] # "none" /\ f = [pair |-> c.pair, topic |-> c.topic, severity |-> verdict[c]]
    BY <1>2, <1>5
  <2> QED  BY <1>4, <2>1 DEF Finding
<1> QED  BY <1>5

(* The cap on rebuttals is at least one. *)
LEMMA CapBounds == Cap \in Nat /\ Cap >= 1 /\ Cap = Max({1, auto_promote_max_pairs})
<1>1. PICK x \in {1, auto_promote_max_pairs} : \A y \in {1, auto_promote_max_pairs} : x >= y
  BY JudgesAssumption
<1>2. Cap \in {1, auto_promote_max_pairs} /\ \A y \in {1, auto_promote_max_pairs} : Cap >= y
  BY <1>1 DEF Cap, Max
<1> QED  BY <1>2, JudgesAssumption DEF Cap

(* What RebuttalsSound asks of a list of rebuttals. *)
WorthHearing(pairs, voices, findings) ==
  /\ Len(pairs) <= Cap
  /\ \A i \in 1..Len(pairs) :
       /\ Cardinality(pairs[i].pair) = 2
       /\ pairs[i].pair \subseteq voices
       /\ pairs[i] \in findings \/ findings = {}
       /\ \A j \in 1..Len(pairs) : i # j => pairs[i].pair # pairs[j].pair

(* The pairs for the rebuttals: found among those who were heard, or the   *)
(* loudest when nothing was found, one rebuttal for a pair, and no more    *)
(* than the cap.                                                           *)
LEMMA PairsPicked ==
  ASSUME NEW reviews \in Reviewing, NEW findings \in SUBSET Finding, NEW S \in SUBSET Member,
         \A c \in findings : Cardinality(c.pair) = 2 /\ c.pair \subseteq S,
         NEW pairs \in pick_top_pairs(reviews, findings)
  PROVE  pairs \in Seq(Finding) /\ WorthHearing(pairs, S \cup DOMAIN reviews, findings)
<1> USE DEF WorthHearing
<1>1. CASE findings = {}
  <2>1. pairs \in FallbackPair(reviews)
    BY <1>1 DEF pick_top_pairs
  <2>2. CASE pairs = <<>>
    BY <2>2, CapBounds
  <2>3. CASE pairs # <<>>
    <3>1. PICK p \in kSubset(2, DOMAIN reviews) :
            pairs = <<[pair |-> p, topic |-> "fallback", severity |-> "None"]>>
      BY <2>1, <2>3 DEF FallbackPair
    <3>2. DOMAIN reviews \subseteq Member
      BY DEF Reviewing
    <3>3. p \in SUBSET DOMAIN reviews /\ Cardinality(p) = 2
      BY <3>1 DEF kSubset
    <3> DEFINE f == [pair |-> p, topic |-> "fallback", severity |-> "None"]
    <3>4. f \in Finding /\ f.pair = p
      BY <3>2, <3>3 DEF Finding
    <3> HIDE DEF f
    <3>5. pairs = <<f>>
      BY <3>1 DEF f
    <3>6. pairs \in Seq(Finding) /\ Len(pairs) = 1 /\ pairs[1] = f
      BY <3>4, <3>5
    <3> QED  BY <1>1, <3>3, <3>4, <3>6, CapBounds
  <2> QED  BY <2>2, <2>3
<1>2. CASE findings # {}
  <2>1. pairs \in Ranked(reviews, findings)
    BY <1>2 DEF pick_top_pairs
  <2> DEFINE Left(k) == OncePerPair(findings, {pairs[i] : i \in 1..k})
  <2>2. /\ pairs \in UNION {[1..n -> findings] : n \in 1..Cap}
        /\ \A i \in DOMAIN pairs : pairs[i] \in Left(i - 1)
    BY <2>1 DEF Ranked
  <2>3. PICK n \in 1..Cap : pairs \in [1..n -> findings]
    BY <2>2
  <2>4. n \in Nat /\ n <= Cap
    BY <2>3, CapBounds
  <2>5. pairs \in Seq(findings) /\ Len(pairs) = n /\ DOMAIN pairs = 1..n
    BY <2>3, <2>4
  <2>6. pairs \in Seq(Finding)
    BY <2>3, <2>4
  <2>7. ASSUME NEW i \in 1..n, NEW j \in 1..n, j < i PROVE pairs[i].pair # pairs[j].pair
    <3>1. j \in 1..(i - 1)
      BY <2>4, <2>7
    <3>2. pairs[j] \in {pairs[k] : k \in 1..(i - 1)}
      BY <3>1
    <3>3. pairs[i] \in Left(i - 1)
      BY <2>2, <2>5
    <3> QED  BY <3>2, <3>3 DEF OncePerPair
  <2>8. \A i, j \in 1..n : i # j => pairs[i].pair # pairs[j].pair
    <3> SUFFICES ASSUME NEW i \in 1..n, NEW j \in 1..n, i # j
                 PROVE pairs[i].pair # pairs[j].pair
      OBVIOUS
    <3>1. i < j \/ j < i
      BY <2>4
    <3> QED  BY <2>7, <3>1
  <2>9. \A i \in 1..n : pairs[i] \in findings
    BY <2>3
  <2> QED  BY <2>4, <2>5, <2>6, <2>8, <2>9
<1> QED  BY <1>1, <1>2

(* A session as it begins. *)
LEMMA SessionBegins ==
  /\ BoardSession \in SessionRecord /\ NoFile \in SessionRecord
  /\ <<>> \in Reviewing /\ DOMAIN <<>> = {} /\ <<>> \in Seq(Finding)
<1>1. <<>> \in [{} -> Review] /\ DOMAIN <<>> = {} /\ <<>> \in Seq(Finding)
  OBVIOUS
<1>2. <<>> \in Reviewing
  BY <1>1 DEF Reviewing
<1>3. BoardSession \in SessionRecord
  BY <1>1, <1>2 DEF BoardSession, SessionRecord, NoSynthesis
<1>4. NoFile \in SessionRecord
  BY <1>3 DEF NoFile, SessionRecord
<1> QED  BY <1>1, <1>2, <1>3, <1>4

(* What a session may take on. *)
LEMMA SessionTakes ==
  ASSUME NEW s \in SessionRecord
  PROVE  /\ [s EXCEPT !.status = "clarification_required", !.decision = Deferral]
              \in SessionRecord
         /\ \A c \in SUBSET Member : /\ [s EXCEPT !.council = c] \in SessionRecord
                                     /\ [s EXCEPT !.stage1 = c] \in SessionRecord
         /\ \A r \in Reviewing : [s EXCEPT !.stage2 = r] \in SessionRecord
         /\ \A f \in SUBSET Finding : [s EXCEPT !.contradictions = f] \in SessionRecord
         /\ \A p \in Seq(Finding) : [s EXCEPT !.rebuttals = p] \in SessionRecord
         /\ \A v \in 1..2 : \A t \in Synthesis(v) : [s EXCEPT !.synthesis = t] \in SessionRecord
         /\ \A v \in 0..2 : /\ [s EXCEPT !.verification = v] \in SessionRecord
                            /\ [s EXCEPT !.brief = v] \in SessionRecord
                            /\ [s EXCEPT !.decision = v] \in SessionRecord
                            /\ [s EXCEPT !.plan = v] \in SessionRecord
<1>1. \A v \in 1..2 : \A t \in Synthesis(v) :
        t \in [version : 0..2, empty : BOOLEAN, actions : BOOLEAN]
  BY DEF Synthesis
<1>2. \A t \in [version : 0..2, empty : BOOLEAN, actions : BOOLEAN] :
        [s EXCEPT !.synthesis = t] \in SessionRecord
  BY DEF SessionRecord
<1> QED  BY <1>1, <1>2 DEF SessionRecord

BoardTyped == board \in [pc : BoardPC, verify : BOOLEAN, agenda : Seq(Finding)]

(* deliberate goes on, and does no more than that. *)
LEMMA GoesOn ==
  ASSUME BoardTyped, NEW pc \in BoardPC, To(pc)
  PROVE  /\ BoardTyped' /\ board'.pc = pc /\ board'.verify = board.verify
         /\ board'.agenda = board.agenda
BY DEF To, BoardTyped

(* Who answered is of the roster, and so are the reviews written on the    *)
(* session.                                                                *)
LEMMA AnsweredTyped ==
  /\ Answered \in SUBSET Member
  /\ \A reviews \in [Answered -> Review] : reviews \in Reviewing /\ DOMAIN reviews = Answered
BY DEF Answered, Reviewing

(* What a step writes on the session is typed. *)
LEMMA SessionStays ==
  ASSUME BoardTyped, session \in SessionRecord, FoundAmongHeard, DeliberationNext
  PROVE  session' \in SessionRecord
<1>0. session.synthesis.version \in 0..2
  BY DEF SessionRecord
<1>1. CASE deliberate
  <2>1. PICK c \in SUBSET Member : session' = [session EXCEPT !.council = c]
    <3>1. PICK after \in {"shortcut", "classify", "intake"}, named \in SUBSET Member :
            session' = [session EXCEPT !.council = IF after = "intake" THEN named ELSE {}]
      BY <1>1 DEF deliberate
    <3>2. (IF after = "intake" THEN named ELSE {}) \in SUBSET Member
      OBVIOUS
    <3> QED  BY <3>1, <3>2
  <2> QED  BY <2>1, SessionTakes
<1>2. CASE Classified
  <2>1. PICK ids \in SUBSET Member :
          Notes("intake", [session EXCEPT !.council = _apply_routing_adjustments(ids)])
    BY <1>2 DEF Classified, classify_query
  <2>2. _apply_routing_adjustments(ids) \in SUBSET Member
    BY DEF _apply_routing_adjustments
  <2> QED  BY <2>1, <2>2, SessionTakes DEF Notes
<1>3. CASE run_secretary_shortcut
  <2>1. [BoardSession EXCEPT !.status = "completed"] \in SessionRecord
    BY SessionBegins DEF SessionRecord
  <2> QED  BY <1>3, <2>1 DEF run_secretary_shortcut, Raises, Only
<1>4. CASE stage0_intake
  BY <1>4, SessionTakes DEF stage0_intake, Only
<1>5. CASE _collect_member_evidence
  BY <1>5, SessionBegins DEF _collect_member_evidence, Only
<1>6. CASE Asks
  BY <1>6, SessionBegins DEF Asks
<1>7. ASSUME NEW m \in Member, _query_member(m) PROVE session' \in SessionRecord
  BY <1>7, SessionBegins DEF _query_member
<1>8. CASE stage1
  BY <1>8, AnsweredTyped, SessionTakes DEF stage1
<1>9. CASE _atomize_stage1
  <2>1. session.stage1 \in SUBSET Member
    BY DEF SessionRecord
  <2>0. PICK claims \in [session.stage1 -> atomize] : \E found \in detect_contradictions(claims) :
          Notes("stage2", [session EXCEPT !.contradictions = found])
    BY <1>9 DEF _atomize_stage1
  <2>2. PICK found \in detect_contradictions(claims) :
          Notes("stage2", [session EXCEPT !.contradictions = found])
    BY <2>0
  <2>3. found \in SUBSET Finding
    BY <2>1, FoundPairs
  <2> QED  BY <2>2, <2>3, SessionTakes DEF Notes
<1>10. CASE stage2
  <2>1. CASE session' = session
    BY <2>1
  <2>2. ASSUME NEW reviews \in [Answered -> Review],
               session' = [session EXCEPT !.stage2 = reviews]
        PROVE  session' \in SessionRecord
    BY <2>2, AnsweredTyped, SessionTakes
  <2> QED  BY <1>10, <2>1, <2>2 DEF stage2
<1>11. CASE Promote
  BY <1>11, SessionBegins DEF Promote
<1>12. CASE run_live_rebuttal
  BY <1>12, SessionBegins DEF run_live_rebuttal
<1>13. CASE RebuttalTurn
  BY <1>13, SessionBegins DEF RebuttalTurn
<1>14. CASE RebuttalRecorded
  <2>1. board.agenda \in Seq(Finding) /\ board.agenda # <<>>
    BY <1>14 DEF RebuttalRecorded, FoundAmongHeard, BoardTyped
  <2>2. Head(board.agenda) \in Finding /\ session.rebuttals \in Seq(Finding)
    BY <2>1, HeadTailProperties DEF SessionRecord
  <2>3. Append(session.rebuttals, Head(board.agenda)) \in Seq(Finding)
    BY <2>2, AppendProperties
  <2>4. session' = [session EXCEPT !.rebuttals = Append(session.rebuttals, Head(board.agenda))]
    BY <1>14 DEF RebuttalRecorded
  <2> QED  BY <2>3, <2>4, SessionTakes
<1>15. CASE RebuttalsOver
  BY <1>15, SessionBegins DEF RebuttalsOver, Only
<1>16. CASE stage3
  <2>1. ASSUME NEW s \in Synthesis(1), session' = [session EXCEPT !.synthesis = s]
        PROVE  session' \in SessionRecord
    <3>1. \A v \in 1..2 : \A t \in Synthesis(v) : [session EXCEPT !.synthesis = t] \in SessionRecord
      BY SessionTakes
    <3> QED  BY <2>1, <3>1
  <2> QED  BY <1>16, <2>1 DEF stage3, Notes, Raises, Only
<1>17. CASE VerifySynthesis
  BY <1>17, <1>0, SessionTakes DEF VerifySynthesis, Verified, Notes
<1>18. CASE ReviseSynthesis
  <2>1. ASSUME NEW s \in Synthesis(2), session' = [session EXCEPT !.synthesis = s]
        PROVE  session' \in SessionRecord
    <3>1. \A v \in 1..2 : \A t \in Synthesis(v) : [session EXCEPT !.synthesis = t] \in SessionRecord
      BY SessionTakes
    <3> QED  BY <2>1, <3>1
  <2> QED  BY <1>18, <2>1 DEF ReviseSynthesis, Notes, Raises, Only
<1>19. CASE ReverifySynthesis
  BY <1>19, <1>0, SessionTakes DEF ReverifySynthesis, Verified, Notes
<1>20. CASE stage4_secretary_brief
  BY <1>20, <1>0, SessionTakes DEF stage4_secretary_brief, Notes, Raises, Only
<1>21. CASE _metadata_for_decision
  BY <1>21, <1>0, SessionTakes DEF _metadata_for_decision, Notes
<1>22. CASE build_delegation_plan
  BY <1>22, <1>0, SessionTakes DEF build_delegation_plan, Planned, Notes, Raises, Only
<1>23. CASE RepairPlan
  BY <1>23, <1>0, SessionTakes DEF RepairPlan, Planned, Notes, Raises, Only
<1>24. CASE SaveSession
  BY <1>24, SessionBegins DEF SaveSession
<1>25. CASE record_delegation_plan
  BY <1>25, SessionBegins DEF record_delegation_plan
<1>26. CASE _record_to_ledger
  BY <1>26, SessionBegins DEF _record_to_ledger
<1>27. CASE Killed
  BY <1>27, SessionBegins DEF Killed
<1> QED
  BY <1>1, <1>2, <1>3, <1>4, <1>5, <1>6, <1>7, <1>8, <1>9, <1>10, <1>11, <1>12, <1>13,
     <1>14, <1>15, <1>16, <1>17, <1>18, <1>19, <1>20, <1>21, <1>22, <1>23, <1>24, <1>25,
     <1>26, <1>27
     DEF DeliberationNext, DeliberationStep

(* The stages deliberate goes through, and the pairs on its agenda. *)
LEMMA BoardStays ==
  ASSUME BoardTyped, session \in SessionRecord, FoundAmongHeard, DeliberationNext
  PROVE  BoardTyped'
<1>1. CASE deliberate
  <2>1. PICK verify \in BOOLEAN, pc \in BoardPC :
          board' = [board EXCEPT !.verify = verify, !.pc = pc]
    <3>1. PICK verify \in BOOLEAN, skip \in BOOLEAN, after \in {"shortcut", "classify", "intake"} :
            board' = [board EXCEPT !.verify = verify,
                                   !.pc = IF skip /\ after = "intake" THEN "evidence" ELSE after]
      BY <1>1 DEF deliberate
    <3>2. (IF skip /\ after = "intake" THEN "evidence" ELSE after) \in BoardPC
      BY DEF BoardPC
    <3> QED  BY <3>1, <3>2
  <2> QED  BY <2>1 DEF BoardTyped
<1>2. CASE Classified
  BY <1>2, GoesOn DEF Classified, Notes, BoardPC
<1>3. CASE run_secretary_shortcut
  BY <1>3, GoesOn DEF run_secretary_shortcut, Only, Raises, BoardPC
<1>4. CASE stage0_intake
  BY <1>4, GoesOn DEF stage0_intake, Only, BoardPC
<1>5. CASE _collect_member_evidence
  BY <1>5, GoesOn DEF _collect_member_evidence, Only, BoardPC
<1>6. CASE Asks
  BY <1>6 DEF Asks, BoardTyped
<1>7. ASSUME NEW m \in Member, _query_member(m) PROVE BoardTyped'
  BY <1>7 DEF _query_member, BoardTyped
<1>8. CASE stage1
  BY <1>8, GoesOn DEF stage1, BoardPC
<1>9. CASE _atomize_stage1
  BY <1>9, GoesOn DEF _atomize_stage1, Notes, BoardPC
<1>10. CASE stage2
  BY <1>10, GoesOn DEF stage2, BoardPC
<1>11. CASE Promote
  <2>1. CASE To("stage3")
    BY <2>1, GoesOn DEF BoardPC
  <2>2. ASSUME NEW pairs \in pick_top_pairs(session.stage2, session.contradictions),
               board' = [board EXCEPT !.pc = "rebut", !.agenda = pairs]
        PROVE  BoardTyped'
    <3>1. pairs \in Seq(Finding)
      <4>1. /\ session.stage2 \in Reviewing /\ session.contradictions \in SUBSET Finding
            /\ session.stage1 \in SUBSET Member
            /\ \A c \in session.contradictions :
                 Cardinality(c.pair) = 2 /\ c.pair \subseteq session.stage1
        BY DEF SessionRecord, FoundAmongHeard
      <4> QED  BY <4>1, PairsPicked
    <3> QED  BY <2>2, <3>1 DEF BoardTyped, BoardPC
  <2> QED  BY <1>11, <2>1, <2>2 DEF Promote
<1>12. CASE run_live_rebuttal
  BY <1>12 DEF run_live_rebuttal, BoardTyped
<1>13. CASE RebuttalTurn
  BY <1>13 DEF RebuttalTurn, BoardTyped
<1>14. CASE RebuttalRecorded
  <2>1. board.agenda \in Seq(Finding) /\ board.agenda # <<>>
    BY <1>14 DEF RebuttalRecorded, FoundAmongHeard, BoardTyped
  <2>2. Tail(board.agenda) \in Seq(Finding)
    BY <2>1, HeadTailProperties
  <2>3. board' = [board EXCEPT !.agenda = Tail(board.agenda)]
    BY <1>14 DEF RebuttalRecorded
  <2> QED  BY <2>2, <2>3 DEF BoardTyped
<1>15. CASE RebuttalsOver
  BY <1>15, GoesOn DEF RebuttalsOver, Only, BoardPC
<1>16. CASE stage3
  BY <1>16, GoesOn DEF stage3, Only, Notes, Raises, BoardPC
<1>17. CASE VerifySynthesis
  BY <1>17, GoesOn DEF VerifySynthesis, Notes, BoardPC
<1>18. CASE ReviseSynthesis
  BY <1>18, GoesOn DEF ReviseSynthesis, Only, Notes, Raises, BoardPC
<1>19. CASE ReverifySynthesis
  BY <1>19, GoesOn DEF ReverifySynthesis, Notes, BoardPC
<1>20. CASE stage4_secretary_brief
  BY <1>20, GoesOn DEF stage4_secretary_brief, Only, Notes, Raises, BoardPC
<1>21. CASE _metadata_for_decision
  BY <1>21, GoesOn DEF _metadata_for_decision, Notes, BoardPC
<1>22. CASE build_delegation_plan
  BY <1>22, GoesOn DEF build_delegation_plan, Only, Notes, Raises, BoardPC
<1>23. CASE RepairPlan
  BY <1>23, GoesOn DEF RepairPlan, Only, Notes, Raises, BoardPC
<1>24. CASE SaveSession
  BY <1>24, GoesOn DEF SaveSession, BoardPC
<1>25. CASE record_delegation_plan
  BY <1>25, GoesOn DEF record_delegation_plan, BoardPC
<1>26. CASE _record_to_ledger
  BY <1>26, GoesOn DEF _record_to_ledger, BoardPC
<1>27. CASE Killed
  BY <1>27, SessionBegins DEF Killed, BoardTyped, BoardPC
<1> QED
  BY <1>1, <1>2, <1>3, <1>4, <1>5, <1>6, <1>7, <1>8, <1>9, <1>10, <1>11, <1>12, <1>13,
     <1>14, <1>15, <1>16, <1>17, <1>18, <1>19, <1>20, <1>21, <1>22, <1>23, <1>24, <1>25,
     <1>26, <1>27
     DEF DeliberationNext, DeliberationStep

(* What is stored is a session. *)
LEMMA FileStays ==
  ASSUME file \in SessionRecord, session \in SessionRecord, session' \in SessionRecord,
         DeliberationNext
  PROVE  file' \in SessionRecord
<1>1. CASE deliberate
  BY <1>1, SessionBegins DEF deliberate
<1>2. CASE Classified
  BY <1>2, SessionBegins DEF Classified, Notes
<1>3. CASE run_secretary_shortcut
  <2>1. [BoardSession EXCEPT !.status = "completed"] \in SessionRecord
    BY SessionBegins DEF SessionRecord
  <2> QED  BY <1>3, <2>1 DEF run_secretary_shortcut, Raises, Only
<1>4. CASE stage0_intake
  BY <1>4, SessionBegins DEF stage0_intake, Only
<1>5. CASE _collect_member_evidence
  BY <1>5, SessionBegins DEF _collect_member_evidence, Only
<1>6. CASE Asks
  BY <1>6, SessionBegins DEF Asks
<1>7. ASSUME NEW m \in Member, _query_member(m) PROVE file' \in SessionRecord
  BY <1>7, SessionBegins DEF _query_member
<1>8. CASE stage1
  BY <1>8, SessionBegins DEF stage1
<1>9. CASE _atomize_stage1
  BY <1>9, SessionBegins DEF _atomize_stage1, Notes
<1>10. CASE stage2
  BY <1>10, SessionBegins DEF stage2
<1>11. CASE Promote
  BY <1>11, SessionBegins DEF Promote
<1>12. CASE run_live_rebuttal
  BY <1>12, SessionBegins DEF run_live_rebuttal
<1>13. CASE RebuttalTurn
  BY <1>13, SessionBegins DEF RebuttalTurn
<1>14. CASE RebuttalRecorded
  BY <1>14, SessionBegins DEF RebuttalRecorded
<1>15. CASE RebuttalsOver
  BY <1>15, SessionBegins DEF RebuttalsOver, Only
<1>16. CASE stage3
  BY <1>16, SessionBegins DEF stage3, Only, Notes, Raises
<1>17. CASE VerifySynthesis
  BY <1>17, SessionBegins DEF VerifySynthesis, Notes
<1>18. CASE ReviseSynthesis
  BY <1>18, SessionBegins DEF ReviseSynthesis, Only, Notes, Raises
<1>19. CASE ReverifySynthesis
  BY <1>19, SessionBegins DEF ReverifySynthesis, Notes
<1>20. CASE stage4_secretary_brief
  BY <1>20, SessionBegins DEF stage4_secretary_brief, Only, Notes, Raises
<1>21. CASE _metadata_for_decision
  BY <1>21, SessionBegins DEF _metadata_for_decision, Notes
<1>22. CASE build_delegation_plan
  BY <1>22, SessionBegins DEF build_delegation_plan, Only, Notes, Raises
<1>23. CASE RepairPlan
  BY <1>23, SessionBegins DEF RepairPlan, Only, Notes, Raises
<1>24. CASE SaveSession
  BY <1>24, SessionBegins DEF SaveSession
<1>25. CASE record_delegation_plan
  BY <1>25, SessionBegins DEF record_delegation_plan
<1>26. CASE _record_to_ledger
  BY <1>26, SessionBegins DEF _record_to_ledger
<1>27. CASE Killed
  BY <1>27, SessionBegins DEF Killed
<1> QED
  BY <1>1, <1>2, <1>3, <1>4, <1>5, <1>6, <1>7, <1>8, <1>9, <1>10, <1>11, <1>12, <1>13,
     <1>14, <1>15, <1>16, <1>17, <1>18, <1>19, <1>20, <1>21, <1>22, <1>23, <1>24, <1>25,
     <1>26, <1>27
     DEF DeliberationNext, DeliberationStep

(* What a seat has of its member is idle, asked, answered or failed. *)
LEMMA SeatStays ==
  ASSUME seat \in [Member -> {"idle", "asked", "answered", "failed"}], DeliberationNext
  PROVE  seat' \in [Member -> {"idle", "asked", "answered", "failed"}]
<1>1. CASE deliberate
  BY <1>1 DEF deliberate, Idle
<1>2. CASE Classified
  BY <1>2 DEF Classified, Idle, Notes
<1>3. CASE run_secretary_shortcut
  BY <1>3 DEF run_secretary_shortcut, Idle, Only, Raises
<1>4. CASE stage0_intake
  BY <1>4 DEF stage0_intake, Idle, Only
<1>5. CASE _collect_member_evidence
  BY <1>5 DEF _collect_member_evidence, Idle, Only
<1>6. CASE Asks
  BY <1>6 DEF Asks, Idle
<1>7. ASSUME NEW m \in Member, _query_member(m)
      PROVE  seat' \in [Member -> {"idle", "asked", "answered", "failed"}]
  BY <1>7 DEF _query_member, Idle
<1>8. CASE stage1
  BY <1>8 DEF stage1, Idle
<1>9. CASE _atomize_stage1
  BY <1>9 DEF _atomize_stage1, Idle, Notes
<1>10. CASE stage2
  BY <1>10 DEF stage2, Idle
<1>11. CASE Promote
  BY <1>11 DEF Promote, Idle
<1>12. CASE run_live_rebuttal
  BY <1>12 DEF run_live_rebuttal, Idle
<1>13. CASE RebuttalTurn
  BY <1>13 DEF RebuttalTurn, Idle
<1>14. CASE RebuttalRecorded
  BY <1>14 DEF RebuttalRecorded, Idle
<1>15. CASE RebuttalsOver
  BY <1>15 DEF RebuttalsOver, Idle, Only
<1>16. CASE stage3
  BY <1>16 DEF stage3, Idle, Only, Notes, Raises
<1>17. CASE VerifySynthesis
  BY <1>17 DEF VerifySynthesis, Idle, Notes
<1>18. CASE ReviseSynthesis
  BY <1>18 DEF ReviseSynthesis, Idle, Only, Notes, Raises
<1>19. CASE ReverifySynthesis
  BY <1>19 DEF ReverifySynthesis, Idle, Notes
<1>20. CASE stage4_secretary_brief
  BY <1>20 DEF stage4_secretary_brief, Idle, Only, Notes, Raises
<1>21. CASE _metadata_for_decision
  BY <1>21 DEF _metadata_for_decision, Idle, Notes
<1>22. CASE build_delegation_plan
  BY <1>22 DEF build_delegation_plan, Idle, Only, Notes, Raises
<1>23. CASE RepairPlan
  BY <1>23 DEF RepairPlan, Idle, Only, Notes, Raises
<1>24. CASE SaveSession
  BY <1>24 DEF SaveSession, Idle
<1>25. CASE record_delegation_plan
  BY <1>25 DEF record_delegation_plan, Idle
<1>26. CASE _record_to_ledger
  BY <1>26 DEF _record_to_ledger, Idle
<1>27. CASE Killed
  BY <1>27 DEF Killed, Idle
<1> QED
  BY <1>1, <1>2, <1>3, <1>4, <1>5, <1>6, <1>7, <1>8, <1>9, <1>10, <1>11, <1>12, <1>13,
     <1>14, <1>15, <1>16, <1>17, <1>18, <1>19, <1>20, <1>21, <1>22, <1>23, <1>24, <1>25,
     <1>26, <1>27
     DEF DeliberationNext, DeliberationStep

(* Nothing but tasks and ledger rows is stored of a session. *)
LEMMA RowsStay ==
  ASSUME rows \subseteq {"tasks", "ledger"}, DeliberationNext
  PROVE  rows' \subseteq {"tasks", "ledger"}
<1>1. CASE deliberate
  BY <1>1 DEF deliberate
<1>2. CASE Classified
  BY <1>2 DEF Classified, Notes
<1>3. CASE run_secretary_shortcut
  BY <1>3 DEF run_secretary_shortcut, Only, Raises
<1>4. CASE stage0_intake
  BY <1>4 DEF stage0_intake, Only
<1>5. CASE _collect_member_evidence
  BY <1>5 DEF _collect_member_evidence, Only
<1>6. CASE Asks
  BY <1>6 DEF Asks
<1>7. ASSUME NEW m \in Member, _query_member(m) PROVE rows' \subseteq {"tasks", "ledger"}
  BY <1>7 DEF _query_member
<1>8. CASE stage1
  BY <1>8 DEF stage1
<1>9. CASE _atomize_stage1
  BY <1>9 DEF _atomize_stage1, Notes
<1>10. CASE stage2
  BY <1>10 DEF stage2
<1>11. CASE Promote
  BY <1>11 DEF Promote
<1>12. CASE run_live_rebuttal
  BY <1>12 DEF run_live_rebuttal
<1>13. CASE RebuttalTurn
  BY <1>13 DEF RebuttalTurn
<1>14. CASE RebuttalRecorded
  BY <1>14 DEF RebuttalRecorded
<1>15. CASE RebuttalsOver
  BY <1>15 DEF RebuttalsOver, Only
<1>16. CASE stage3
  BY <1>16 DEF stage3, Only, Notes, Raises
<1>17. CASE VerifySynthesis
  BY <1>17 DEF VerifySynthesis, Notes
<1>18. CASE ReviseSynthesis
  BY <1>18 DEF ReviseSynthesis, Only, Notes, Raises
<1>19. CASE ReverifySynthesis
  BY <1>19 DEF ReverifySynthesis, Notes
<1>20. CASE stage4_secretary_brief
  BY <1>20 DEF stage4_secretary_brief, Only, Notes, Raises
<1>21. CASE _metadata_for_decision
  BY <1>21 DEF _metadata_for_decision, Notes
<1>22. CASE build_delegation_plan
  BY <1>22 DEF build_delegation_plan, Only, Notes, Raises
<1>23. CASE RepairPlan
  BY <1>23 DEF RepairPlan, Only, Notes, Raises
<1>24. CASE SaveSession
  BY <1>24 DEF SaveSession
<1>25. CASE record_delegation_plan
  BY <1>25 DEF record_delegation_plan
<1>26. CASE _record_to_ledger
  BY <1>26 DEF _record_to_ledger
<1>27. CASE Killed
  BY <1>27 DEF Killed
<1> QED
  BY <1>1, <1>2, <1>3, <1>4, <1>5, <1>6, <1>7, <1>8, <1>9, <1>10, <1>11, <1>12, <1>13,
     <1>14, <1>15, <1>16, <1>17, <1>18, <1>19, <1>20, <1>21, <1>22, <1>23, <1>24, <1>25,
     <1>26, <1>27
     DEF DeliberationNext, DeliberationStep

(* The records of a deliberation, together. *)
LEMMA RecordsStayTyped ==
  ASSUME RecordsTyped, FoundAmongHeard, DeliberationNext
  PROVE  RecordsTyped'
<1>1. session' \in SessionRecord
  BY SessionStays DEF RecordsTyped, BoardTyped
<1> QED  BY <1>1, BoardStays, FileStays, SeatStays, RowsStay DEF RecordsTyped, BoardTyped

(* Who is asked is of the council, and no one is outside the stages. *)
LEMMA SeatsStayTaken ==
  ASSUME RecordsTyped, SeatsTaken, DeliberationNext
  PROVE  SeatsTaken'
<1> USE DEF RecordsTyped, SessionRecord, SeatsTaken, Idle
<1>1. CASE deliberate
  BY <1>1 DEF deliberate, To, InStage
<1>2. CASE Classified
  BY <1>2 DEF Classified, Notes, To, InStage
<1>3. CASE run_secretary_shortcut
  BY <1>3 DEF run_secretary_shortcut, Only, To, Raises, InStage
<1>4. CASE stage0_intake
  BY <1>4 DEF stage0_intake, Only, To, InStage
<1>5. CASE _collect_member_evidence
  BY <1>5 DEF _collect_member_evidence, Only, To, InStage
<1>6. CASE Asks
  <2>1. /\ seat' = [m \in Member |-> IF m \in session.council THEN "asked" ELSE "idle"]
        /\ board' = board /\ session' = session /\ board.pc \in {"stage1", "stage2"}
    BY <1>6 DEF Asks, InStage
  <2>2. \A m \in Member : seat'[m] # "idle" => m \in session.council
    BY <2>1
  <2> QED  BY <2>1, <2>2
<1>7. ASSUME NEW m \in Member, _query_member(m) PROVE SeatsTaken'
  BY <1>7 DEF _query_member, To, InStage
<1>8. CASE stage1
  BY <1>8 DEF stage1, To, InStage
<1>9. CASE _atomize_stage1
  BY <1>9 DEF _atomize_stage1, Notes, To, InStage
<1>10. CASE stage2
  BY <1>10 DEF stage2, To, InStage
<1>11. CASE Promote
  BY <1>11 DEF Promote, To, InStage
<1>12. CASE run_live_rebuttal
  BY <1>12 DEF run_live_rebuttal, To, InStage
<1>13. CASE RebuttalTurn
  BY <1>13 DEF RebuttalTurn, To, InStage
<1>14. CASE RebuttalRecorded
  BY <1>14 DEF RebuttalRecorded, To, InStage
<1>15. CASE RebuttalsOver
  BY <1>15 DEF RebuttalsOver, Only, To, InStage
<1>16. CASE stage3
  BY <1>16 DEF stage3, Only, Notes, To, Raises, InStage
<1>17. CASE VerifySynthesis
  BY <1>17 DEF VerifySynthesis, Notes, To, InStage
<1>18. CASE ReviseSynthesis
  BY <1>18 DEF ReviseSynthesis, Only, Notes, To, Raises, InStage
<1>19. CASE ReverifySynthesis
  BY <1>19 DEF ReverifySynthesis, Notes, To, InStage
<1>20. CASE stage4_secretary_brief
  BY <1>20 DEF stage4_secretary_brief, Only, Notes, To, Raises, InStage
<1>21. CASE _metadata_for_decision
  BY <1>21 DEF _metadata_for_decision, Notes, To, InStage
<1>22. CASE build_delegation_plan
  BY <1>22 DEF build_delegation_plan, Only, Notes, To, Raises, InStage
<1>23. CASE RepairPlan
  BY <1>23 DEF RepairPlan, Only, Notes, To, Raises, InStage
<1>24. CASE SaveSession
  BY <1>24 DEF SaveSession, To, InStage
<1>25. CASE record_delegation_plan
  BY <1>25 DEF record_delegation_plan, To, InStage
<1>26. CASE _record_to_ledger
  BY <1>26 DEF _record_to_ledger, To, InStage
<1>27. CASE Killed
  BY <1>27 DEF Killed, To, InStage
<1> QED
  BY <1>1, <1>2, <1>3, <1>4, <1>5, <1>6, <1>7, <1>8, <1>9, <1>10, <1>11, <1>12, <1>13,
     <1>14, <1>15, <1>16, <1>17, <1>18, <1>19, <1>20, <1>21, <1>22, <1>23, <1>24, <1>25,
     <1>26, <1>27
     DEF DeliberationNext, DeliberationStep

(* Brief, decision and plan are of the synthesis that stands. *)
LEMMA OneTextStays ==
  ASSUME RecordsTyped, OfOneText, DeliberationNext
  PROVE  OfOneText'
<1> USE DEF RecordsTyped, SessionRecord, OfOneText, Versioned, Unreviewed, Early
<1>1. CASE deliberate
  BY <1>1 DEF deliberate, To
<1>2. CASE Classified
  BY <1>2 DEF Classified, Notes, To
<1>3. CASE run_secretary_shortcut
  BY <1>3 DEF run_secretary_shortcut, Only, To, Raises
<1>4. CASE stage0_intake
  <2>1. CASE Only("evidence")
    BY <2>1, <1>4 DEF Only, To, stage0_intake
  <2>2. CASE To("ledger")
    BY <2>2 DEF To
  <2> QED  BY <1>4, <2>1, <2>2 DEF stage0_intake
<1>5. CASE _collect_member_evidence
  BY <1>5 DEF _collect_member_evidence, Only, To
<1>6. CASE Asks
  BY <1>6 DEF Asks, To
<1>7. ASSUME NEW m \in Member, _query_member(m) PROVE OfOneText'
  BY <1>7 DEF _query_member, To
<1>8. CASE stage1
  <2>1. CASE To("failed")
    BY <2>1 DEF To
  <2>2. CASE session' = [session EXCEPT !.stage1 = Answered]
             /\ To(IF board.verify THEN "judge" ELSE "stage2")
    BY <1>8, <2>2 DEF stage1, To
  <2> QED  BY <1>8, <2>1, <2>2 DEF stage1
<1>9. CASE _atomize_stage1
  BY <1>9 DEF _atomize_stage1, Notes, To
<1>10. CASE stage2
  <2>1. CASE To("failed")
    BY <2>1 DEF To
  <2>2. CASE To("score") /\ session' = session
    BY <1>10, <2>2 DEF stage2, To
  <2>3. ASSUME NEW reviews \in [Answered -> Review], To("score"),
               session' = [session EXCEPT !.stage2 = reviews]
        PROVE  OfOneText'
    BY <1>10, <2>3 DEF stage2, To
  <2> QED  BY <1>10, <2>1, <2>2, <2>3 DEF stage2
<1>11. CASE Promote
  <2>1. CASE To("stage3")
    BY <1>11, <2>1 DEF Promote, To
  <2>2. ASSUME NEW pairs, board' = [board EXCEPT !.pc = "rebut", !.agenda = pairs]
        PROVE  OfOneText'
    BY <1>11, <2>2 DEF Promote
  <2> QED  BY <1>11, <2>1, <2>2 DEF Promote
<1>12. CASE run_live_rebuttal
  BY <1>12 DEF run_live_rebuttal, To
<1>13. CASE RebuttalTurn
  BY <1>13 DEF RebuttalTurn, To
<1>14. CASE RebuttalRecorded
  BY <1>14 DEF RebuttalRecorded, To
<1>15. CASE RebuttalsOver
  BY <1>15 DEF RebuttalsOver, Only, To
<1>16. CASE stage3
  <2>1. CASE Raises
    BY <2>1 DEF Raises, Only, To

  <2>2. ASSUME NEW s \in Synthesis(1),
               Notes(IF board.verify THEN "verify" ELSE "brief", [session EXCEPT !.synthesis = s])
        PROVE  OfOneText'
    <3>1. s.version = 1
      BY DEF Synthesis
    <3> QED  BY <1>16, <2>2, <3>1 DEF stage3, Notes, To
  <2> QED  BY <1>16, <2>1, <2>2 DEF stage3
<1>17. CASE VerifySynthesis
  <2>1. PICK pc \in {"brief", "revise"} :
          Notes(pc, [session EXCEPT !.verification = session.synthesis.version])
    BY <1>17 DEF VerifySynthesis, Verified
  <2> QED  BY <1>17, <2>1 DEF VerifySynthesis, Notes, To
<1>18. CASE ReviseSynthesis
  <2>1. CASE Raises
    BY <2>1 DEF Raises, Only, To

  <2>2. ASSUME NEW s \in Synthesis(2), Notes("reverify", [session EXCEPT !.synthesis = s])
        PROVE  OfOneText'
    <3>1. s.version = 2
      BY DEF Synthesis
    <3> QED  BY <1>18, <2>2, <3>1 DEF ReviseSynthesis, Notes, To
  <2> QED  BY <1>18, <2>1, <2>2 DEF ReviseSynthesis
<1>19. CASE ReverifySynthesis
  BY <1>19 DEF ReverifySynthesis, Verified, Notes, To
<1>20. CASE stage4_secretary_brief
  <2>1. CASE Raises
    BY <2>1 DEF Raises, Only, To
  <2>2. CASE Notes("decide", [session EXCEPT !.brief = session.synthesis.version])
    BY <1>20, <2>2 DEF stage4_secretary_brief, Notes, To
  <2> QED  BY <1>20, <2>1, <2>2 DEF stage4_secretary_brief
<1>21. CASE _metadata_for_decision
  BY <1>21 DEF _metadata_for_decision, Notes, To
<1>22. CASE build_delegation_plan
  <2>1. CASE Raises
    BY <2>1 DEF Raises, Only, To

  <2>2. CASE Notes("save", [session EXCEPT !.plan = session.synthesis.version])
    BY <1>22, <2>2 DEF build_delegation_plan, Notes, To
  <2>3. CASE Only("repair")
    BY <1>22, <2>3 DEF build_delegation_plan, Only, To
  <2> QED  BY <1>22, <2>1, <2>2, <2>3 DEF build_delegation_plan, Planned
<1>23. CASE RepairPlan
  <2>1. CASE Raises
    BY <2>1 DEF Raises, Only, To

  <2>2. CASE Notes("save", [session EXCEPT !.plan = session.synthesis.version])
    BY <1>23, <2>2 DEF RepairPlan, Notes, To
  <2>3. CASE Only("save")
    BY <1>23, <2>3 DEF RepairPlan, Only, To
  <2> QED  BY <1>23, <2>1, <2>2, <2>3 DEF RepairPlan, Planned
<1>24. CASE SaveSession
  BY <1>24 DEF SaveSession, To
<1>25. CASE record_delegation_plan
  BY <1>25 DEF record_delegation_plan, To
<1>26. CASE _record_to_ledger
  BY <1>26 DEF _record_to_ledger, To
<1>27. CASE Killed
  BY <1>27 DEF Killed, To
<1> QED
  BY <1>1, <1>2, <1>3, <1>4, <1>5, <1>6, <1>7, <1>8, <1>9, <1>10, <1>11, <1>12, <1>13,
     <1>14, <1>15, <1>16, <1>17, <1>18, <1>19, <1>20, <1>21, <1>22, <1>23, <1>24, <1>25,
     <1>26, <1>27
     DEF DeliberationNext, DeliberationStep

(* The quorums of the stages that are over. *)
LEMMA HeardStay ==
  ASSUME RecordsTyped, SeatsTaken, StagesHeard, DeliberationNext
  PROVE  StagesHeard'
<1> USE DEF RecordsTyped, SessionRecord, StagesHeard, Heard, Unreviewed, Early, Quorate1, Quorate2
<1>1. CASE deliberate
  BY <1>1 DEF deliberate, To
<1>2. CASE Classified
  BY <1>2 DEF Classified, Notes, To
<1>3. CASE run_secretary_shortcut
  <2>1. CASE Raises
    BY <2>1 DEF Raises, Only, To
  <2>2. CASE session' = [BoardSession EXCEPT !.status = "completed"] /\ To("done")
    BY <2>2, SessionBegins DEF BoardSession, To
  <2> QED  BY <1>3, <2>1, <2>2 DEF run_secretary_shortcut
<1>4. CASE stage0_intake
  <2>1. CASE Only("evidence")
    BY <2>1, <1>4 DEF Only, To, stage0_intake
  <2>2. CASE /\ To("ledger")
             /\ session' = [session EXCEPT !.status = "clarification_required",
                                          !.decision = Deferral]
    BY <1>4, <2>2 DEF stage0_intake, To
  <2> QED  BY <1>4, <2>1, <2>2 DEF stage0_intake
<1>5. CASE _collect_member_evidence
  BY <1>5 DEF _collect_member_evidence, Only, To
<1>6. CASE Asks
  BY <1>6 DEF Asks, To
<1>7. ASSUME NEW m \in Member, _query_member(m) PROVE StagesHeard'
  BY <1>7 DEF _query_member, To
<1>8. CASE stage1
  <2>1. CASE To("failed") /\ session' = session
    BY <1>8, <2>1 DEF To
  <2>2. CASE /\ session' = [session EXCEPT !.stage1 = Answered]
             /\ To(IF board.verify THEN "judge" ELSE "stage2")
             /\ Quorum(Cardinality(Answered), min_stage1_responses)
    <3>1. Answered \subseteq session.council
      BY DEF Answered, SeatsTaken
    <3>2. /\ session'.stage1 = Answered /\ session'.council = session.council
          /\ session'.stage2 = session.stage2 /\ session'.status = session.status
          /\ board'.pc \in {"judge", "stage2"} /\ session.status = "completed"
      BY <1>8, <2>2 DEF stage1, To
    <3>3. Quorate1(session)'
      BY <2>2, <3>2 DEF Quorum, _minimum_required_responses
    <3>4. session.stage2 = <<>>
      BY <1>8 DEF stage1
    <3> QED  BY <3>1, <3>2, <3>3, <3>4
  <2> QED  BY <1>8, <2>1, <2>2 DEF stage1
<1>9. CASE _atomize_stage1
  <2>1. PICK found : Notes("stage2", [session EXCEPT !.contradictions = found])
    BY <1>9 DEF _atomize_stage1
  <2> QED  BY <1>9, <2>1 DEF _atomize_stage1, Notes, To
<1>10. CASE stage2
  <2>1. CASE To("failed") /\ session' = session
    BY <1>10, <2>1 DEF To
  <2>2. CASE To("score") /\ session' = session /\ Cardinality(session.council) <= 1
    <3>1. session.council \in SUBSET Member /\ IsFiniteSet(session.council)
      BY FS_Subset, DeliberationAssumption
    <3>2. Cardinality(session.council) \in Nat
      BY <3>1, FS_CardinalityType
    <3>3. Quorate2(session)
      BY <2>2, <3>2
    <3> QED  BY <1>10, <2>2, <3>3 DEF stage2, To
  <2>3. ASSUME NEW reviews \in [Answered -> Review], To("score"),
               session' = [session EXCEPT !.stage2 = reviews],
               Quorum(Cardinality(Answered), min_stage2_responses)
        PROVE  StagesHeard'
    <3>1. DOMAIN reviews = Answered /\ Answered \subseteq session.council
      BY DEF Answered, SeatsTaken
    <3>2. /\ session'.stage2 = reviews /\ session'.council = session.council
          /\ session'.stage1 = session.stage1 /\ session'.status = session.status
          /\ board'.pc = "score" /\ session.status = "completed"
      BY <1>10, <2>3 DEF stage2, To
    <3>3. Quorate2(session)'
      BY <2>3, <3>1, <3>2 DEF Quorum, _minimum_required_responses
    <3>4. Quorate1(session) /\ session.stage1 \subseteq session.council
      BY <1>10 DEF stage2
    <3> QED  BY <3>1, <3>2, <3>3, <3>4
  <2> QED  BY <1>10, <2>1, <2>2, <2>3 DEF stage2
<1>11. CASE Promote
  <2>1. CASE To("stage3")
    BY <1>11, <2>1 DEF Promote, To
  <2>2. ASSUME NEW pairs, board' = [board EXCEPT !.pc = "rebut", !.agenda = pairs]
        PROVE  StagesHeard'
    BY <1>11, <2>2 DEF Promote
  <2> QED  BY <1>11, <2>1, <2>2 DEF Promote
<1>12. CASE run_live_rebuttal
  BY <1>12 DEF run_live_rebuttal, To
<1>13. CASE RebuttalTurn
  BY <1>13 DEF RebuttalTurn, To
<1>14. CASE RebuttalRecorded
  BY <1>14 DEF RebuttalRecorded, To
<1>15. CASE RebuttalsOver
  BY <1>15 DEF RebuttalsOver, Only, To
<1>16. CASE stage3
  <2>1. CASE Raises
    BY <2>1 DEF Raises, Only, To
  <2>2. ASSUME NEW pc \in {"verify", "brief", "reverify", "decide", "save"}, NEW x,
               Notes(pc, [session EXCEPT !.synthesis = x])
        PROVE  StagesHeard'
    BY <1>16, <2>2 DEF stage3, Notes, To

  <2>3. (IF board.verify THEN "verify" ELSE "brief")
          \in {"verify", "brief", "reverify", "decide", "save"}
    OBVIOUS
  <2> QED  BY <1>16, <2>1, <2>2, <2>3 DEF stage3
<1>17. CASE VerifySynthesis
  <2>1. PICK pc \in {"brief", "revise"} :
          Notes(pc, [session EXCEPT !.verification = session.synthesis.version])
    BY <1>17 DEF VerifySynthesis, Verified
  <2> QED  BY <1>17, <2>1 DEF VerifySynthesis, Notes, To
<1>18. CASE ReviseSynthesis
  <2>1. CASE Raises
    BY <2>1 DEF Raises, Only, To
  <2>2. ASSUME NEW pc \in {"verify", "brief", "reverify", "decide", "save"}, NEW x,
               Notes(pc, [session EXCEPT !.synthesis = x])
        PROVE  StagesHeard'
    BY <1>18, <2>2 DEF ReviseSynthesis, Notes, To
  <2> QED  BY <1>18, <2>1, <2>2 DEF ReviseSynthesis
<1>19. CASE ReverifySynthesis
  BY <1>19 DEF ReverifySynthesis, Verified, Notes, To
<1>20. CASE stage4_secretary_brief
  <2>1. CASE Raises
    BY <2>1 DEF Raises, Only, To
  <2>2. ASSUME NEW pc \in {"verify", "brief", "reverify", "decide", "save"}, NEW x,
               Notes(pc, [session EXCEPT !.brief = x])
        PROVE  StagesHeard'
    BY <1>20, <2>2 DEF stage4_secretary_brief, Notes, To
  <2> QED  BY <1>20, <2>1, <2>2 DEF stage4_secretary_brief
<1>21. CASE _metadata_for_decision
  BY <1>21 DEF _metadata_for_decision, Notes, To
<1>22. CASE build_delegation_plan
  <2>1. CASE Raises
    BY <2>1 DEF Raises, Only, To
  <2>2. ASSUME NEW pc \in {"verify", "brief", "reverify", "decide", "save"}, NEW x,
               Notes(pc, [session EXCEPT !.plan = x])
        PROVE  StagesHeard'
    BY <1>22, <2>2 DEF build_delegation_plan, Notes, To
  <2>3. CASE Only("repair")
    BY <1>22, <2>3 DEF build_delegation_plan, Only, To
  <2> QED  BY <1>22, <2>1, <2>2, <2>3 DEF build_delegation_plan, Planned
<1>23. CASE RepairPlan
  <2>1. CASE Raises
    BY <2>1 DEF Raises, Only, To
  <2>2. ASSUME NEW pc \in {"verify", "brief", "reverify", "decide", "save"}, NEW x,
               Notes(pc, [session EXCEPT !.plan = x])
        PROVE  StagesHeard'
    BY <1>23, <2>2 DEF RepairPlan, Notes, To
  <2>3. CASE Only("save")
    BY <1>23, <2>3 DEF RepairPlan, Only, To
  <2> QED  BY <1>23, <2>1, <2>2, <2>3 DEF RepairPlan, Planned
<1>24. CASE SaveSession
  BY <1>24 DEF SaveSession, To
<1>25. CASE record_delegation_plan
  BY <1>25 DEF record_delegation_plan, To
<1>26. CASE _record_to_ledger
  BY <1>26 DEF _record_to_ledger, To
<1>27. CASE Killed
  BY <1>27, SessionBegins DEF Killed, BoardSession
<1> QED
  BY <1>1, <1>2, <1>3, <1>4, <1>5, <1>6, <1>7, <1>8, <1>9, <1>10, <1>11, <1>12, <1>13,
     <1>14, <1>15, <1>16, <1>17, <1>18, <1>19, <1>20, <1>21, <1>22, <1>23, <1>24, <1>25,
     <1>26, <1>27
     DEF DeliberationNext, DeliberationStep

(* Minimum and maximum, as the quorums use them. *)
LEMMA AtLeast ==
  ASSUME NEW n \in Nat, NEW m \in Nat, NEW k \in Nat, k >= Max({1, Min({m, n})})
  PROVE  k >= 1 /\ k >= Min({m, n})
<1>1. PICK x \in {m, n} : \A y \in {m, n} : x =< y
  OBVIOUS
<1>2. Min({m, n}) \in {m, n}
  BY <1>1 DEF Min
<1>3. PICK z \in {1, Min({m, n})} : \A y \in {1, Min({m, n})} : z >= y
  BY <1>2
<1>4. /\ Max({1, Min({m, n})}) \in {1, Min({m, n})}
      /\ \A y \in {1, Min({m, n})} : Max({1, Min({m, n})}) >= y
  BY <1>3 DEF Max
<1> QED  BY <1>2, <1>4

(* A session about to be saved may be saved. *)
LEMMA SaveGrounded ==
  ASSUME RecordsTyped, StagesHeard, OfOneText, FileWritten, SaveSession
  PROVE  FileWritten'
<1> USE DEF RecordsTyped, SessionRecord
<1>1. /\ file' = session /\ session' = session /\ rows' = rows /\ board'.pc = "record_plan"
      /\ board.pc = "save"
  BY DEF SaveSession, To
<1>2. rows = {}
  BY <1>1 DEF FileWritten, Unsaved, Early, Heard
<1>3. /\ Quorate1(session) /\ Quorate2(session) /\ session.stage1 \subseteq session.council
      /\ DOMAIN session.stage2 \subseteq session.council
  BY <1>1 DEF StagesHeard, Heard, Unreviewed, Early
<1>4. /\ IsFiniteSet(session.council) /\ Cardinality(session.council) \in Nat
      /\ IsFiniteSet(session.stage1) /\ Cardinality(session.stage1) \in Nat
  <2>1. session.council \in SUBSET Member
    OBVIOUS
  <2>2. IsFiniteSet(session.council)
    BY <2>1, FS_Subset, DeliberationAssumption
  <2> QED  BY <1>3, <2>2, FS_Subset, FS_CardinalityType
<1>5. /\ Cardinality(session.stage1) >= 1
      /\ Cardinality(session.stage1) >= Min({min_stage1_responses, Cardinality(session.council)})
  BY <1>3, <1>4, AtLeast, DeliberationAssumption DEF Quorate1
<1>6. session.council # {}
  BY <1>3, <1>4, <1>5, FS_EmptySet
<1>7. /\ {session.decision, session.brief, session.synthesis.version} = {session.decision}
      /\ session.verification \in {0, session.decision} /\ session.plan \in {0, session.decision}
      /\ session.decision \in {1, 2}
  BY <1>1 DEF OfOneText, Versioned
<1>9. session.status = "completed"
  BY <1>1 DEF StagesHeard, Heard
<1>10. session.decision \notin {0, Deferral}
  BY <1>7 DEF Deferral
<1>8. DecisionGrounded'
  BY <1>1, <1>2, <1>3, <1>5, <1>6, <1>7, <1>9, <1>10 DEF DecisionGrounded, Quorate2
<1> QED  BY <1>1, <1>2, <1>8 DEF FileWritten, Unsaved

(* Before the session is saved there is no file and no row. *)
LEMMA NothingStored ==
  ASSUME FileWritten, board.pc \in Unsaved, file' = file, rows' = rows,
         board'.pc \notin {"record_plan", "ledger"}
  PROVE  FileWritten'
<1>1. file = NoFile /\ rows = {}
  BY DEF FileWritten
<1>2. DecisionGrounded'
  BY <1>1 DEF DecisionGrounded, NoFile, BoardSession, Deferral
<1> QED  BY <1>1, <1>2 DEF FileWritten

(* What is stored is written after everything it rests on. *)
LEMMA StoredStays ==
  ASSUME RecordsTyped, StagesHeard, OfOneText, FileWritten, DeliberationNext
  PROVE  FileWritten'
<1>1. CASE deliberate
  <2>1. file' = file /\ rows' = rows /\ board.pc \in Unsaved
    BY <1>1 DEF deliberate, Unsaved, Early, Heard
  <2>2. board'.pc \notin {"record_plan", "ledger"}
    BY <1>1 DEF deliberate, To, RecordsTyped
  <2> QED  BY <2>1, <2>2, NothingStored
<1>2. CASE Classified
  <2>1. file' = file /\ rows' = rows /\ board.pc \in Unsaved
    BY <1>2 DEF Classified, Notes, Unsaved, Early, Heard
  <2>2. board'.pc \notin {"record_plan", "ledger"}
    BY <1>2 DEF Classified, Notes, To, RecordsTyped
  <2> QED  BY <2>1, <2>2, NothingStored
<1>3. CASE run_secretary_shortcut
  <2>1. CASE Raises
    <3>1. file' = file /\ rows' = rows /\ board.pc \in Unsaved /\ board'.pc = "failed"
      BY <1>3, <2>1 DEF run_secretary_shortcut, Raises, Only, To, RecordsTyped, Unsaved, Early
    <3> QED  BY <3>1, NothingStored
  <2>2. CASE /\ file' = [BoardSession EXCEPT !.status = "completed"] /\ To("done")
             /\ rows' = rows /\ rows = {}
    <3>1. DecisionGrounded'
      BY <2>2 DEF DecisionGrounded, BoardSession, Deferral
    <3> QED  BY <2>2, <3>1 DEF FileWritten, To, RecordsTyped, Unsaved, Early, Heard
  <2>3. rows = {}
    BY <1>3 DEF run_secretary_shortcut, FileWritten, Unsaved, Early
  <2> QED  BY <1>3, <2>1, <2>2, <2>3 DEF run_secretary_shortcut
<1>4. CASE stage0_intake
  <2>1. CASE Only("evidence")
    <3>1. file' = file /\ rows' = rows /\ board.pc \in Unsaved /\ board'.pc = "evidence"
      BY <1>4, <2>1 DEF stage0_intake, Only, To, RecordsTyped, Unsaved, Early
    <3> QED  BY <3>1, NothingStored
  <2>2. CASE /\ session' = [session EXCEPT !.status = "clarification_required",
                                           !.decision = Deferral]
             /\ file' = session' /\ To("ledger") /\ rows' = rows
    <3>1. rows = {}
      BY <1>4 DEF stage0_intake, FileWritten, Unsaved, Early
    <3>2. file'.decision = Deferral /\ file'.status = "clarification_required"
      BY <2>2 DEF RecordsTyped, SessionRecord
    <3>3. DecisionGrounded'
      BY <2>2, <3>1, <3>2 DEF DecisionGrounded
    <3> QED  BY <2>2, <3>1, <3>3 DEF FileWritten, To, RecordsTyped, Unsaved, Early, Heard
  <2> QED  BY <1>4, <2>1, <2>2 DEF stage0_intake
<1>5. CASE _collect_member_evidence
  <2>1. file' = file /\ rows' = rows /\ board.pc \in Unsaved
    BY <1>5 DEF _collect_member_evidence, Only, Unsaved, Early, Heard
  <2>2. board'.pc \notin {"record_plan", "ledger"}
    BY <1>5 DEF _collect_member_evidence, Only, To, RecordsTyped
  <2> QED  BY <2>1, <2>2, NothingStored
<1>6. CASE Asks
  <2>1. file' = file /\ rows' = rows /\ board.pc \in Unsaved
    BY <1>6 DEF Asks, InStage, Unsaved, Early, Heard
  <2>2. board'.pc \notin {"record_plan", "ledger"}
    BY <1>6 DEF Asks, InStage, To, RecordsTyped
  <2> QED  BY <2>1, <2>2, NothingStored
<1>7. ASSUME NEW m \in Member, _query_member(m) PROVE FileWritten'
  <2>1. file' = file /\ rows' = rows /\ board.pc \in Unsaved
    BY <1>7 DEF _query_member, InStage, Unsaved, Early, Heard
  <2>2. board'.pc \notin {"record_plan", "ledger"}
    BY <1>7 DEF _query_member, InStage, To, RecordsTyped
  <2> QED  BY <2>1, <2>2, NothingStored
<1>8. CASE stage1
  <2>1. file' = file /\ rows' = rows /\ board.pc \in Unsaved
    BY <1>8 DEF stage1, Unsaved, Early, Heard
  <2>2. board'.pc \notin {"record_plan", "ledger"}
    BY <1>8 DEF stage1, To, RecordsTyped
  <2> QED  BY <2>1, <2>2, NothingStored
<1>9. CASE _atomize_stage1
  <2>1. file' = file /\ rows' = rows /\ board.pc \in Unsaved
    BY <1>9 DEF _atomize_stage1, Notes, Unsaved, Early, Heard
  <2>2. board'.pc \notin {"record_plan", "ledger"}
    BY <1>9 DEF _atomize_stage1, Notes, To, RecordsTyped
  <2> QED  BY <2>1, <2>2, NothingStored
<1>10. CASE stage2
  <2>1. file' = file /\ rows' = rows /\ board.pc \in Unsaved
    BY <1>10 DEF stage2, Unsaved, Early, Heard
  <2>2. board'.pc \notin {"record_plan", "ledger"}
    BY <1>10 DEF stage2, To, RecordsTyped
  <2> QED  BY <2>1, <2>2, NothingStored
<1>11. CASE Promote
  <2>1. file' = file /\ rows' = rows /\ board.pc \in Unsaved
    BY <1>11 DEF Promote, Unsaved, Early, Heard
  <2>2. board'.pc \notin {"record_plan", "ledger"}
    BY <1>11 DEF Promote, To, RecordsTyped
  <2> QED  BY <2>1, <2>2, NothingStored
<1>12. CASE run_live_rebuttal
  <2>1. file' = file /\ rows' = rows /\ board.pc \in Unsaved
    BY <1>12 DEF run_live_rebuttal, Unsaved, Early, Heard
  <2>2. board'.pc \notin {"record_plan", "ledger"}
    BY <1>12 DEF run_live_rebuttal, To, RecordsTyped
  <2> QED  BY <2>1, <2>2, NothingStored
<1>13. CASE RebuttalTurn
  <2>1. file' = file /\ rows' = rows /\ board.pc \in Unsaved
    BY <1>13 DEF RebuttalTurn, Unsaved, Early, Heard
  <2>2. board'.pc \notin {"record_plan", "ledger"}
    BY <1>13 DEF RebuttalTurn, To, RecordsTyped
  <2> QED  BY <2>1, <2>2, NothingStored
<1>14. CASE RebuttalRecorded
  <2>1. file' = file /\ rows' = rows /\ board.pc \in Unsaved
    BY <1>14 DEF RebuttalRecorded, Unsaved, Early, Heard
  <2>2. board'.pc \notin {"record_plan", "ledger"}
    BY <1>14 DEF RebuttalRecorded, To, RecordsTyped
  <2> QED  BY <2>1, <2>2, NothingStored
<1>15. CASE RebuttalsOver
  <2>1. file' = file /\ rows' = rows /\ board.pc \in Unsaved
    BY <1>15 DEF RebuttalsOver, Only, Unsaved, Early, Heard
  <2>2. board'.pc \notin {"record_plan", "ledger"}
    BY <1>15 DEF RebuttalsOver, Only, To, RecordsTyped
  <2> QED  BY <2>1, <2>2, NothingStored
<1>16. CASE stage3
  <2>1. file' = file /\ rows' = rows /\ board.pc \in Unsaved
    BY <1>16 DEF stage3, Only, Notes, Raises, Unsaved, Early, Heard
  <2>2. board'.pc \notin {"record_plan", "ledger"}
    BY <1>16 DEF stage3, Only, Notes, Raises, To, RecordsTyped
  <2> QED  BY <2>1, <2>2, NothingStored
<1>17. CASE VerifySynthesis
  <2>1. file' = file /\ rows' = rows /\ board.pc \in Unsaved
    BY <1>17 DEF VerifySynthesis, Notes, Unsaved, Early, Heard
  <2>2. board'.pc \notin {"record_plan", "ledger"}
    BY <1>17 DEF VerifySynthesis, Notes, To, RecordsTyped
  <2> QED  BY <2>1, <2>2, NothingStored
<1>18. CASE ReviseSynthesis
  <2>1. file' = file /\ rows' = rows /\ board.pc \in Unsaved
    BY <1>18 DEF ReviseSynthesis, Only, Notes, Raises, Unsaved, Early, Heard
  <2>2. board'.pc \notin {"record_plan", "ledger"}
    BY <1>18 DEF ReviseSynthesis, Only, Notes, Raises, To, RecordsTyped
  <2> QED  BY <2>1, <2>2, NothingStored
<1>19. CASE ReverifySynthesis
  <2>1. file' = file /\ rows' = rows /\ board.pc \in Unsaved
    BY <1>19 DEF ReverifySynthesis, Notes, Unsaved, Early, Heard
  <2>2. board'.pc \notin {"record_plan", "ledger"}
    BY <1>19 DEF ReverifySynthesis, Notes, To, RecordsTyped
  <2> QED  BY <2>1, <2>2, NothingStored
<1>20. CASE stage4_secretary_brief
  <2>1. file' = file /\ rows' = rows /\ board.pc \in Unsaved
    BY <1>20 DEF stage4_secretary_brief, Only, Notes, Raises, Unsaved, Early, Heard
  <2>2. board'.pc \notin {"record_plan", "ledger"}
    BY <1>20 DEF stage4_secretary_brief, Only, Notes, Raises, To, RecordsTyped
  <2> QED  BY <2>1, <2>2, NothingStored
<1>21. CASE _metadata_for_decision
  <2>1. file' = file /\ rows' = rows /\ board.pc \in Unsaved
    BY <1>21 DEF _metadata_for_decision, Notes, Unsaved, Early, Heard
  <2>2. board'.pc \notin {"record_plan", "ledger"}
    BY <1>21 DEF _metadata_for_decision, Notes, To, RecordsTyped
  <2> QED  BY <2>1, <2>2, NothingStored
<1>22. CASE build_delegation_plan
  <2>1. file' = file /\ rows' = rows /\ board.pc \in Unsaved
    BY <1>22 DEF build_delegation_plan, Only, Notes, Raises, Unsaved, Early, Heard
  <2>2. board'.pc \notin {"record_plan", "ledger"}
    BY <1>22 DEF build_delegation_plan, Only, Notes, Raises, To, RecordsTyped
  <2> QED  BY <2>1, <2>2, NothingStored
<1>23. CASE RepairPlan
  <2>1. file' = file /\ rows' = rows /\ board.pc \in Unsaved
    BY <1>23 DEF RepairPlan, Only, Notes, Raises, Unsaved, Early, Heard
  <2>2. board'.pc \notin {"record_plan", "ledger"}
    BY <1>23 DEF RepairPlan, Only, Notes, Raises, To, RecordsTyped
  <2> QED  BY <2>1, <2>2, NothingStored
<1>24. CASE SaveSession
  BY <1>24, SaveGrounded
<1>25. CASE record_delegation_plan
  <2>1. /\ board.pc = "record_plan" /\ board'.pc = "ledger" /\ file' = file /\ session' = session
        /\ rows' \in {rows, rows \cup (IF session.plan > 0 THEN {"tasks"} ELSE {})}
    BY <1>25 DEF record_delegation_plan, To, RecordsTyped
  <2>2. file = session /\ rows = {} /\ DecisionGrounded
    BY <2>1 DEF FileWritten
  <2>3. session.plan > 0 => session.decision = session.plan
    BY <2>1 DEF OfOneText, Versioned, RecordsTyped, SessionRecord, Deferral
  <2>4. "ledger" \notin rows' /\ ("tasks" \in rows' => session.plan > 0)
    BY <2>1, <2>2
  <2>5. DecisionGrounded'
    BY <2>1, <2>2, <2>3, <2>4 DEF DecisionGrounded
  <2> QED  BY <2>1, <2>2, <2>4, <2>5 DEF FileWritten, Unsaved, Early, Heard
<1>26. CASE _record_to_ledger
  <2>1. /\ board.pc = "ledger" /\ board'.pc = "done" /\ file' = file /\ session' = session
        /\ rows' \in {rows, rows \cup {"ledger"}}
    BY <1>26 DEF _record_to_ledger, To, RecordsTyped
  <2>2. file = session /\ session.status # "absent" /\ DecisionGrounded
    BY <2>1 DEF FileWritten, StagesHeard
  <2>3. DecisionGrounded'
    BY <2>1, <2>2 DEF DecisionGrounded
  <2> QED  BY <2>1, <2>3 DEF FileWritten, Unsaved, Early, Heard
<1>27. CASE Killed
  <2>1. /\ board'.pc = "killed" /\ file' = file /\ rows' = rows
    BY <1>27 DEF Killed, RecordsTyped
  <2>2. DecisionGrounded'
    BY <2>1 DEF FileWritten, DecisionGrounded
  <2> QED  BY <2>1, <2>2 DEF FileWritten, Unsaved, Early, Heard
<1> QED
  BY <1>1, <1>2, <1>3, <1>4, <1>5, <1>6, <1>7, <1>8, <1>9, <1>10, <1>11, <1>12, <1>13,
     <1>14, <1>15, <1>16, <1>17, <1>18, <1>19, <1>20, <1>21, <1>22, <1>23, <1>24, <1>25,
     <1>26, <1>27
     DEF DeliberationNext, DeliberationStep

(* A rebuttal list that is empty is sound. *)
LEMMA NothingHeard ==
  ASSUME session'.rebuttals = <<>>, board'.agenda = <<>>, RebuttalOrderly'
  PROVE  RebuttalsSound'
<1>1. session'.rebuttals \o board'.agenda = <<>>
  OBVIOUS
<1>2. Len(<<>>) = 0 /\ DOMAIN <<>> = {}
  OBVIOUS
<1> QED  BY <1>1, <1>2, CapBounds DEF RebuttalsSound

(* RebuttalsSound is about three parts of the session and the agenda, and  *)
(* about nothing else.                                                     *)
LEMMA HeardKept ==
  ASSUME RebuttalsSound, RebuttalOrderly',
         session'.rebuttals \o board'.agenda = session.rebuttals \o board.agenda,
         session'.stage1 = session.stage1, session'.stage2 = session.stage2,
         session'.contradictions = session.contradictions
  PROVE  RebuttalsSound'
BY DEF RebuttalsSound

(* Pairs worth hearing make a sound agenda before the first is heard. *)
LEMMA WorthIsSound ==
  ASSUME RebuttalOrderly', NEW pairs, session'.rebuttals \o board'.agenda = pairs,
         Len(pairs) <= Max({1, auto_promote_max_pairs}),
         \A i \in DOMAIN pairs :
           /\ Cardinality(pairs[i].pair) = 2
           /\ pairs[i].pair \subseteq session'.stage1 \cup DOMAIN session'.stage2
           /\ pairs[i] \in session'.contradictions \/ session'.contradictions = {}
           /\ \A j \in DOMAIN pairs : i # j => pairs[i].pair # pairs[j].pair
  PROVE  RebuttalsSound'
BY DEF RebuttalsSound

(* The pairs that are picked make a sound agenda: no rebuttal has been     *)
(* held before it.                                                         *)
LEMMA AgendaSound ==
  ASSUME RecordsTyped, FoundAmongHeard, RebuttalOrderly',
         session.rebuttals = <<>>, session' = session,
         NEW pairs \in pick_top_pairs(session.stage2, session.contradictions),
         board'.agenda = pairs
  PROVE  RebuttalsSound'
<1>1. /\ session.stage2 \in Reviewing /\ session.contradictions \in SUBSET Finding
      /\ session.stage1 \in SUBSET Member
      /\ \A c \in session.contradictions :
           Cardinality(c.pair) = 2 /\ c.pair \subseteq session.stage1
  BY DEF RecordsTyped, SessionRecord, FoundAmongHeard
<1>2. /\ pairs \in Seq(Finding)
      /\ WorthHearing(pairs, session.stage1 \cup DOMAIN session.stage2, session.contradictions)
  <2>1. PICK reviews \in Reviewing : reviews = session.stage2
    BY <1>1
  <2>2. PICK findings \in SUBSET Finding : findings = session.contradictions
    BY <1>1
  <2>3. PICK S \in SUBSET Member : S = session.stage1
    BY <1>1
  <2>4. /\ pairs \in pick_top_pairs(reviews, findings)
        /\ \A c \in findings : Cardinality(c.pair) = 2 /\ c.pair \subseteq S
    BY <1>1, <2>1, <2>2, <2>3
  <2> QED  BY <2>1, <2>2, <2>3, <2>4, PairsPicked
<1>3. /\ session'.rebuttals \o board'.agenda = pairs /\ DOMAIN pairs = 1..Len(pairs)
      /\ session'.stage1 = session.stage1 /\ session'.stage2 = session.stage2
      /\ session'.contradictions = session.contradictions
  BY <1>2
<1>4. /\ Len(pairs) <= Max({1, auto_promote_max_pairs})
      /\ \A i \in DOMAIN pairs :
           /\ Cardinality(pairs[i].pair) = 2
           /\ pairs[i].pair \subseteq session'.stage1 \cup DOMAIN session'.stage2
           /\ pairs[i] \in session'.contradictions \/ session'.contradictions = {}
           /\ \A j \in DOMAIN pairs : i # j => pairs[i].pair # pairs[j].pair
  BY <1>2, <1>3, CapBounds DEF WorthHearing
<1> QED  BY <1>3, <1>4, WorthIsSound

(* A pair leaves the agenda when its rebuttal is recorded, and the list of *)
(* both stays the same.                                                    *)
LEMMA NextIsHeard ==
  ASSUME NEW S, NEW s \in Seq(S), NEW t \in Seq(S), t # <<>>
  PROVE  Append(s, Head(t)) \o Tail(t) = s \o t
<1> DEFINE u == Append(s, Head(t)) \o Tail(t)
           v == s \o t
<1>1. /\ Head(t) \in S /\ Head(t) = t[1] /\ Tail(t) \in Seq(S) /\ Len(t) >= 1
      /\ Len(Tail(t)) = Len(t) - 1 /\ \A i \in 1..(Len(t) - 1) : Tail(t)[i] = t[i + 1]
  BY HeadTailProperties
<1>2. /\ Append(s, Head(t)) \in Seq(S) /\ Len(Append(s, Head(t))) = Len(s) + 1
      /\ \A i \in 1..Len(s) : Append(s, Head(t))[i] = s[i]
      /\ Append(s, Head(t))[Len(s) + 1] = Head(t)
  BY <1>1, AppendProperties
<1>3. /\ Len(s) \in Nat /\ Len(t) \in Nat /\ u \in Seq(S) /\ v \in Seq(S)
      /\ Len(u) = Len(s) + Len(t) /\ Len(v) = Len(s) + Len(t)
  BY <1>1, <1>2, ConcatProperties
<1>4. ASSUME NEW i \in 1..(Len(s) + Len(t)) PROVE u[i] = v[i]
  BY <1>1, <1>2, <1>3, ConcatProperties
<1> QED  BY <1>3, <1>4, SeqEqual

(* The rebuttals are those that were put on the agenda, in its order. *)
LEMMA FoundStay ==
  ASSUME RecordsTyped, FoundAmongHeard, RebuttalInv', DeliberationNext
  PROVE  FoundAmongHeard'
<1>0. RebuttalOrderly'
  BY DEF RebuttalInv
<1>1. CASE deliberate
  <2>1. /\ session'.stage1 = session.stage1 /\ session'.stage2 = session.stage2
        /\ session'.contradictions = session.contradictions
        /\ session'.rebuttals = session.rebuttals /\ board'.agenda = board.agenda
        /\ rebuttal' = rebuttal
    BY <1>1 DEF deliberate, To, RecordsTyped, SessionRecord
  <2>2. board.pc \in Early
    BY <1>1 DEF deliberate, Early
  <2>3. /\ session.contradictions = {} /\ session.rebuttals = <<>> /\ board.agenda = <<>>
        /\ rebuttal.pc = "off"
    BY <2>2 DEF FoundAmongHeard, Early, Unreviewed
  <2> QED  BY <1>0, <2>1, <2>3, NothingHeard DEF FoundAmongHeard
<1>2. CASE Classified
  <2>1. /\ session'.stage1 = session.stage1 /\ session'.stage2 = session.stage2
        /\ session'.contradictions = session.contradictions
        /\ session'.rebuttals = session.rebuttals /\ board'.agenda = board.agenda
        /\ rebuttal' = rebuttal
    BY <1>2 DEF Classified, Notes, To, RecordsTyped, SessionRecord
  <2>2. board.pc \in Early
    BY <1>2 DEF Classified, Early
  <2>3. /\ session.contradictions = {} /\ session.rebuttals = <<>> /\ board.agenda = <<>>
        /\ rebuttal.pc = "off"
    BY <2>2 DEF FoundAmongHeard, Early, Unreviewed
  <2> QED  BY <1>0, <2>1, <2>3, NothingHeard DEF FoundAmongHeard
<1>3. CASE run_secretary_shortcut
  <2>1. board.pc \in Early
    BY <1>3 DEF run_secretary_shortcut, Early
  <2>2. /\ session.contradictions = {} /\ session.rebuttals = <<>> /\ board.agenda = <<>>
        /\ rebuttal.pc = "off"
    BY <2>1 DEF FoundAmongHeard, Early, Unreviewed
  <2>3. /\ session'.contradictions = {} /\ session'.rebuttals = <<>> /\ board'.agenda = <<>>
        /\ rebuttal' = rebuttal
    BY <1>3, <2>2 DEF run_secretary_shortcut, Only, Raises, To, RecordsTyped, BoardSession
  <2> QED  BY <1>0, <2>2, <2>3, NothingHeard DEF FoundAmongHeard
<1>4. CASE stage0_intake
  <2>1. /\ session'.stage1 = session.stage1 /\ session'.stage2 = session.stage2
        /\ session'.contradictions = session.contradictions
        /\ session'.rebuttals = session.rebuttals /\ board'.agenda = board.agenda
        /\ rebuttal' = rebuttal
    BY <1>4 DEF stage0_intake, Only, To, RecordsTyped, SessionRecord
  <2>2. board.pc \in Early
    BY <1>4 DEF stage0_intake, Early
  <2>3. /\ session.contradictions = {} /\ session.rebuttals = <<>> /\ board.agenda = <<>>
        /\ rebuttal.pc = "off"
    BY <2>2 DEF FoundAmongHeard, Early, Unreviewed
  <2> QED  BY <1>0, <2>1, <2>3, NothingHeard DEF FoundAmongHeard
<1>5. CASE _collect_member_evidence
  <2>1. /\ session'.stage1 = session.stage1 /\ session'.stage2 = session.stage2
        /\ session'.contradictions = session.contradictions
        /\ session'.rebuttals = session.rebuttals /\ board'.agenda = board.agenda
        /\ rebuttal' = rebuttal
    BY <1>5 DEF _collect_member_evidence, Only, To, RecordsTyped, SessionRecord
  <2>2. board.pc \in Early
    BY <1>5 DEF _collect_member_evidence, Early
  <2>3. /\ session.contradictions = {} /\ session.rebuttals = <<>> /\ board.agenda = <<>>
        /\ rebuttal.pc = "off"
    BY <2>2 DEF FoundAmongHeard, Early, Unreviewed
  <2> QED  BY <1>0, <2>1, <2>3, NothingHeard DEF FoundAmongHeard
<1>6. CASE Asks
  <2>1. session' = session /\ board' = board /\ rebuttal' = rebuttal
    BY <1>6 DEF Asks
  <2>2. RebuttalsSound'
    BY <1>0, <2>1, HeardKept DEF FoundAmongHeard
  <2> QED  BY <2>1, <2>2 DEF FoundAmongHeard
<1>7. ASSUME NEW m \in Member, _query_member(m) PROVE FoundAmongHeard'
  <2>1. session' = session /\ board' = board /\ rebuttal' = rebuttal
    BY <1>7 DEF _query_member
  <2>2. RebuttalsSound'
    BY <1>0, <2>1, HeardKept DEF FoundAmongHeard
  <2> QED  BY <2>1, <2>2 DEF FoundAmongHeard
<1>8. CASE stage1
  <2>1. /\ session.contradictions = {} /\ session.rebuttals = <<>> /\ board.agenda = <<>>
        /\ rebuttal.pc = "off"
    BY <1>8 DEF stage1, FoundAmongHeard, Early, Unreviewed
  <2>2. /\ session'.contradictions = {} /\ session'.rebuttals = <<>> /\ board'.agenda = <<>>
        /\ rebuttal' = rebuttal
    <3>1. /\ session' = session \/ session' = [session EXCEPT !.stage1 = Answered]
          /\ rebuttal' = rebuttal /\ board'.agenda = board.agenda
      BY <1>8 DEF stage1, To, RecordsTyped
    <3>2. session \in SessionRecord
      BY DEF RecordsTyped
    <3> QED  BY <2>1, <3>1, <3>2 DEF SessionRecord
  <2> QED  BY <1>0, <2>1, <2>2, NothingHeard DEF FoundAmongHeard
<1>9. CASE _atomize_stage1
  <2>1. /\ session.rebuttals = <<>> /\ board.agenda = <<>> /\ rebuttal.pc = "off"
    BY <1>9 DEF _atomize_stage1, FoundAmongHeard, Early, Unreviewed
  <2>2. PICK claims \in [session.stage1 -> atomize] : \E found \in detect_contradictions(claims) :
          Notes("stage2", [session EXCEPT !.contradictions = found])
    BY <1>9 DEF _atomize_stage1
  <2>3. PICK found \in detect_contradictions(claims) :
          Notes("stage2", [session EXCEPT !.contradictions = found])
    BY <2>2
  <2>4. \A c \in found : Cardinality(c.pair) = 2 /\ c.pair \subseteq session.stage1
    BY FoundPairs DEF RecordsTyped, SessionRecord
  <2>5. /\ session'.contradictions = found /\ session'.stage1 = session.stage1
        /\ session'.rebuttals = <<>> /\ board'.agenda = <<>> /\ rebuttal' = rebuttal
        /\ board'.pc = "stage2"
    BY <2>1, <2>3 DEF Notes, To, RecordsTyped, SessionRecord
  <2> QED  BY <1>0, <2>1, <2>4, <2>5, NothingHeard DEF FoundAmongHeard, Early
<1>10. CASE stage2
  <2>1. /\ session.rebuttals = <<>> /\ board.agenda = <<>> /\ rebuttal.pc = "off"
    BY <1>10 DEF stage2, FoundAmongHeard, Early, Unreviewed
  <2>2. /\ session'.contradictions = session.contradictions /\ session'.stage1 = session.stage1
        /\ session'.rebuttals = <<>>
    BY <1>10, <2>1 DEF stage2, RecordsTyped, SessionRecord
  <2>3. board'.agenda = <<>> /\ rebuttal' = rebuttal /\ board'.pc \in {"score", "failed"}
    BY <1>10, <2>1 DEF stage2, To, RecordsTyped
  <2> QED  BY <1>0, <2>1, <2>2, <2>3, NothingHeard DEF FoundAmongHeard, Early
<1>11. CASE Promote
  <2>1. /\ session.rebuttals = <<>> /\ board.agenda = <<>> /\ rebuttal.pc = "off"
        /\ session' = session /\ rebuttal' = rebuttal
    BY <1>11 DEF Promote, FoundAmongHeard, Early, Unreviewed
  <2>2. CASE To("stage3")
    <3>1. board'.pc = "stage3" /\ board'.agenda = <<>>
      BY <2>1, <2>2 DEF To, RecordsTyped
    <3> QED  BY <1>0, <2>1, <3>1, NothingHeard DEF FoundAmongHeard, Unreviewed, Early
  <2>3. ASSUME NEW pairs \in pick_top_pairs(session.stage2, session.contradictions),
               board' = [board EXCEPT !.pc = "rebut", !.agenda = pairs]
        PROVE  FoundAmongHeard'
    <3>1. board'.pc = "rebut" /\ board'.agenda = pairs
      BY <2>3 DEF RecordsTyped
    <3>2. RebuttalsSound'
      BY <1>0, <2>1, <3>1, AgendaSound
    <3> QED  BY <2>1, <3>1, <3>2 DEF FoundAmongHeard, Unreviewed, Early
  <2> QED  BY <1>11, <2>2, <2>3 DEF Promote
<1>12. CASE run_live_rebuttal
  <2>1. session' = session /\ board' = board
        /\ board.pc = "rebut" /\ board.agenda # <<>>
    BY <1>12 DEF run_live_rebuttal
  <2>2. RebuttalsSound'
    BY <1>0, <2>1, HeardKept DEF FoundAmongHeard
  <2> QED  BY <2>1, <2>2 DEF FoundAmongHeard
<1>13. CASE RebuttalTurn
  <2>1. session' = session /\ board' = board
        /\ board.pc = "rebut" /\ rebuttal.pc # "off"
    BY <1>13 DEF RebuttalTurn, RebuttalStep, ChairOpens, ChairAddresses, MemberSpeaks,
           MemberValidates, ClaimValidated, MemberFollowsUp, summarize_rebuttal
  <2>2. RebuttalsSound'
    BY <1>0, <2>1, HeardKept DEF FoundAmongHeard
  <2> QED  BY <2>1, <2>2 DEF FoundAmongHeard
<1>14. CASE RebuttalRecorded
  <2>1. /\ board.pc = "rebut" /\ rebuttal.pc = "done" /\ board.agenda # <<>>
        /\ board.agenda \in Seq(Finding) /\ session.rebuttals \in Seq(Finding)
    BY <1>14 DEF RebuttalRecorded, FoundAmongHeard, RecordsTyped, SessionRecord
  <2>2. /\ session' = [session EXCEPT !.rebuttals = Append(session.rebuttals, Head(board.agenda))]
        /\ board' = [board EXCEPT !.agenda = Tail(board.agenda)] /\ rebuttal' = NoRebuttal
    BY <1>14 DEF RebuttalRecorded
  <2>3. /\ session'.rebuttals = Append(session.rebuttals, Head(board.agenda))
        /\ session'.stage1 = session.stage1 /\ session'.stage2 = session.stage2
        /\ session'.contradictions = session.contradictions
        /\ board'.agenda = Tail(board.agenda) /\ board'.pc = "rebut" /\ rebuttal'.pc = "off"
    BY <2>1, <2>2 DEF RecordsTyped, SessionRecord, NoRebuttal
  <2>4. session'.rebuttals \o board'.agenda = session.rebuttals \o board.agenda
    BY <2>1, <2>3, NextIsHeard
  <2>5. RebuttalsSound'
    BY <1>0, <2>3, <2>4, HeardKept DEF FoundAmongHeard
  <2> QED  BY <2>3, <2>5 DEF FoundAmongHeard, Unreviewed, Early
<1>15. CASE RebuttalsOver
  <2>1. /\ session' = session /\ board'.agenda = board.agenda /\ board'.pc = "stage3"
        /\ rebuttal' = rebuttal /\ rebuttal.pc = "off"
    BY <1>15 DEF RebuttalsOver, Only, To, RecordsTyped
  <2>2. RebuttalsSound'
    BY <1>0, <2>1, HeardKept DEF FoundAmongHeard
  <2> QED  BY <2>1, <2>2 DEF FoundAmongHeard, Unreviewed, Early
<1>16. CASE stage3
  <2>1. /\ session'.stage1 = session.stage1 /\ session'.stage2 = session.stage2
        /\ session'.contradictions = session.contradictions
        /\ session'.rebuttals = session.rebuttals /\ board'.agenda = board.agenda
        /\ rebuttal' = rebuttal
    BY <1>16 DEF stage3, Only, Notes, Raises, To, Verified, Planned, RecordsTyped, SessionRecord
  <2>2. board.pc # "rebut" /\ board'.pc \notin Unreviewed \cup {"score"}
    BY <1>16 DEF stage3, Only, Notes, Raises, To, RecordsTyped, Unreviewed, Early
  <2> QED  BY <1>0, <2>1, <2>2, HeardKept DEF FoundAmongHeard, Unreviewed, Early
<1>17. CASE VerifySynthesis
  <2>1. /\ session'.stage1 = session.stage1 /\ session'.stage2 = session.stage2
        /\ session'.contradictions = session.contradictions
        /\ session'.rebuttals = session.rebuttals /\ board'.agenda = board.agenda
        /\ rebuttal' = rebuttal
    BY <1>17 DEF VerifySynthesis, Notes, To, Verified, Planned, RecordsTyped, SessionRecord
  <2>2. board.pc # "rebut" /\ board'.pc \notin Unreviewed \cup {"score"}
    BY <1>17 DEF VerifySynthesis, Notes, To, RecordsTyped, Unreviewed, Early
  <2> QED  BY <1>0, <2>1, <2>2, HeardKept DEF FoundAmongHeard, Unreviewed, Early
<1>18. CASE ReviseSynthesis
  <2>1. /\ session'.stage1 = session.stage1 /\ session'.stage2 = session.stage2
        /\ session'.contradictions = session.contradictions
        /\ session'.rebuttals = session.rebuttals /\ board'.agenda = board.agenda
        /\ rebuttal' = rebuttal
    BY <1>18 DEF ReviseSynthesis, Only, Notes, Raises, To, Verified, Planned, RecordsTyped,
           SessionRecord
  <2>2. board.pc # "rebut" /\ board'.pc \notin Unreviewed \cup {"score"}
    BY <1>18 DEF ReviseSynthesis, Only, Notes, Raises, To, RecordsTyped, Unreviewed, Early
  <2> QED  BY <1>0, <2>1, <2>2, HeardKept DEF FoundAmongHeard, Unreviewed, Early
<1>19. CASE ReverifySynthesis
  <2>1. /\ session'.stage1 = session.stage1 /\ session'.stage2 = session.stage2
        /\ session'.contradictions = session.contradictions
        /\ session'.rebuttals = session.rebuttals /\ board'.agenda = board.agenda
        /\ rebuttal' = rebuttal
    BY <1>19 DEF ReverifySynthesis, Notes, To, Verified, Planned, RecordsTyped, SessionRecord
  <2>2. board.pc # "rebut" /\ board'.pc \notin Unreviewed \cup {"score"}
    BY <1>19 DEF ReverifySynthesis, Notes, To, RecordsTyped, Unreviewed, Early
  <2> QED  BY <1>0, <2>1, <2>2, HeardKept DEF FoundAmongHeard, Unreviewed, Early
<1>20. CASE stage4_secretary_brief
  <2>1. /\ session'.stage1 = session.stage1 /\ session'.stage2 = session.stage2
        /\ session'.contradictions = session.contradictions
        /\ session'.rebuttals = session.rebuttals /\ board'.agenda = board.agenda
        /\ rebuttal' = rebuttal
    BY <1>20 DEF stage4_secretary_brief, Only, Notes, Raises, To, Verified, Planned, RecordsTyped,
           SessionRecord
  <2>2. board.pc # "rebut" /\ board'.pc \notin Unreviewed \cup {"score"}
    BY <1>20 DEF stage4_secretary_brief, Only, Notes, Raises, To, RecordsTyped, Unreviewed, Early
  <2> QED  BY <1>0, <2>1, <2>2, HeardKept DEF FoundAmongHeard, Unreviewed, Early
<1>21. CASE _metadata_for_decision
  <2>1. /\ session'.stage1 = session.stage1 /\ session'.stage2 = session.stage2
        /\ session'.contradictions = session.contradictions
        /\ session'.rebuttals = session.rebuttals /\ board'.agenda = board.agenda
        /\ rebuttal' = rebuttal
    BY <1>21 DEF _metadata_for_decision, Notes, To, Verified, Planned, RecordsTyped, SessionRecord
  <2>2. board.pc # "rebut" /\ board'.pc \notin Unreviewed \cup {"score"}
    BY <1>21 DEF _metadata_for_decision, Notes, To, RecordsTyped, Unreviewed, Early
  <2> QED  BY <1>0, <2>1, <2>2, HeardKept DEF FoundAmongHeard, Unreviewed, Early
<1>22. CASE build_delegation_plan
  <2>1. /\ session'.stage1 = session.stage1 /\ session'.stage2 = session.stage2
        /\ session'.contradictions = session.contradictions
        /\ session'.rebuttals = session.rebuttals /\ board'.agenda = board.agenda
        /\ rebuttal' = rebuttal
    BY <1>22 DEF build_delegation_plan, Only, Notes, Raises, To, Verified, Planned, RecordsTyped,
           SessionRecord
  <2>2. board.pc # "rebut" /\ board'.pc \notin Unreviewed \cup {"score"}
    BY <1>22 DEF build_delegation_plan, Only, Notes, Raises, To, RecordsTyped, Unreviewed, Early
  <2> QED  BY <1>0, <2>1, <2>2, HeardKept DEF FoundAmongHeard, Unreviewed, Early
<1>23. CASE RepairPlan
  <2>1. /\ session'.stage1 = session.stage1 /\ session'.stage2 = session.stage2
        /\ session'.contradictions = session.contradictions
        /\ session'.rebuttals = session.rebuttals /\ board'.agenda = board.agenda
        /\ rebuttal' = rebuttal
    BY <1>23 DEF RepairPlan, Only, Notes, Raises, To, Verified, Planned, RecordsTyped,
           SessionRecord
  <2>2. board.pc # "rebut" /\ board'.pc \notin Unreviewed \cup {"score"}
    BY <1>23 DEF RepairPlan, Only, Notes, Raises, To, RecordsTyped, Unreviewed, Early
  <2> QED  BY <1>0, <2>1, <2>2, HeardKept DEF FoundAmongHeard, Unreviewed, Early
<1>24. CASE SaveSession
  <2>1. /\ session'.stage1 = session.stage1 /\ session'.stage2 = session.stage2
        /\ session'.contradictions = session.contradictions
        /\ session'.rebuttals = session.rebuttals /\ board'.agenda = board.agenda
        /\ rebuttal' = rebuttal
    BY <1>24 DEF SaveSession, To, Verified, Planned, RecordsTyped, SessionRecord
  <2>2. board.pc # "rebut" /\ board'.pc \notin Unreviewed \cup {"score"}
    BY <1>24 DEF SaveSession, To, RecordsTyped, Unreviewed, Early
  <2> QED  BY <1>0, <2>1, <2>2, HeardKept DEF FoundAmongHeard, Unreviewed, Early
<1>25. CASE record_delegation_plan
  <2>1. /\ session'.stage1 = session.stage1 /\ session'.stage2 = session.stage2
        /\ session'.contradictions = session.contradictions
        /\ session'.rebuttals = session.rebuttals /\ board'.agenda = board.agenda
        /\ rebuttal' = rebuttal
    BY <1>25 DEF record_delegation_plan, To, Verified, Planned, RecordsTyped, SessionRecord
  <2>2. board.pc # "rebut" /\ board'.pc \notin Unreviewed \cup {"score"}
    BY <1>25 DEF record_delegation_plan, To, RecordsTyped, Unreviewed, Early
  <2> QED  BY <1>0, <2>1, <2>2, HeardKept DEF FoundAmongHeard, Unreviewed, Early
<1>26. CASE _record_to_ledger
  <2>1. /\ session'.stage1 = session.stage1 /\ session'.stage2 = session.stage2
        /\ session'.contradictions = session.contradictions
        /\ session'.rebuttals = session.rebuttals /\ board'.agenda = board.agenda
        /\ rebuttal' = rebuttal
    BY <1>26 DEF _record_to_ledger, To, Verified, Planned, RecordsTyped, SessionRecord
  <2>2. board.pc # "rebut" /\ board'.pc \notin Unreviewed \cup {"score"}
    BY <1>26 DEF _record_to_ledger, To, RecordsTyped, Unreviewed, Early
  <2> QED  BY <1>0, <2>1, <2>2, HeardKept DEF FoundAmongHeard, Unreviewed, Early
<1>27. CASE Killed
  <2>1. /\ session'.contradictions = {} /\ session'.rebuttals = <<>> /\ board'.agenda = <<>>
        /\ rebuttal'.pc = "off"
    BY <1>27 DEF Killed, RecordsTyped, BoardSession, NoRebuttal
  <2> QED  BY <1>0, <2>1, NothingHeard DEF FoundAmongHeard
<1> QED
  BY <1>1, <1>2, <1>3, <1>4, <1>5, <1>6, <1>7, <1>8, <1>9, <1>10, <1>11, <1>12, <1>13,
     <1>14, <1>15, <1>16, <1>17, <1>18, <1>19, <1>20, <1>21, <1>22, <1>23, <1>24, <1>25,
     <1>26, <1>27
     DEF DeliberationNext, DeliberationStep

-----------------------------------------------------------------------------
(* Only the actions of a rebuttal, its start and its end touch it. *)
LEMMA RebuttalMoves ==
  ASSUME DeliberationNext
  PROVE  \/ RebuttalStep \/ RebuttalStarts
         \/ rebuttal' = NoRebuttal /\ transcript' = <<>>
         \/ rebuttal' = rebuttal /\ transcript' = transcript
<1> DEFINE Moves == \/ RebuttalStep \/ RebuttalStarts
                    \/ rebuttal' = NoRebuttal /\ transcript' = <<>>
                    \/ rebuttal' = rebuttal /\ transcript' = transcript
<1>1. CASE \/ deliberate \/ Classified \/ run_secretary_shortcut \/ stage0_intake
           \/ _collect_member_evidence \/ Asks \/ (\E m \in Member : _query_member(m))
           \/ stage1 \/ _atomize_stage1 \/ stage2 \/ Promote \/ RebuttalsOver
  BY <1>1 DEF deliberate, Classified, run_secretary_shortcut, stage0_intake,
         _collect_member_evidence, Asks, _query_member, stage1, _atomize_stage1, stage2, Promote,
         RebuttalsOver, Only, Notes, Raises
<1>2. CASE \/ stage3 \/ VerifySynthesis \/ ReviseSynthesis \/ ReverifySynthesis
           \/ stage4_secretary_brief \/ _metadata_for_decision \/ build_delegation_plan
           \/ RepairPlan \/ SaveSession \/ record_delegation_plan \/ _record_to_ledger
  BY <1>2 DEF stage3, VerifySynthesis, ReviseSynthesis, ReverifySynthesis, stage4_secretary_brief,
         _metadata_for_decision, build_delegation_plan, RepairPlan, SaveSession,
         record_delegation_plan, _record_to_ledger, Notes, Only, Raises
<1>3. CASE run_live_rebuttal \/ RebuttalTurn \/ RebuttalRecorded \/ Killed
  BY <1>3 DEF run_live_rebuttal, RebuttalTurn, RebuttalRecorded, Killed
<1> QED  BY <1>1, <1>2, <1>3 DEF DeliberationNext, DeliberationStep

(* Every step of a deliberation keeps what the stages rely on. *)
LEMMA DeliberationStays ==
  ASSUME DeliberationInv, RebuttalInv, DeliberationNext
  PROVE  DeliberationInv' /\ RebuttalInv'
<1>1. RebuttalInv'
  <2>1. ASSUME rebuttal' = rebuttal /\ transcript' = transcript PROVE RebuttalInv'
    BY <2>1 DEF RebuttalInv, RebuttalTypeOK, RebuttalOrderly, Turns
  <2> QED  BY <2>1, RebuttalMoves, RebuttalStepOrderly, RebuttalFresh
<1> QED
  BY <1>1, RecordsStayTyped, SeatsStayTaken, HeardStay, OneTextStays, FoundStay, StoredStays
  DEF DeliberationInv

(* So does every reachable state, the rebuttal that is under way included. *)
LEMMA DeliberationInvariant == Spec => [](DeliberationInv /\ RebuttalInv)
<1>1. Init => DeliberationInv /\ RebuttalInv
  <2> SUFFICES ASSUME Init PROVE DeliberationInv /\ RebuttalInv
    OBVIOUS
  <2>1. /\ board = [pc |-> "new", verify |-> FALSE, agenda |-> <<>>] /\ seat = Idle
        /\ session = BoardSession /\ file = NoFile /\ rows = {}
        /\ rebuttal = NoRebuttal /\ transcript = <<>>
    BY DEF Init, DeliberationInit, RebuttalInit
  <2>2. RebuttalInv
    BY <2>1, RebuttalFresh
  <2>3. RecordsTyped
    BY <2>1, SessionBegins DEF RecordsTyped, BoardPC, Idle
  <2>4. SeatsTaken
    BY <2>1 DEF SeatsTaken, Idle
  <2>5. StagesHeard /\ OfOneText
    BY <2>1, SessionBegins
    DEF StagesHeard, OfOneText, Versioned, BoardSession, NoSynthesis, Heard, Unreviewed, Early
  <2>6. FoundAmongHeard
    <3>1. session.rebuttals \o board.agenda = <<>>
      BY <2>1 DEF BoardSession
    <3>2. Len(<<>>) = 0 /\ DOMAIN <<>> = {}
      OBVIOUS
    <3>3. RebuttalsSound
      BY <2>2, <3>1, <3>2, CapBounds DEF RebuttalsSound, RebuttalInv
    <3> QED  BY <2>1, <3>3 DEF FoundAmongHeard, BoardSession, NoRebuttal
  <2>7. FileWritten
    BY <2>1 DEF FileWritten, DecisionGrounded, NoFile, BoardSession, Deferral
  <2> QED  BY <2>2, <2>3, <2>4, <2>5, <2>6, <2>7 DEF DeliberationInv
<1>2. DeliberationInv /\ RebuttalInv /\ [Next]_vars => (DeliberationInv /\ RebuttalInv)'
  <2> SUFFICES ASSUME DeliberationInv, RebuttalInv, [Next]_vars
               PROVE  (DeliberationInv /\ RebuttalInv)'
    OBVIOUS
  <2>1. CASE DeliberationNext
    BY <2>1, DeliberationStays
  <2>2. CASE UNCHANGED deliberationVars
    <3>1. /\ board' = board /\ seat' = seat /\ session' = session /\ file' = file
          /\ rows' = rows /\ rebuttal' = rebuttal /\ transcript' = transcript
      BY <2>2 DEF deliberationVars
    <3>2. RebuttalInv'
      BY <3>1 DEF RebuttalInv, RebuttalTypeOK, RebuttalOrderly, Turns
    <3>3. FoundAmongHeard'
      <4>1. RebuttalsSound'
        BY <3>1, <3>2, HeardKept DEF RebuttalInv, DeliberationInv, FoundAmongHeard
      <4> QED  BY <3>1, <4>1 DEF DeliberationInv, FoundAmongHeard
    <3>4. RecordsTyped' /\ SeatsTaken' /\ FileWritten'
      BY <3>1 DEF DeliberationInv, RecordsTyped, SeatsTaken, FileWritten, DecisionGrounded
    <3>5. StagesHeard' /\ OfOneText'
      BY <3>1 DEF DeliberationInv, StagesHeard, OfOneText, Versioned, Quorate1, Quorate2
    <3> QED  BY <3>2, <3>3, <3>4, <3>5 DEF DeliberationInv
  <2> QED  BY <2>1, <2>2, PartsStep
<1> QED  BY <1>1, <1>2, PTL DEF Spec

(* A decision that is saved was answered by both quorums, and its brief,   *)
(* verification, decision and plan are of the synthesis saved with it;     *)
(* tasks and ledger rows have the file they refer to: for every roster,    *)
(* every quorum and every council, however the calls to a model end and    *)
(* wherever the process dies.                                              *)
THEOREM DecisionsGrounded == Spec => []DecisionGrounded
<1>1. DeliberationInv => DecisionGrounded
  BY DEF DeliberationInv, FileWritten
<1> QED  BY <1>1, DeliberationInvariant, PTL

(* The rebuttals heard and still to be heard are between two members who   *)
(* took part, about what was found between them, one for a pair, within    *)
(* the cap, and each keeps its order of turns, for any number of rounds.   *)
THEOREM RebuttalsHold == Spec => []RebuttalsSound
<1>1. DeliberationInv => RebuttalsSound
  BY DEF DeliberationInv, FoundAmongHeard
<1> QED  BY <1>1, DeliberationInvariant, PTL

-----------------------------------------------------------------------------
(* The meeting.                                                            *)

(* Every reachable meeting is whole, and every copy of it as far as its    *)
(* request has got.                                                        *)
LEMMA MeetingInvariant == Spec => []MeetingInv
<1>1. Init => MeetingInv
  BY MeetingInitial DEF Init
<1>2. MeetingInv /\ [Next]_vars => MeetingInv'
  BY PartsStep, MeetingStep
<1> QED  BY <1>1, <1>2, PTL DEF Spec

(* MeetingKept, for any number of requests, members, turns and rounds:     *)
(* what is written tells one consistent story, and a request that nobody   *)
(* overtook loses nothing that was said and reopens nothing adjourned.     *)
THEOREM MeetingsKept == Spec => MeetingKept
<1>1. MeetingInv /\ [Next]_vars =>
        [ /\ meeting' # meeting => Consistent(meeting')
          /\ \A r \in Call : Saves(r) /\ ~call[r].late =>
               /\ meeting.status # "adjourned"
               /\ meeting'.status = "completed" \/ IsPrefix(meeting.log, meeting'.log)
        ]_meetingVars
  BY PartsStep, MeetingStep DEF StepKept
<1> QED  BY <1>1, MeetingInvariant, PTL DEF Spec, MeetingKept

-----------------------------------------------------------------------------
(* The type invariants of the parts follow from what they keep. *)
LEMMA BoardRecords ==
  ASSUME DeliberationInv, RebuttalInv
  PROVE  DeliberationTypeOK
<1>1. /\ board.pc \in BoardPC /\ board.verify \in BOOLEAN
      /\ seat \in [Member -> {"idle", "asked", "answered", "failed"}]
      /\ session \in SessionRecord /\ rows \subseteq {"tasks", "ledger"}
  BY DEF DeliberationInv, RecordsTyped
<1>2. /\ session.council \subseteq Member
      /\ {session.verification, session.brief, session.plan} \subseteq 0..2
      /\ session.decision \in 0..2 \cup {Deferral}
  BY <1>1 DEF SessionRecord, Deferral
<1>3. /\ session.stage1 \subseteq session.council
      /\ DOMAIN session.stage2 \subseteq session.council /\ RebuttalTypeOK
  BY DEF DeliberationInv, StagesHeard, RebuttalInv
<1> QED  BY <1>1, <1>2, <1>3 DEF DeliberationTypeOK

LEMMA MeetingRecords ==
  ASSUME MeetingInv
  PROVE  MeetingTypeOK
BY DEF MeetingInv, CallsTyped, MeetingRecord, CallRecord, Line, MeetingTypeOK

(* The records and the logs of the deliberation, the meeting and the       *)
(* stream have the types that the code gives them, in every state.         *)
THEOREM TypesHold == Spec => []TypeOK
<1>1. DeliberationInv /\ RebuttalInv /\ MeetingInv /\ StreamInv => TypeOK
  BY BoardRecords, MeetingRecords DEF StreamInv, TypeOK
<1>2. Spec => [](DeliberationInv /\ RebuttalInv /\ MeetingInv /\ StreamInv)
  BY DeliberationInvariant, MeetingInvariant, StreamInvariant, PTL
<1> QED  BY <1>1, <1>2, PTL
=============================================================================
