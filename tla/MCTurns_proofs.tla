----------------------------- MODULE MCTurns_proofs -----------------------------
(***************************************************************************)
(* What the turn of a member, a streamed message and a live research keep, *)
(* for every set of keys, tools, seats and budgets: the budgets of a turn, *)
(* verdicts backed by their sources, messages that show one attempt of     *)
(* each part, and follow-ups that are all answered for.                    *)
(***************************************************************************)
EXTENDS MCTurns, FiniteSetTheorems, SequenceTheorems, TLAPS

-----------------------------------------------------------------------------
(* query_llm.                                                              *)

(* A request that is still to be sent is within the retries. *)
LlmInv ==
  /\ LlmTypeOK
  /\ llm \in {"send", "backoff"} => attempt < Retries

-----------------------------------------------------------------------------
(* The turn.                                                               *)

(* A request may add one batch to what is charged, whatever it called. *)
Rounds == IF turn.pc \in {"asking", "tools"} THEN turn.iter - 1 ELSE turn.iter
RoundsCharged ==
  /\ turn.iter <= MAX_ITERS(turn.mode)
  /\ turn.pc \in {"asking", "tools"} => turn.iter > 0
  /\ turn.used <= Rounds * MaxBatch

(* A turn is told to write up before it is asked for the last time. *)
ToldInTime ==
  turn.pc \in {"asking", "complete"} /\ turn.used > 0 /\ turn.used >= Budget.calls => turn.final

(* A result on its way to the record, or on it. *)
Backed(r) ==
  _make_tool_call_record(r) = "SUPPORTED"
    => r.backed \/ (r.summary = "none" /\ "SUPPORTED" \in r.quoted)
ResultsBacked ==
  \A i \in 1..MaxBatch : calls[i].at \in {"done", "recorded"} => Backed(calls[i].result)

(* Calls that were offered pass the budgets by all but one of a batch. *)
WithinBudget ==
  /\ Cardinality(Granted) <= Budget.calls + (MaxBatch - 1)
  /\ "open_browser" \in Tool =>
       turn.offered["open_browser"] <= Budget.open_browser + (MaxBatch - 1)

TurnInv ==
  /\ TurnTypeOK /\ LlmInv
  /\ turn.pc = "off" => turn.used = 0 /\ turn.iter = 0 /\ \A t \in Tool : turn.offered[t] = 0
  /\ IsFiniteSet(Granted) /\ Cardinality(Granted) <= turn.used
  /\ \A t \in Tool : turn.offered[t] <= turn.sub[t]
  /\ WithinBudget /\ RoundsCharged /\ ToldInTime /\ ResultsBacked

-----------------------------------------------------------------------------
(* The message.                                                            *)

(* A text of one attempt. *)
OfAttempt(t, a) == \A i \in 1..Len(t) : t[i] = a

(* A text whose parts are of the continuations before number c. *)
Settled(t, c) == ~Mixed(t) /\ \A i \in 1..Len(t) : t[i] < 2 * c

(* What has been collected of the part under way: what was shown of a      *)
(* native stream is of that attempt, however it ended; the answer that     *)
(* replaces it replaces its text in a member's message at the first delta, *)
(* and in the brief at the end.                                            *)
PartUnderWay ==
  /\ msg.pc = "open" => msg.local = <<>>
  /\ msg.pc \in {"native", "answer"} => OfAttempt(msg.local, Native)
  /\ msg.pc = "simulated" =>
       /\ msg.left <= msg.size
       /\ msg.left = msg.size => OfAttempt(msg.local, Native)
  /\ msg.pc = "ended" => OfAttempt(msg.local, Native) \/ OfAttempt(msg.local, Answer)

MessageInv ==
  /\ MessageTypeOK /\ LlmInv
  /\ msg.pc = "off" => shown = <<>> /\ msg.local = <<>> /\ msg.existing = <<>>
  /\ msg.kind = "brief" => msg.existing = <<>>
  /\ Settled(msg.existing, msg.conts) /\ PartUnderWay /\ NoMixing

-----------------------------------------------------------------------------
(* The research.                                                           *)

(* The follow-ups of list q are those whose fate is f, each once. *)
Holds(q, f) ==
  /\ \A k \in 1..Len(q) : q[k].id \in DOMAIN fate /\ fate[q[k].id] = f
  /\ \A k, l \in 1..Len(q) : q[k].id = q[l].id => k = l
  /\ \A i \in DOMAIN fate : fate[i] = f => \E k \in 1..Len(q) : q[k].id = i

ResearchInv ==
  /\ ResearchTypeOK
  /\ Len(fate) <= MaxFollowups
  /\ Holds(buffer, "queued") /\ Holds(pending, "taken")
  /\ pending # <<>> => research.pc \in {"round", "revising", "failed"}
  /\ research.pc = "revising" => pending # <<>> /\ Head(pending).target \in Upgraded
  /\ research.pc \in {"drain", "done"} => briefed = version
  /\ \A s \in Seat : AtWork(s) =>
       \/ research.pc \in {"gather", "failed"}
       \/ research.pc = "revising" /\ s = Head(pending).target

TurnsInv == TurnInv /\ MessageInv /\ ResearchInv

-----------------------------------------------------------------------------
(* query_llm, step by step.                                                *)

LEMMA ChainLinks == Len(Chain) = 4 /\ \A i \in 1..4 : Chain[i] \in Prefix
BY DEF Chain, FREE_FALLBACKS, PAID_LAST_RESORT, Prefix, Handler

LEMMA AskedPrefix ==
  ASSUME LlmTypeOK
  PROVE  Asked \in Prefix
BY ChainLinks DEF LlmTypeOK, Asked

(* There is a first one among the links that are eligible. *)
LEMMA NextLinkTyped ==
  ASSUME NEW i \in 0..4, NEW primary
  PROVE  NextLink(i, primary) \in 0..4
<1> DEFINE rest == {j \in (i + 1)..Len(Chain) : _fallback_eligible(j, primary)}
<1>1. rest \subseteq 1..4
  BY ChainLinks
<1>2. CASE rest = {}
  BY <1>2 DEF NextLink
<1>3. CASE rest # {}
  <2> HIDE DEF rest
  <2>1. \E j \in rest : \A k \in rest : j <= k
    <3>1. \A j \in rest : j = 1 \/ j = 2 \/ j = 3 \/ j = 4
      BY <1>1
    <3>2. CASE 1 \in rest
      BY <3>1, <3>2
    <3>3. CASE 1 \notin rest /\ 2 \in rest
      BY <3>1, <3>3
    <3>4. CASE 1 \notin rest /\ 2 \notin rest /\ 3 \in rest
      BY <3>1, <3>4
    <3>5. CASE 1 \notin rest /\ 2 \notin rest /\ 3 \notin rest
      BY <3>1, <3>5, <1>3
    <3> QED  BY <3>2, <3>3, <3>4, <3>5
  <2>2. (CHOOSE j \in rest : \A k \in rest : j <= k) \in rest
    BY <2>1
  <2> QED  BY <1>1, <1>3, <2>2 DEF NextLink, rest
<1> QED  BY <1>2, <1>3

LEMMA LlmInitInv == LlmInit => LlmInv
<1> SUFFICES ASSUME LlmInit PROVE LlmInv
  OBVIOUS
<1>1. "gemini" \in Prefix
  BY DEF Prefix, Handler
<1>2. request \in [prefix : Prefix, tools : BOOLEAN] /\ reply \in [by : Prefix, calls : BOOLEAN]
  BY <1>1 DEF LlmInit
<1>3. Retries = 3
  BY DEF LlmInit, Retries, PRIMARY_MAX_RETRIES
<1>4. Len(Chain) = 4
  BY ChainLinks
<1>5. llm \in LlmPC /\ refused \in BOOLEAN /\ llm \notin {"send", "backoff"}
  BY DEF LlmInit, LlmPC
<1>6. link = 0 /\ attempt = 0
  BY DEF LlmInit
<1>7. link \in 0..Len(Chain)
  BY <1>4, <1>6
<1>8. attempt \in 0..Retries
  BY <1>3, <1>6
<1> QED  BY <1>2, <1>5, <1>7, <1>8 DEF LlmInv, LlmTypeOK

LEMMA LlmCallInv ==
  ASSUME LlmInv, NEW prefix \in Prefix, NEW tools \in BOOLEAN, LlmCall(prefix, tools)
  PROVE  LlmInv'
<1>1. request' \in [prefix : Prefix, tools : BOOLEAN]
  BY DEF LlmCall
<1>2. Retries' = 3
  BY DEF LlmCall, Retries, PRIMARY_MAX_RETRIES
<1>3. Len(Chain) = 4
  BY ChainLinks
<1>4. link' = 0 /\ attempt' = 0 /\ llm' = "send" /\ refused' = FALSE /\ reply' = reply
  BY DEF LlmCall
<1>5. link' \in 0..Len(Chain) /\ attempt' \in 0..Retries' /\ attempt' < Retries'
  BY <1>2, <1>3, <1>4
<1>6. llm' \in LlmPC
  BY <1>4 DEF LlmPC
<1> QED  BY <1>1, <1>4, <1>5, <1>6 DEF LlmInv, LlmTypeOK

LEMMA LlmStepInv ==
  ASSUME LlmInv, LlmStep
  PROVE  LlmInv'
<1> USE ChainLinks DEF LlmInv, LlmTypeOK, LlmPC, Retries, PRIMARY_MAX_RETRIES, FALLBACK_MAX_RETRIES
<1>1. CASE LlmKeyMissing
  BY <1>1 DEF LlmKeyMissing
<1>2. CASE LlmSend
  BY <1>2 DEF LlmSend
<1>3. CASE LlmAnswers
  <2>1. PICK o : reply' = [by |-> Asked, calls |-> o = "tool_calls"]
    BY <1>3 DEF LlmAnswers
  <2>2. reply' \in [by : Prefix, calls : BOOLEAN]
    BY <2>1, AskedPrefix
  <2> QED  BY <1>3, <2>2 DEF LlmAnswers
<1>4. CASE LlmFails
  <2>1. UNCHANGED <<request, reply>> /\ refused' \in BOOLEAN
    BY <1>4 DEF LlmFails
  <2>2. CASE attempt < Retries /\ llm' = "backoff" /\ UNCHANGED <<link, attempt>>
    BY <2>1, <2>2
  <2>3. CASE HandlerExhausted
    BY <2>1, <2>3, NextLinkTyped DEF HandlerExhausted
  <2>4. CASE llm' = "raised" /\ UNCHANGED <<link, attempt>>
    BY <2>1, <2>4
  <2> QED  BY <1>4, <2>2, <2>3, <2>4 DEF LlmFails
<1>5. CASE LlmBackoffOver
  BY <1>5 DEF LlmBackoffOver
<1> QED  BY <1>1, <1>2, <1>3, <1>4, <1>5 DEF LlmStep

LEMMA LlmStays ==
  ASSUME LlmInv, UNCHANGED llmVars
  PROVE  LlmInv'
BY DEF LlmInv, LlmTypeOK, Retries, llmVars

-----------------------------------------------------------------------------
(* The research.                                                           *)

LEMMA ResearchInitInv == ResearchInit => ResearchInv
<1> USE ResearchAssumption
<1> SUFFICES ASSUME ResearchInit PROVE ResearchInv
  OBVIOUS
<1>1. ResearchTypeOK
  BY DEF ResearchInit, ResearchTypeOK, ResearchPC
<1>2. Holds(buffer, "queued") /\ Holds(pending, "taken")
  BY DEF ResearchInit, Holds
<1> QED  BY <1>1, <1>2 DEF ResearchInit, ResearchInv, AtWork

(* The lists and the fates are as they were. *)
Filed == UNCHANGED <<buffer, pending, fate>>

LEMMA ListsKept ==
  ASSUME ResearchInv, Filed
  PROVE  Holds(buffer, "queued")' /\ Holds(pending, "taken")'
BY DEF Filed, Holds, ResearchInv

(* A step of the research that moves no follow-up. *)
LEMMA QuietResearchStep ==
  ASSUME ResearchInv,
         \/ run_chair_intake \/ IntakeRaises \/ GatherRaises \/ GatherReturns \/ _generate_brief
         \/ ResearchReturns \/ MemberRevises \/ RevisionRaises \/ RoundEnds
         \/ \E s \in Seat : SeatEnds(s)
  PROVE  ResearchInv'
<1> USE ResearchAssumption DEF ResearchInv, ResearchTypeOK, ResearchPC, AtWork
<1>1. CASE run_chair_intake
  <2>1. PICK routed \in SUBSET Seat : seat' = _phase1_mode_override(routed)
    BY <1>1 DEF run_chair_intake, parse_routing_decision
  <2>2. seat' \in [Seat -> {"off", "fast", "tools", "back", "raised"}]
    BY <2>1 DEF _phase1_mode_override
  <2>3. Filed
    BY <1>1 DEF run_chair_intake, Filed
  <2> QED  BY <1>1, <2>2, <2>3, ListsKept DEF run_chair_intake, Filed
<1>2. CASE IntakeRaises
  <2>1. Filed
    BY <1>2 DEF IntakeRaises, Filed
  <2> QED  BY <1>2, <2>1, ListsKept DEF IntakeRaises, Filed
<1>3. CASE GatherRaises
  <2>1. Filed
    BY <1>3 DEF GatherRaises, Filed
  <2> QED  BY <1>3, <2>1, ListsKept DEF GatherRaises, Filed
<1>4. CASE GatherReturns
  <2>1. Filed
    BY <1>4 DEF GatherReturns, Filed
  <2>2. version' \in Nat
    <3>1. IsFiniteSet({s \in Seat : seat[s] = "back"})
      BY FS_Subset
    <3> QED  BY <1>4, <3>1, FS_CardinalityType DEF GatherReturns
  <2> QED  BY <1>4, <2>1, <2>2, ListsKept DEF GatherReturns, Filed
<1>5. CASE _generate_brief
  <2>1. Filed
    BY <1>5 DEF _generate_brief, Filed
  <2> QED  BY <1>5, <2>1, ListsKept DEF _generate_brief, Filed
<1>6. CASE ResearchReturns
  <2>1. Filed
    BY <1>6 DEF ResearchReturns, Filed
  <2> QED  BY <1>6, <2>1, ListsKept DEF ResearchReturns, Filed
<1>7. CASE MemberRevises
  <2>1. Filed
    BY <1>7 DEF MemberRevises, Filed
  <2>2. \A s \in Seat : s # Head(pending).target => seat'[s] = seat[s]
    BY <1>7 DEF MemberRevises
  <2>3. seat' \in [Seat -> {"off", "fast", "tools", "back", "raised"}]
    BY <1>7 DEF MemberRevises
  <2> QED  BY <1>7, <2>1, <2>2, <2>3, ListsKept DEF MemberRevises, Filed
<1>8. CASE RevisionRaises
  <2>1. Filed
    BY <1>8 DEF RevisionRaises, Filed
  <2> QED  BY <1>8, <2>1, ListsKept DEF RevisionRaises, Filed
<1>9. CASE RoundEnds
  <2>1. Filed
    BY <1>9 DEF RoundEnds, Filed
  <2> QED  BY <1>9, <2>1, ListsKept DEF RoundEnds, Filed
<1>10. ASSUME NEW s \in Seat, SeatEnds(s) PROVE ResearchInv'
  <2>1. Filed
    BY <1>10 DEF SeatEnds, Filed
  <2> QED  BY <1>10, <2>1, ListsKept DEF SeatEnds, Filed
<1> QED  BY <1>1, <1>2, <1>3, <1>4, <1>5, <1>6, <1>7, <1>8, <1>9, <1>10

LEMMA TypedInv ==
  ASSUME ResearchInv, FollowupTyped
  PROVE  ResearchInv'
<1> USE ResearchAssumption DEF ResearchInv, ResearchTypeOK
<1>1. PICK t \in Target : buffer' = Append(buffer, [id |-> Len(fate) + 1, target |-> t])
  BY DEF FollowupTyped
<1> DEFINE n == Len(fate)
           f == [id |-> n + 1, target |-> t]
<1>2. n \in Nat /\ n + 1 \in 1..MaxFollowups /\ DOMAIN fate = 1..n
  BY DEF FollowupTyped
<1>3. f \in Followup /\ f.id = n + 1
  BY <1>2 DEF Followup
<1>4. /\ buffer' \in Seq(Followup) /\ Len(buffer') = Len(buffer) + 1
      /\ buffer'[Len(buffer) + 1] = f /\ \A k \in 1..Len(buffer) : buffer'[k] = buffer[k]
  BY <1>1, <1>3
<1>5. /\ fate' \in Seq({"queued", "taken", "skipped", "revised"}) /\ Len(fate') = n + 1
      /\ DOMAIN fate' = 1..(n + 1)
      /\ fate'[n + 1] = "queued" /\ \A i \in 1..n : fate'[i] = fate[i]
  BY DEF FollowupTyped
<1>6. UNCHANGED <<research, seat, pending, version, briefed>>
  BY DEF FollowupTyped
<1>7. /\ \A k \in 1..Len(buffer) : buffer[k].id \in 1..n /\ fate[buffer[k].id] = "queued"
      /\ \A k, l \in 1..Len(buffer) : buffer[k].id = buffer[l].id => k = l
      /\ \A i \in 1..n : fate[i] = "queued" => \E k \in 1..Len(buffer) : buffer[k].id = i
  BY <1>2 DEF Holds
<1>8. /\ \A k \in 1..Len(pending) : pending[k].id \in 1..n /\ fate[pending[k].id] = "taken"
      /\ \A k, l \in 1..Len(pending) : pending[k].id = pending[l].id => k = l
      /\ \A i \in 1..n : fate[i] = "taken" => \E k \in 1..Len(pending) : pending[k].id = i
  BY <1>2 DEF Holds
<1>9. Len(buffer) \in Nat
  OBVIOUS
<1>10. Len(fate') <= MaxFollowups
  BY <1>2, <1>5
<1>11. Holds(buffer, "queued")'
  <2> HIDE DEF f, n, ResearchInv, ResearchTypeOK
  <2>0. n + 1 \notin 1..n /\ 1..(n + 1) = (1..n) \cup {n + 1}
        /\ 1..(Len(buffer) + 1) = (1..Len(buffer)) \cup {Len(buffer) + 1}
    BY <1>2, <1>9
  <2>1. \A k \in 1..Len(buffer') :
          buffer'[k].id \in DOMAIN fate' /\ fate'[buffer'[k].id] = "queued"
    BY <2>0, <1>3, <1>4, <1>5, <1>7
  <2>2. \A k, l \in 1..Len(buffer') : buffer'[k].id = buffer'[l].id => k = l
    BY <2>0, <1>3, <1>4, <1>7
  <2>3. ASSUME NEW i \in DOMAIN fate', fate'[i] = "queued"
        PROVE  \E k \in 1..Len(buffer') : buffer'[k].id = i
    <3>1. CASE i = n + 1
      BY <3>1, <2>0, <1>3, <1>4
    <3>2. CASE i \in 1..n
      BY <3>2, <2>3, <2>0, <1>4, <1>5, <1>7
    <3> QED  BY <3>1, <3>2, <2>0, <1>5
  <2> QED  BY <2>1, <2>2, <2>3 DEF Holds
<1>12. Holds(pending, "taken")'
  <2> HIDE DEF f, n, ResearchInv, ResearchTypeOK
  <2>0. n + 1 \notin 1..n /\ 1..(n + 1) = (1..n) \cup {n + 1}
    BY <1>2
  <2> QED  BY <2>0, <1>5, <1>6, <1>8 DEF Holds
<1> QED  BY <1>4, <1>5, <1>6, <1>10, <1>11, <1>12 DEF AtWork

(* The buffer becomes the list of the round, in one piece. *)
LEMMA SnapshotInv ==
  ASSUME ResearchInv, Snapshot
  PROVE  ResearchInv'
<1> USE ResearchAssumption DEF ResearchInv, ResearchTypeOK
<1>1. /\ pending' = buffer /\ buffer' = <<>> /\ pending = <<>>
      /\ UNCHANGED <<seat, version, briefed>>
      /\ research' = [research EXCEPT !.pc = "round", !.rounds = @ + 1]
      /\ research.pc = "drain" /\ research.rounds < MaxRounds
  BY DEF Snapshot
<1>2. fate' = [i \in DOMAIN fate |-> IF \E k \in DOMAIN buffer : buffer[k].id = i
                                     THEN "taken" ELSE fate[i]]
  BY DEF Snapshot
<1>3. DOMAIN fate = 1..Len(fate) /\ Len(fate) \in Nat /\ DOMAIN buffer = 1..Len(buffer)
  OBVIOUS
<1>4. /\ fate' \in Seq({"queued", "taken", "skipped", "revised"})
      /\ DOMAIN fate' = DOMAIN fate /\ Len(fate') = Len(fate)
  <2>1. fate' \in [1..Len(fate) -> {"queued", "taken", "skipped", "revised"}]
    BY <1>2, <1>3
  <2> HIDE DEF ResearchInv, ResearchTypeOK
  <2>2. fate' \in Seq({"queued", "taken", "skipped", "revised"}) /\ Len(fate') = Len(fate)
    BY <2>1, <1>3
  <2> QED  BY <2>2, <1>2
<1>5. \A i \in DOMAIN fate : fate'[i] = "taken" <=> \E k \in 1..Len(buffer) : buffer[k].id = i
  <2>1. \A i \in DOMAIN fate : fate[i] # "taken"
    BY <1>1 DEF Holds
  <2> QED  BY <1>2, <1>3, <2>1
<1>6. \A i \in DOMAIN fate : fate'[i] # "queued"
  BY <1>2, <1>3 DEF Holds
<1>7. Holds(buffer, "queued")'
  BY <1>1, <1>4, <1>6 DEF Holds
<1>8. Holds(pending, "taken")'
  <2>1. /\ \A k \in 1..Len(buffer) : buffer[k].id \in DOMAIN fate
        /\ \A k, l \in 1..Len(buffer) : buffer[k].id = buffer[l].id => k = l
    BY DEF Holds
  <2> QED  BY <2>1, <1>1, <1>4, <1>5 DEF Holds
<1>9. research'.pc = "round" /\ research' \in [pc : ResearchPC, rounds : 0..MaxRounds]
  <2>1. research.rounds + 1 \in 0..MaxRounds /\ "round" \in ResearchPC
    BY <1>1 DEF ResearchPC
  <2> QED  BY <2>1, <1>1
<1>10. buffer' \in Seq(Followup)
  BY <1>1
<1> QED  BY <1>1, <1>4, <1>7, <1>8, <1>9, <1>10 DEF AtWork

(* The first of the round is answered for: skipped or worked in. *)
LEMMA AnsweredInv ==
  ASSUME ResearchInv, FollowupSkipped \/ MemberRevised
  PROVE  ResearchInv'
<1> USE ResearchAssumption DEF ResearchInv, ResearchTypeOK
<1> DEFINE e == IF FollowupSkipped THEN "skipped" ELSE "revised"
           h == Head(pending).id
<1>1. pending # <<>> /\ pending' = Tail(pending) /\ buffer' = buffer /\ briefed' = briefed
  BY DEF FollowupSkipped, MemberRevised
<1>2. fate' = [fate EXCEPT ![h] = e]
  BY DEF FollowupSkipped, MemberRevised
<1>3. e \in {"skipped", "revised"}
  OBVIOUS
<1> HIDE DEF e
<1>4. /\ Len(pending) \in Nat \ {0} /\ pending' \in Seq(Followup)
      /\ Len(pending') = Len(pending) - 1
      /\ \A k \in 1..(Len(pending) - 1) : pending'[k] = pending[k + 1]
      /\ Head(pending) = pending[1]
  BY <1>1
<1>h. /\ \A k \in 1..Len(pending) : pending[k].id \in DOMAIN fate /\ fate[pending[k].id] = "taken"
      /\ \A k, l \in 1..Len(pending) : pending[k].id = pending[l].id => k = l
      /\ \A i \in DOMAIN fate : fate[i] = "taken" => \E k \in 1..Len(pending) : pending[k].id = i
  BY DEF Holds
<1>5. h \in DOMAIN fate /\ fate[h] = "taken"
  <2>1. h = pending[1].id /\ 1 \in 1..Len(pending)
    BY <1>4
  <2> QED  BY <2>1, <1>h
<1>6. /\ fate' \in Seq({"queued", "taken", "skipped", "revised"})
      /\ DOMAIN fate' = DOMAIN fate /\ Len(fate') = Len(fate)
      /\ fate'[h] \in {"skipped", "revised"} /\ \A i \in DOMAIN fate : i # h => fate'[i] = fate[i]
  <2>1. DOMAIN fate = 1..Len(fate) /\ Len(fate) \in Nat
    OBVIOUS
  <2>2. fate' \in [1..Len(fate) -> {"queued", "taken", "skipped", "revised"}]
    <3>1. fate \in [1..Len(fate) -> {"queued", "taken", "skipped", "revised"}]
      BY <2>1
    <3>2. e \in {"queued", "taken", "skipped", "revised"}
      BY <1>3
    <3> QED  BY <3>1, <3>2, <1>2
  <2> QED  BY <2>1, <2>2, <1>2, <1>3, <1>5
<1>7. Holds(buffer, "queued")'
  <2>1. /\ \A k \in 1..Len(buffer) : buffer[k].id \in DOMAIN fate /\ fate[buffer[k].id] = "queued"
        /\ \A k, l \in 1..Len(buffer) : buffer[k].id = buffer[l].id => k = l
        /\ \A i \in DOMAIN fate : fate[i] = "queued" => \E k \in 1..Len(buffer) : buffer[k].id = i
    BY DEF Holds
  <2> HIDE DEF h, ResearchInv, ResearchTypeOK
  <2> QED  BY <2>1, <1>1, <1>5, <1>6 DEF Holds
<1>8. Holds(pending, "taken")'
  <2>1. \A k \in 1..Len(pending') : k + 1 \in 1..Len(pending) /\ pending'[k] = pending[k + 1]
    <3> HIDE DEF h, ResearchInv, ResearchTypeOK
    <3> QED  BY <1>4
  <2>2. \A k \in 1..Len(pending) : pending[k].id = h => k = 1
    BY <1>4 DEF Holds
  <2>3. \A k \in 1..Len(pending') :
          pending'[k].id \in DOMAIN fate' /\ fate'[pending'[k].id] = "taken"
    <3> SUFFICES ASSUME NEW k \in 1..Len(pending')
                 PROVE  pending'[k].id \in DOMAIN fate' /\ fate'[pending'[k].id] = "taken"
      OBVIOUS
    <3>1. pending[k + 1].id # h
      BY <2>1, <2>2, <1>4
    <3> QED  BY <3>1, <2>1, <1>6 DEF Holds
  <2>4. \A k, l \in 1..Len(pending') : pending'[k].id = pending'[l].id => k = l
    <3> SUFFICES ASSUME NEW k \in 1..Len(pending'), NEW l \in 1..Len(pending'),
                        pending'[k].id = pending'[l].id
                 PROVE  k = l
      OBVIOUS
    <3>1. /\ k + 1 \in 1..Len(pending) /\ l + 1 \in 1..Len(pending)
          /\ pending[k + 1].id = pending[l + 1].id
      BY <2>1
    <3> DEFINE i == k + 1
               j == l + 1
    <3>2. i = j
      <4> HIDE DEF i, j, h, ResearchInv, ResearchTypeOK
      <4>1. i \in 1..Len(pending) /\ j \in 1..Len(pending) /\ pending[i].id = pending[j].id
        BY <3>1 DEF i, j
      <4> QED  BY <4>1, <1>h
    <3> QED  BY <3>2, <1>4
  <2>5. ASSUME NEW i \in DOMAIN fate', fate'[i] = "taken"
        PROVE  \E k \in 1..Len(pending') : pending'[k].id = i
    <3>1. i # h /\ fate[i] = "taken" /\ i \in DOMAIN fate
      BY <2>5, <1>6
    <3>2. PICK k \in 1..Len(pending) : pending[k].id = i
      BY <3>1 DEF Holds
    <3>3. k # 1
      BY <3>1, <3>2, <1>4
    <3>4. k - 1 \in 1..Len(pending') /\ pending'[k - 1] = pending[k]
      BY <3>3, <1>4
    <3> QED  BY <3>2, <3>4
  <2> QED  BY <2>3, <2>4, <2>5 DEF Holds
<1>9. CASE FollowupSkipped
  <2>1. UNCHANGED <<research, seat, version>> /\ research.pc = "round"
    BY <1>9 DEF FollowupSkipped
  <2> QED  BY <2>1, <1>1, <1>4, <1>6, <1>7, <1>8 DEF AtWork
<1>10. CASE MemberRevised
  <2>1. /\ research' = [research EXCEPT !.pc = "round"] /\ version' = version + 1
        /\ seat' = [seat EXCEPT ![Head(pending).target] = "back"] /\ research.pc = "revising"
    BY <1>10 DEF MemberRevised
  <2>2. seat' \in [Seat -> {"off", "fast", "tools", "back", "raised"}] /\ version' \in Nat
    BY <2>1
  <2>3. research'.pc = "round" /\ research' \in [pc : ResearchPC, rounds : 0..MaxRounds]
    BY <2>1 DEF ResearchPC
  <2>4. \A s \in Seat : ~(seat'[s] \in {"fast", "tools"})
    BY <2>1 DEF AtWork
  <2> QED  BY <2>2, <2>3, <2>4, <1>1, <1>4, <1>6, <1>7, <1>8 DEF AtWork
<1> QED  BY <1>9, <1>10

LEMMA ResearchInvStep ==
  ASSUME ResearchInv, ResearchStep \/ FollowupTyped
  PROVE  ResearchInv'
BY QuietResearchStep, TypedInv, SnapshotInv, AnsweredInv DEF ResearchStep

LEMMA ResearchStays ==
  ASSUME ResearchInv, UNCHANGED researchVars
  PROVE  ResearchInv'
<1>1. UNCHANGED <<research, seat, buffer, pending, fate, version, briefed>>
  BY DEF researchVars
<1>2. Filed
  BY <1>1 DEF Filed
<1> QED  BY <1>1, <1>2, ListsKept DEF ResearchInv, ResearchTypeOK, AtWork

LEMMA ResearchAccounts == ResearchInv => FollowupsAccounted
<1> SUFFICES ASSUME ResearchInv, research.pc = "done" PROVE FollowupsAccounted
  BY DEF FollowupsAccounted
<1>1. briefed = version /\ pending = <<>> /\ \A s \in Seat : ~AtWork(s)
  BY DEF ResearchInv
<1>2. /\ DOMAIN buffer = 1..Len(buffer)
      /\ \A i \in DOMAIN fate : fate[i] \in {"queued", "taken", "skipped", "revised"}
  BY DEF ResearchInv, ResearchTypeOK
<1>3. \A i \in DOMAIN fate : fate[i] # "taken"
  BY <1>1 DEF ResearchInv, Holds
<1>4. \A i \in DOMAIN fate : fate[i] = "queued" <=> \E k \in DOMAIN buffer : buffer[k].id = i
  BY <1>2 DEF ResearchInv, Holds
<1> QED  BY <1>1, <1>2, <1>3, <1>4 DEF FollowupsAccounted

-----------------------------------------------------------------------------
(* The message.                                                            *)

LEMMA AttemptsTyped ==
  ASSUME MessageTypeOK
  PROVE  /\ Native \in Attempts /\ Answer \in Attempts /\ Native \in Nat /\ Answer = Native + 1
         /\ msg.conts \in Nat /\ Native = 2 * msg.conts
<1>1. msg.conts \in 0..MaxContinuations
  BY DEF MessageTypeOK, MsgState
<1> QED  BY <1>1, StreamAssumption DEF Native, Answer, Attempts

LEMMA CopiesOf ==
  ASSUME NEW a \in Attempts, NEW n \in Int
  PROVE  Copies(a, n) \in Seq(Attempts) /\ OfAttempt(Copies(a, n), a)
<1>1. PICK m \in Nat : 1..n = 1..m
  <2>1. CASE n \in Nat
    BY <2>1
  <2>2. CASE n < 0
    BY <2>2, 1..n = 1..0
  <2> QED  BY <2>1, <2>2
<1>2. Copies(a, n) = [i \in 1..m |-> a]
  BY <1>1 DEF Copies
<1>3. Copies(a, n) \in Seq(Attempts) /\ Len(Copies(a, n)) = m
  BY <1>2
<1> QED  BY <1>2, <1>3 DEF OfAttempt

(* A part of one attempt joined to the parts before it. *)
LEMMA Joined ==
  ASSUME NEW t \in Seq(Attempts), NEW u \in Seq(Attempts), NEW c \in 0..MaxContinuations,
         NEW a \in {2 * c, 2 * c + 1}, Settled(t, c), OfAttempt(u, a)
  PROVE  t \o u \in Seq(Attempts) /\ Settled(t \o u, c + 1)
<1> DEFINE v == t \o u
           l == Len(t)
<1>1. /\ v \in Seq(Attempts) /\ l \in Nat /\ Len(u) \in Nat /\ Len(v) = l + Len(u)
      /\ DOMAIN v = 1..(l + Len(u)) /\ DOMAIN t = 1..l
  OBVIOUS
<1>2. \A i \in 1..l : v[i] = t[i]
  OBVIOUS
<1>3. \A i \in DOMAIN v : i \notin 1..l => v[i] = a
  <2> SUFFICES ASSUME NEW i \in DOMAIN v, i \notin 1..l PROVE v[i] = a
    OBVIOUS
  <2>1. i \in (l + 1)..(l + Len(u)) /\ v[i] = u[i - l]
    BY <1>1
  <2>2. i - l \in 1..Len(u)
    BY <1>1, <2>1
  <2> QED  BY <2>1, <2>2 DEF OfAttempt
<1>4. \A i \in 1..l : t[i] \in Nat /\ t[i] < 2 * c
  BY StreamAssumption DEF Settled, Attempts
<1>c. c \in Nat /\ a \in Nat /\ a >= 2 * c /\ a <= 2 * c + 1
  BY StreamAssumption
<1> HIDE DEF v, l
<1>5. \A d \in 0..MaxContinuations : ~({2 * d, 2 * d + 1} \subseteq ToSet(v))
  <2> SUFFICES ASSUME NEW d \in 0..MaxContinuations, {2 * d, 2 * d + 1} \subseteq ToSet(v)
               PROVE  FALSE
    OBVIOUS
  <2>1. PICK i \in DOMAIN v : v[i] = 2 * d
    BY DEF ToSet
  <2>2. PICK j \in DOMAIN v : v[j] = 2 * d + 1
    BY DEF ToSet
  <2>d. d \in Nat
    BY StreamAssumption
  <2>3. CASE i \in 1..l /\ j \in 1..l
    <3>1. {2 * d, 2 * d + 1} \subseteq ToSet(t)
      BY <1>1, <1>2, <2>1, <2>2, <2>3 DEF ToSet
    <3> QED  BY <3>1 DEF Settled, Mixed
  <2>4. CASE i \notin 1..l /\ j \notin 1..l
    <3>1. v[i] = a /\ v[j] = a
      BY <1>3, <2>4
    <3> QED  BY <2>1, <2>2, <2>d, <3>1
  <2>5. CASE i \in 1..l /\ j \notin 1..l
    <3>1. 2 * d < 2 * c /\ 2 * d + 1 = a
      BY <1>2, <1>3, <1>4, <2>1, <2>2, <2>5
    <3> QED  BY <3>1, <1>c, <2>d
  <2>6. CASE i \notin 1..l /\ j \in 1..l
    <3>1. 2 * d + 1 < 2 * c /\ 2 * d = a
      BY <1>2, <1>3, <1>4, <2>1, <2>2, <2>6
    <3> QED  BY <3>1, <1>c, <2>d
  <2> QED  BY <2>3, <2>4, <2>5, <2>6
<1>6. ~(\E i, j \in DOMAIN v : i < j /\ v[i] > v[j])
  <2> SUFFICES ASSUME NEW i \in DOMAIN v, NEW j \in DOMAIN v, i < j, v[i] > v[j] PROVE FALSE
    OBVIOUS
  <2>1. CASE i \in 1..l /\ j \in 1..l
    <3>1. t[i] > t[j] /\ i \in DOMAIN t /\ j \in DOMAIN t
      BY <1>1, <1>2, <2>1
    <3> QED  BY <3>1 DEF Settled, Mixed
  <2>2. CASE i \in 1..l /\ j \notin 1..l
    BY <1>2, <1>3, <1>4, <1>c, <2>2
  <2>3. CASE i \notin 1..l /\ j \notin 1..l
    <3>1. v[i] = a /\ v[j] = a
      BY <1>3, <2>3
    <3> QED  BY <3>1, <1>c
  <2>4. CASE i \notin 1..l /\ j \in 1..l
    BY <1>1, <2>4
  <2> QED  BY <2>1, <2>2, <2>3, <2>4
<1>7. \A i \in 1..Len(v) : v[i] < 2 * (c + 1)
  <2> SUFFICES ASSUME NEW i \in 1..Len(v) PROVE v[i] < 2 * (c + 1)
    OBVIOUS
  <2>1. CASE i \in 1..l
    BY <2>1, <1>2, <1>4, <1>c
  <2>2. CASE i \notin 1..l
    <3>1. v[i] = a
      BY <2>2, <1>1, <1>3
    <3> QED  BY <3>1, <1>c
  <2> QED  BY <2>1, <2>2
<1>8. ~Mixed(v)
  BY <1>5, <1>6 DEF Mixed
<1> QED  BY <1>1, <1>7, <1>8 DEF Settled, v

LEMMA EmptySettled == \A c : Settled(<<>>, c) /\ ~Mixed(<<>>)
<1>1. ToSet(<<>>) = {} /\ DOMAIN <<>> = {} /\ Len(<<>>) = 0
  BY DEF ToSet
<1>2. ~Mixed(<<>>)
  BY <1>1 DEF Mixed
<1> QED  BY <1>1, <1>2 DEF Settled

LEMMA MessageInitInv == MessageInit /\ LlmInit => MessageInv
<1> USE StreamAssumption
<1> SUFFICES ASSUME MessageInit, LlmInit PROVE MessageInv
  OBVIOUS
<1>1. "kimi" \in Prefix
  BY DEF Prefix, Handler
<1>2. msg \in MsgState
  BY <1>1 DEF MessageInit, MsgState, MsgPC
<1>3. thread \in [at : {"off", "running", "ended"}, sent : 0..MaxDelta]
  BY DEF MessageInit
<1>4. MessageTypeOK
  BY <1>2, <1>3 DEF MessageInit, MessageTypeOK
<1> QED  BY <1>4, LlmInitInv, EmptySettled DEF MessageInit, MessageInv, PartUnderWay, NoMixing

(* The steps of one part of a message. *)
LEMMA MessageMoves ==
  ASSUME MessageInv, NEW x \in MsgState, msg' = x, msg.pc # "off", x.pc # "off",
         x.kind = msg.kind, x.existing = msg.existing, x.conts = msg.conts,
         LlmInv', thread' \in [at : {"off", "running", "ended"}, sent : 0..MaxDelta],
         queue' \in Seq({"delta", "done", "error"}), shown' \in Seq(Attempts),
         PartUnderWay', NoMixing'
  PROVE  MessageInv'
BY DEF MessageInv, MessageTypeOK

(* What the reader shows of a part. *)
LEMMA Shows ==
  ASSUME MessageInv, NEW a \in {Native, Answer}, NEW t \in Seq(Attempts), OfAttempt(t, a)
  PROVE  msg.existing \o t \in Seq(Attempts) /\ ~Mixed(msg.existing \o t)
<1>1. msg.existing \in Seq(Attempts) /\ msg.conts \in 0..MaxContinuations
  BY DEF MessageInv, MessageTypeOK, MsgState
<1>2. a \in {2 * msg.conts, 2 * msg.conts + 1}
  BY DEF Native, Answer
<1>3. Settled(msg.existing, msg.conts)
  BY DEF MessageInv
<1>4. msg.existing \o t \in Seq(Attempts) /\ Settled(msg.existing \o t, msg.conts + 1)
  BY <1>1, <1>2, <1>3, Joined
<1> QED  BY <1>4 DEF Settled

LEMMA AfterDeltaTyped ==
  ASSUME MessageInv, NEW a \in {Native, Answer}, NEW n \in Int
  PROVE  /\ AfterDelta(a, n) \in Seq(Attempts)
         /\ msg.kind = "member" \/ OfAttempt(msg.local, a) => OfAttempt(AfterDelta(a, n), a)
<1>1. a \in Attempts
  BY AttemptsTyped DEF MessageInv
<1>2. msg.local \in Seq(Attempts)
  BY DEF MessageInv, MessageTypeOK, MsgState
<1>3. CASE msg.kind = "member"
  BY <1>1, <1>3, CopiesOf DEF AfterDelta
<1>4. CASE msg.kind # "member"
  BY <1>1, <1>2, <1>4 DEF AfterDelta, OfAttempt
<1> QED  BY <1>3, <1>4

LEMMA FinalTextTyped ==
  ASSUME MessageInv, NEW a \in {Native, Answer}, NEW n \in 0..MaxDelta,
         n = 0 => OfAttempt(msg.local, Native)
  PROVE  /\ FinalText(a, n) \in Seq(Attempts)
         /\ OfAttempt(FinalText(a, n), Native) \/ OfAttempt(FinalText(a, n), Answer)
<1>1. a \in Attempts
  BY AttemptsTyped DEF MessageInv
<1>2. msg.local \in Seq(Attempts) /\ n \in Int
  BY StreamAssumption DEF MessageInv, MessageTypeOK, MsgState
<1>3. CASE n > 0
  BY <1>1, <1>2, <1>3, CopiesOf DEF FinalText
<1>4. CASE n = 0
  BY <1>2, <1>4 DEF FinalText
<1> QED  BY <1>3, <1>4, StreamAssumption

LEMMA WorkerStep ==
  ASSUME MessageInv, WorkerSends \/ WorkerEnds
  PROVE  MessageInv'
<1> USE StreamAssumption
<1>1. UNCHANGED <<msg, shown, llmVars>>
  BY DEF WorkerSends, WorkerEnds
<1>2. LlmInv'
  BY <1>1, LlmStays DEF MessageInv
<1>3. thread' \in [at : {"off", "running", "ended"}, sent : 0..MaxDelta]
  <2>1. CASE WorkerSends
    <3>1. thread.sent + 1 \in 0..MaxDelta
      BY <2>1 DEF WorkerSends, MessageInv, MessageTypeOK
    <3> QED  BY <2>1, <3>1 DEF WorkerSends, MessageInv, MessageTypeOK
  <2>2. CASE WorkerEnds
    BY <2>2 DEF WorkerEnds, MessageInv, MessageTypeOK
  <2> QED  BY <2>1, <2>2
<1>4. queue' \in Seq({"delta", "done", "error"})
  <2>1. queue \in Seq({"delta", "done", "error"})
    BY DEF MessageInv, MessageTypeOK
  <2>2. PICK e \in {"delta", "done", "error"} : queue' = Append(queue, e)
    BY DEF WorkerSends, WorkerEnds
  <2> QED  BY <2>1, <2>2
<1> QED
  BY <1>1, <1>2, <1>3, <1>4
     DEF MessageInv, MessageTypeOK, PartUnderWay, NoMixing, Native, Answer, Mixed

LEMMA StartsStep ==
  ASSUME MessageInv, MessageStarts
  PROVE  MessageInv'
<1> USE StreamAssumption
<1>1. PICK k \in {"member", "brief"}, p \in Speaker :
        msg' = [msg EXCEPT !.pc = "open", !.kind = k, !.model = p]
  BY DEF MessageStarts
<1>2. UNCHANGED <<thread, queue, shown, llmVars>> /\ msg.pc = "off"
  BY DEF MessageStarts
<1>3. msg \in MsgState
  BY DEF MessageInv, MessageTypeOK
<1>4. msg' \in MsgState /\ msg'.pc = "open" /\ msg'.conts = msg.conts
      /\ msg'.existing = <<>> /\ msg'.local = <<>>
  BY <1>1, <1>2, <1>3 DEF MsgState, MsgPC, MessageInv
<1>5. LlmInv'
  BY <1>2, LlmStays DEF MessageInv
<1>6. NoMixing'
  BY <1>2, EmptySettled DEF NoMixing, MessageInv
<1>7. PartUnderWay'
  BY <1>4 DEF PartUnderWay
<1>8. Settled(msg'.existing, msg'.conts)
  BY <1>4, EmptySettled
<1> QED  BY <1>2, <1>4, <1>5, <1>6, <1>7, <1>8 DEF MessageInv, MessageTypeOK

LEMMA OpensStep ==
  ASSUME MessageInv, MessageOpens
  PROVE  MessageInv'
<1> USE StreamAssumption
<1>1. msg \in MsgState /\ msg.pc = "open" /\ msg.local = <<>> /\ UNCHANGED <<queue, shown>>
  BY DEF MessageOpens, MessageInv, MessageTypeOK, PartUnderWay
<1>2. PICK pc \in {"native", "answer"} :
        /\ msg' = [msg EXCEPT !.pc = pc]
        /\ \/ thread' = [at |-> "running", sent |-> 0] /\ UNCHANGED llmVars
           \/ LlmCall(msg.model, FALSE) /\ UNCHANGED thread
  BY DEF MessageOpens
<1> DEFINE x == [msg EXCEPT !.pc = pc]
<1>3. x \in MsgState /\ x.pc = pc /\ x.kind = msg.kind /\ x.existing = msg.existing
      /\ x.conts = msg.conts /\ x.local = <<>>
  BY <1>1 DEF MsgState, MsgPC
<1>4. LlmInv'
  <2>1. LlmInv /\ msg.model \in Prefix
    BY <1>1 DEF MessageInv, MsgState
  <2> QED  BY <2>1, <1>2, LlmStays, LlmCallInv
<1>5. thread' \in [at : {"off", "running", "ended"}, sent : 0..MaxDelta]
  <2>1. [at |-> "running", sent |-> 0] \in [at : {"off", "running", "ended"}, sent : 0..MaxDelta]
    OBVIOUS
  <2> QED  BY <2>1, <1>2 DEF MessageInv, MessageTypeOK
<1> HIDE DEF x
<1>6. PartUnderWay'
  BY <1>2, <1>3 DEF PartUnderWay, OfAttempt, x
<1>7. NoMixing'
  BY <1>1, <1>2, <1>3 DEF NoMixing, MessageInv, Mixed, x
<1>8. queue' \in Seq({"delta", "done", "error"}) /\ shown' \in Seq(Attempts)
  BY <1>1 DEF MessageInv, MessageTypeOK
<1> QED  BY <1>1, <1>2, <1>3, <1>4, <1>5, <1>6, <1>7, <1>8, MessageMoves DEF x

(* A delta of the native stream. *)
LEMMA NativeDeltaStep ==
  ASSUME MessageInv, NativeDelta
  PROVE  MessageInv'
<1> USE StreamAssumption
<1> DEFINE n == thread.sent - Cardinality({k \in 2..Len(queue) : queue[k] = "delta"})
           text == AfterDelta(Native, n)
           x == [msg EXCEPT !.local = text]
<1>1. /\ msg.pc = "native" /\ msg' = x /\ shown' = msg.existing \o text
      /\ queue # <<>> /\ queue' = Tail(queue) /\ UNCHANGED <<thread, llmVars>>
  BY DEF NativeDelta
<1>2. n \in Int
  <2>1. IsFiniteSet({k \in 2..Len(queue) : queue[k] = "delta"})
    <3>1. Len(queue) \in Nat
      BY DEF MessageInv, MessageTypeOK
    <3>2. IsFiniteSet(2..Len(queue))
      BY <3>1, FS_Interval
    <3> QED  BY <3>2, FS_Subset
  <2> QED  BY <2>1, FS_CardinalityType DEF MessageInv, MessageTypeOK
<1> HIDE DEF n
<1>3. text \in Seq(Attempts) /\ OfAttempt(text, Native)
  BY <1>1, <1>2, AfterDeltaTyped DEF MessageInv, PartUnderWay
<1> HIDE DEF text
<1>4. msg \in MsgState
  BY DEF MessageInv, MessageTypeOK
<1>5. x \in MsgState /\ x.pc = "native" /\ x.kind = msg.kind /\ x.existing = msg.existing
      /\ x.conts = msg.conts /\ x.local = text
  BY <1>1, <1>3, <1>4 DEF MsgState, MsgPC
<1>6. LlmInv'
  BY <1>1, LlmStays DEF MessageInv
<1>7. msg.existing \o text \in Seq(Attempts) /\ ~Mixed(msg.existing \o text)
  BY <1>3, Shows
<1> HIDE DEF x
<1>8. Native' = Native
  BY <1>1, <1>5 DEF Native
<1>9. PartUnderWay'
  BY <1>1, <1>3, <1>5, <1>8 DEF PartUnderWay
<1>10. NoMixing'
  BY <1>1, <1>7 DEF NoMixing, Mixed
<1>11. queue' \in Seq({"delta", "done", "error"})
       /\ thread' \in [at : {"off", "running", "ended"}, sent : 0..MaxDelta]
  BY <1>1 DEF MessageInv, MessageTypeOK
<1> QED  BY <1>1, <1>5, <1>6, <1>7, <1>9, <1>10, <1>11, MessageMoves

(* The native stream is over: with its text, or the request is repeated. *)
LEMMA NativeEndStep ==
  ASSUME MessageInv, NativeDone \/ NativeFails
  PROVE  MessageInv'
<1> USE StreamAssumption
<1>1. /\ msg.pc = "native" /\ queue # <<>> /\ queue' = Tail(queue) /\ UNCHANGED <<thread, shown>>
      /\ msg \in MsgState /\ thread.sent \in 0..MaxDelta /\ OfAttempt(msg.local, Native)
  BY DEF NativeDone, NativeFails, MessageInv, MessageTypeOK, PartUnderWay
<1>2. /\ queue' \in Seq({"delta", "done", "error"}) /\ shown' \in Seq(Attempts)
      /\ thread' \in [at : {"off", "running", "ended"}, sent : 0..MaxDelta]
  BY <1>1 DEF MessageInv, MessageTypeOK
<1>3. CASE NativeDone
  <2> DEFINE text == FinalText(Native, thread.sent)
  <2>1. PICK cut \in BOOLEAN : msg' = [msg EXCEPT !.pc = "ended", !.cut = cut, !.local = text]
    BY <1>3 DEF NativeDone
  <2> DEFINE x == [msg EXCEPT !.pc = "ended", !.cut = cut, !.local = text]
  <2>2. text \in Seq(Attempts) /\ (OfAttempt(text, Native) \/ OfAttempt(text, Answer))
    BY <1>1, FinalTextTyped
  <2> HIDE DEF text
  <2>3. x \in MsgState /\ x.pc = "ended" /\ x.kind = msg.kind /\ x.existing = msg.existing
        /\ x.conts = msg.conts /\ x.local = text
    BY <1>1, <2>2 DEF MsgState, MsgPC
  <2>4. LlmInv'
    BY <1>3, LlmStays DEF MessageInv, NativeDone
  <2> HIDE DEF x
  <2>5. msg' = x
    BY <2>1 DEF x
  <2>6. Native' = Native /\ Answer' = Answer
    BY <2>3, <2>5 DEF Native, Answer
  <2>7. PartUnderWay'
    BY <2>2, <2>3, <2>5, <2>6 DEF PartUnderWay
  <2>8. NoMixing'
    BY <1>1, <2>3, <2>5 DEF NoMixing, MessageInv, Mixed
  <2> QED  BY <1>1, <1>2, <2>3, <2>4, <2>5, <2>7, <2>8, MessageMoves
<1>4. CASE NativeFails
  <2> DEFINE x == [msg EXCEPT !.pc = "answer"]
  <2>1. msg' = x /\ LlmCall(msg.model, FALSE)
    BY <1>4 DEF NativeFails
  <2>2. x \in MsgState /\ x.pc = "answer" /\ x.kind = msg.kind /\ x.existing = msg.existing
        /\ x.conts = msg.conts /\ x.local = msg.local
    BY <1>1 DEF MsgState, MsgPC
  <2>3. LlmInv'
    <3>1. LlmInv /\ msg.model \in Prefix
      BY <1>1 DEF MessageInv, MsgState
    <3> QED  BY <3>1, <2>1, LlmCallInv
  <2> HIDE DEF x
  <2>4. Native' = Native
    BY <2>1, <2>2 DEF Native
  <2>5. PartUnderWay'
    BY <1>1, <2>1, <2>2, <2>4 DEF PartUnderWay
  <2>6. NoMixing'
    BY <1>1, <2>1, <2>2 DEF NoMixing, MessageInv, Mixed
  <2> QED  BY <1>1, <1>2, <2>1, <2>2, <2>3, <2>5, <2>6, MessageMoves
<1> QED  BY <1>3, <1>4

LEMMA AnswerStep ==
  ASSUME MessageInv, StreamLlmWorks \/ AnswerArrives \/ AnswerRaises
  PROVE  MessageInv'
<1> USE StreamAssumption
<1>1. /\ msg.pc = "answer" /\ UNCHANGED <<thread, queue, shown>>
      /\ msg \in MsgState /\ OfAttempt(msg.local, Native)
  BY DEF StreamLlmWorks, AnswerArrives, AnswerRaises, MessageInv, MessageTypeOK, PartUnderWay,
         streamVars
<1>2. /\ queue' \in Seq({"delta", "done", "error"}) /\ shown' \in Seq(Attempts)
      /\ thread' \in [at : {"off", "running", "ended"}, sent : 0..MaxDelta]
  BY <1>1 DEF MessageInv, MessageTypeOK
<1>3. LlmInv'
  BY LlmStepInv, LlmStays DEF StreamLlmWorks, AnswerArrives, AnswerRaises, MessageInv
<1>4. PICK x \in MsgState :
        /\ msg' = x /\ x.kind = msg.kind /\ x.existing = msg.existing /\ x.conts = msg.conts
        /\ x.local = msg.local /\ x.pc \in {"answer", "simulated", "failed"}
        /\ x.pc = "simulated" => x.left = x.size
  <2>1. CASE StreamLlmWorks
    BY <1>1, <2>1 DEF StreamLlmWorks, streamVars
  <2>2. CASE AnswerArrives
    <3>1. PICK n \in 0..MaxDelta :
            msg' = [msg EXCEPT !.pc = "simulated", !.left = n, !.size = n]
      BY <2>2 DEF AnswerArrives
    <3>2. [msg EXCEPT !.pc = "simulated", !.left = n, !.size = n] \in MsgState
      BY <1>1 DEF MsgState, MsgPC
    <3> QED  BY <1>1, <3>1, <3>2 DEF MsgState
  <2>3. CASE AnswerRaises
    <3>1. msg' = [msg EXCEPT !.pc = "failed"]
      BY <2>3 DEF AnswerRaises
    <3>2. [msg EXCEPT !.pc = "failed"] \in MsgState
      BY <1>1 DEF MsgState, MsgPC
    <3> QED  BY <1>1, <3>1, <3>2 DEF MsgState
  <2> QED  BY <2>1, <2>2, <2>3
<1>5. Native' = Native
  BY <1>4 DEF Native
<1>6. PartUnderWay'
  BY <1>1, <1>4, <1>5 DEF PartUnderWay, MsgState
<1>7. NoMixing'
  BY <1>1, <1>4 DEF NoMixing, MessageInv, Mixed
<1> QED  BY <1>1, <1>2, <1>3, <1>4, <1>6, <1>7, MessageMoves

(* The answer that replaces a stream, delta by delta and at its end. *)
LEMMA SimulatedStep ==
  ASSUME MessageInv, SimulatedDelta \/ SimulatedDone
  PROVE  MessageInv'
<1> USE StreamAssumption
<1>1. /\ msg.pc = "simulated" /\ UNCHANGED <<thread, queue, llmVars>>
      /\ msg \in MsgState /\ msg.left <= msg.size
      /\ msg.left = msg.size => OfAttempt(msg.local, Native)
      /\ msg.left \in 0..MaxDelta /\ msg.size \in 0..MaxDelta
  BY DEF SimulatedDelta, SimulatedDone, MessageInv, MessageTypeOK, PartUnderWay, MsgState
<1>2. /\ queue' \in Seq({"delta", "done", "error"}) /\ LlmInv'
      /\ thread' \in [at : {"off", "running", "ended"}, sent : 0..MaxDelta]
  BY <1>1, LlmStays DEF MessageInv, MessageTypeOK
<1>3. CASE SimulatedDelta
  <2> DEFINE text == AfterDelta(Answer, msg.size - msg.left + 1)
             x == [msg EXCEPT !.left = @ - 1, !.local = text]
  <2>1. msg.left > 0 /\ msg' = x /\ shown' = msg.existing \o text
    BY <1>3 DEF SimulatedDelta
  <2>2. msg.size - msg.left + 1 \in Int
    BY <1>1
  <2>3. text \in Seq(Attempts) /\ (msg.kind = "member" => OfAttempt(text, Answer))
    BY <2>2, AfterDeltaTyped
  <2> HIDE DEF text
  <2>4. msg.left - 1 \in 0..MaxDelta
    BY <1>1, <2>1
  <2>5. x \in MsgState /\ x.pc = "simulated" /\ x.kind = msg.kind /\ x.existing = msg.existing
        /\ x.conts = msg.conts /\ x.local = text /\ x.left = msg.left - 1 /\ x.size = msg.size
    BY <1>1, <2>3, <2>4 DEF MsgState, MsgPC
  <2> HIDE DEF x
  <2>6. msg.existing \in Seq(Attempts)
    BY <1>1 DEF MsgState
  <2>7. shown' \in Seq(Attempts)
    BY <2>1, <2>3, <2>6
  <2>8. NoMixing'
    <3>1. CASE msg.kind = "member"
      BY <3>1, <2>1, <2>3, Shows DEF NoMixing, Mixed
    <3>2. CASE msg.kind # "member"
      BY <3>2, <2>1, <2>5 DEF NoMixing
    <3> QED  BY <3>1, <3>2
  <2>9. PartUnderWay'
    BY <1>1, <2>1, <2>5 DEF PartUnderWay
  <2> QED  BY <1>1, <1>2, <2>1, <2>5, <2>7, <2>8, <2>9, MessageMoves
<1>4. CASE SimulatedDone
  <2> DEFINE text == FinalText(Answer, msg.size)
  <2>1. PICK cut \in BOOLEAN : msg' = [msg EXCEPT !.pc = "ended", !.cut = cut, !.local = text]
    BY <1>4 DEF SimulatedDone
  <2> DEFINE x == [msg EXCEPT !.pc = "ended", !.cut = cut, !.local = text]
  <2>2. msg.left = 0 /\ shown' = shown
    BY <1>4 DEF SimulatedDone
  <2>3. text \in Seq(Attempts) /\ (OfAttempt(text, Native) \/ OfAttempt(text, Answer))
    BY <1>1, <2>2, FinalTextTyped
  <2> HIDE DEF text
  <2>4. x \in MsgState /\ x.pc = "ended" /\ x.kind = msg.kind /\ x.existing = msg.existing
        /\ x.conts = msg.conts /\ x.local = text
    BY <1>1, <2>3 DEF MsgState, MsgPC
  <2> HIDE DEF x
  <2>5. msg' = x
    BY <2>1 DEF x
  <2>6. Native' = Native /\ Answer' = Answer
    BY <2>4, <2>5 DEF Native, Answer
  <2>7. PartUnderWay'
    BY <2>3, <2>4, <2>5, <2>6 DEF PartUnderWay
  <2>8. NoMixing' /\ shown' \in Seq(Attempts)
    BY <1>1, <2>2, <2>4, <2>5 DEF NoMixing, MessageInv, MessageTypeOK, Mixed
  <2> QED  BY <1>1, <1>2, <2>4, <2>5, <2>7, <2>8, MessageMoves
<1> QED  BY <1>3, <1>4

(* A part is over: another one is asked for, or the message is shown. *)
LEMMA PartEndStep ==
  ASSUME MessageInv, MessageContinues \/ MessageDone
  PROVE  MessageInv'
<1> USE StreamAssumption
<1>1. /\ msg.pc = "ended" /\ UNCHANGED <<thread, queue, llmVars>>
      /\ msg \in MsgState /\ (OfAttempt(msg.local, Native) \/ OfAttempt(msg.local, Answer))
  BY DEF MessageContinues, MessageDone, MessageInv, MessageTypeOK, PartUnderWay
<1>2. /\ queue' \in Seq({"delta", "done", "error"}) /\ LlmInv'
      /\ thread' \in [at : {"off", "running", "ended"}, sent : 0..MaxDelta]
  BY <1>1, LlmStays DEF MessageInv, MessageTypeOK
<1>3. /\ msg.local \in Seq(Attempts) /\ msg.existing \in Seq(Attempts)
      /\ msg.conts \in 0..MaxContinuations
  BY <1>1 DEF MsgState
<1>4. /\ msg.existing \o msg.local \in Seq(Attempts)
      /\ Settled(msg.existing \o msg.local, msg.conts + 1)
  <2>1. PICK a \in {2 * msg.conts, 2 * msg.conts + 1} : OfAttempt(msg.local, a)
    BY <1>1 DEF Native, Answer
  <2>2. Settled(msg.existing, msg.conts)
    BY DEF MessageInv
  <2> QED  BY <1>3, <2>1, <2>2, Joined
<1> DEFINE whole == msg.existing \o msg.local
<1> HIDE DEF whole
<1>w. whole \in Seq(Attempts) /\ Settled(whole, msg.conts + 1)
  BY <1>4 DEF whole
<1>5. CASE MessageContinues
  <2> DEFINE x == [msg EXCEPT !.pc = "open", !.conts = @ + 1, !.existing = whole, !.local = <<>>]
  <2>1. msg' = x /\ shown' = shown /\ msg.kind = "member" /\ msg.conts < MaxContinuations
    BY <1>5 DEF MessageContinues, _needs_stream_continuation, whole
  <2>2. msg.conts + 1 \in 0..MaxContinuations
    BY <1>3, <2>1
  <2>3. x \in MsgState /\ x.pc = "open" /\ x.kind = "member" /\ x.existing = whole
        /\ x.conts = msg.conts + 1 /\ x.local = <<>>
    <3>1. <<>> \in Seq(Attempts) /\ "open" \in MsgPC
      BY DEF MsgPC
    <3> QED  BY <1>1, <1>w, <2>1, <2>2, <3>1 DEF MsgState
  <2> HIDE DEF x
  <2>4. MessageTypeOK'
    BY <1>2, <2>1, <2>3 DEF MessageInv, MessageTypeOK
  <2>5. Settled(msg'.existing, msg'.conts)
    BY <1>w, <2>1, <2>3
  <2>6. PartUnderWay'
    BY <2>1, <2>3 DEF PartUnderWay
  <2>7. NoMixing'
    BY <2>1 DEF NoMixing, MessageInv, Mixed
  <2> QED  BY <1>2, <2>1, <2>3, <2>4, <2>5, <2>6, <2>7 DEF MessageInv
<1>6. CASE MessageDone
  <2> DEFINE x == [msg EXCEPT !.pc = "done"]
  <2>1. msg' = x /\ shown' = whole
    BY <1>6 DEF MessageDone, whole
  <2>2. x \in MsgState /\ x.pc = "done" /\ x.kind = msg.kind /\ x.existing = msg.existing
        /\ x.conts = msg.conts
    BY <1>1 DEF MsgState, MsgPC
  <2> HIDE DEF x
  <2>3. PartUnderWay'
    BY <2>1, <2>2 DEF PartUnderWay
  <2>4. NoMixing'
    BY <1>w, <2>1 DEF NoMixing, Settled, Mixed
  <2> QED  BY <1>1, <1>2, <1>w, <2>1, <2>2, <2>3, <2>4, MessageMoves
<1> QED  BY <1>5, <1>6

LEMMA MessageInvStep ==
  ASSUME MessageInv, MessageStep \/ WorkerSends
  PROVE  MessageInv'
BY WorkerStep, StartsStep, OpensStep, NativeDeltaStep, NativeEndStep, AnswerStep, SimulatedStep,
   PartEndStep DEF MessageStep

LEMMA MessageStays ==
  ASSUME MessageInv, LlmInv', UNCHANGED streamVars
  PROVE  MessageInv'
BY DEF streamVars, MessageInv, MessageTypeOK, PartUnderWay, NoMixing, Native, Answer, Mixed

-----------------------------------------------------------------------------
(* The turn.                                                               *)

(* The results of the tools are typed, and one that a record will call     *)
(* SUPPORTED has its sources.                                              *)
LEMMA PlainResults ==
  /\ Plain \in Result /\ Backed(Plain) /\ Failed \in Result /\ Backed(Failed)
BY DEF Plain, Failed, Result, Verdict, Backed, _make_tool_call_record, _parse_tool_verdict

(* Without a verdict in the summary, SUPPORTED can only be the claim's own. *)
LEMMA UnverifiedResults ==
  ASSUME NEW r \in {Plain, Failed}, NEW quoted \in SUBSET Verdict
  PROVE  LET u == [r EXCEPT !.text = quoted \cup {"UNVERIFIED"}, !.quoted = quoted]
         IN u \in Result /\ Backed(u)
<1> DEFINE u == [r EXCEPT !.text = quoted \cup {"UNVERIFIED"}, !.quoted = quoted]
<1>1. r \in Result /\ r.summary = "none"
  <2>1. r \in Result
    BY PlainResults
  <2>2. r.summary = "none"
    BY DEF Plain, Failed
  <2> QED  BY <2>1, <2>2
<1>2. u \in Result /\ u.summary = "none" /\ u.quoted = quoted
      /\ u.text = quoted \cup {"UNVERIFIED"}
  BY <1>1 DEF Result, Verdict
<1> HIDE DEF u
<1>3. _make_tool_call_record(u) = "SUPPORTED" => "SUPPORTED" \in u.text
  BY <1>2 DEF _make_tool_call_record, _parse_tool_verdict
<1>4. Backed(u)
  BY <1>2, <1>3 DEF Backed
<1> QED  BY <1>2, <1>4 DEF u

LEMMA JudgedResults ==
  ASSUME NEW tiers, NEW judge \in Verdict \cup {"fails"}, NEW quoted \in SUBSET Verdict
  PROVE  _handle_validate_claim(tiers, judge, quoted) \in Result
         /\ Backed(_handle_validate_claim(tiers, judge, quoted))
<1> DEFINE ok == passes_authority_threshold(top_n(tiers))
           r == [summary |-> IF judge = "SUPPORTED" /\ ~ok THEN "UNVERIFIED" ELSE judge,
                 text |-> quoted \cup {judge}, quoted |-> quoted, error |-> FALSE, backed |-> ok]
<1>1. ok \in BOOLEAN
  BY DEF passes_authority_threshold
<1> HIDE DEF ok
<1>2. CASE tiers = <<>> \/ judge = "fails"
  BY <1>2, UnverifiedResults DEF _handle_validate_claim
<1>3. CASE tiers # <<>> /\ judge # "fails"
  <2>1. _handle_validate_claim(tiers, judge, quoted) = r
    BY <1>3 DEF _handle_validate_claim, ok
  <2>2. r.summary \in Verdict /\ (r.summary = "SUPPORTED" => r.backed) /\ r.text \in SUBSET Verdict
    BY <1>1, <1>3 DEF Verdict
  <2>3. r \in Result
    BY <1>1, <2>2 DEF Result
  <2>4. _make_tool_call_record(r) = r.summary
    BY <2>2 DEF _make_tool_call_record, Verdict
  <2> QED  BY <2>1, <2>2, <2>3, <2>4 DEF Backed
<1> QED  BY <1>2, <1>3

LEMMA ToolResults ==
  ASSUME NEW name, NEW r \in execute_tool(name)
  PROVE  r \in Result /\ Backed(r)
<1>1. CASE \E s \in Sources, j \in Verdict \cup {"fails"}, q \in Quoted :
             r = _handle_validate_claim(s, j, q)
  BY <1>1, JudgedResults, TurnAssumption
<1>2. CASE r \in {Plain, Failed}
  BY <1>2, PlainResults
<1>3. \/ \E s \in Sources, j \in Verdict \cup {"fails"}, q \in Quoted :
           r = _handle_validate_claim(s, j, q)
      \/ r \in {Plain, Failed}
  BY DEF execute_tool, _open_browser_via_playwright, _handle_fetch_url, _handle_web_search,
         _handle_ask_user
<1> QED  BY <1>1, <1>2, <1>3

LEMMA BudgetTyped ==
  ASSUME NEW m \in Mode
  PROVE  /\ for_mode(m).calls \in 0..8 /\ for_mode(m).open_browser \in 0..3
         /\ for_mode(m).web_search \in Nat /\ for_mode(m).fetch_url \in Nat
         /\ for_mode(m).ask \in Nat /\ MAX_ITERS(m) = 12
<1>1. m = "fast" \/ m = "standard" \/ m = "deep"
  BY TurnAssumption
<1> QED  BY <1>1 DEF for_mode, MAX_ITERS

LEMMA BudgetNat ==
  ASSUME NEW m \in Mode
  PROVE  for_mode(m).calls \in Nat /\ for_mode(m).open_browser \in Nat
<1>1. for_mode(m).calls \in 0..8 /\ for_mode(m).open_browser \in 0..3
  BY BudgetTyped
<1> QED  BY <1>1

(* Batches of one size, added up. *)
LEMMA Laps ==
  ASSUME NEW a \in Nat, NEW b \in Nat
  PROVE  /\ a * b \in Nat /\ (a + 1) * b \in Nat /\ (a + 1) * b = a * b + b
         /\ 0 * b = 0 /\ (a <= 12 => a * b <= 12 * b)
OBVIOUS

-----------------------------------------------------------------------------
(* What is charged for a batch.                                            *)

Units(s) == UNION {{t} \X (1..s[t]) : t \in Tool}

LEMMA UnitIn ==
  ASSUME NEW s, NEW u
  PROVE  u \in Units(s) <=> \E t \in Tool : \E j \in 1..s[t] : u = <<t, j>>
BY DEF Units

(* The calls B with their tools k are charged to s. *)
Charges(n, s, B, k) == n = [t \in Tool |-> s[t] + Cardinality({i \in B : k[i] = t})]
ToolCalls(B, k) == {i \in B : k[i] \in Tool}

(* No unit is new that is not of a call to a tool. *)
LEMMA SpentUnits ==
  ASSUME NEW s \in [Tool -> Nat], NEW B, IsFiniteSet(B), NEW k, IsFiniteSet(Units(s)),
         NEW n, Charges(n, s, B, k)
  PROVE  /\ n \in [Tool -> Nat] /\ IsFiniteSet(Units(n)) /\ IsFiniteSet(ToolCalls(B, k))
         /\ Cardinality(Units(n)) <= Cardinality(Units(s)) + Cardinality(ToolCalls(B, k))
<1> DEFINE Of(t) == {i \in B : k[i] = t}
           T == {i \in B : k[i] \in Tool}
           New == Units(n) \ Units(s)
           f == [t \in Tool |-> CHOOSE g : g \in Bijection(1..Cardinality(Of(t)), Of(t))]
           h == [u \in New |-> f[u[1]][u[2] - s[u[1]]]]
<1>0. n = [t \in Tool |-> s[t] + Cardinality(Of(t))] /\ ToolCalls(B, k) = T
  BY DEF Charges, ToolCalls
<1>1. \A t : IsFiniteSet(Of(t)) /\ Cardinality(Of(t)) \in Nat
  BY FS_Subset, FS_CardinalityType
<1>2. n \in [Tool -> Nat] /\ \A t \in Tool : n[t] = s[t] + Cardinality(Of(t))
  <2>1. \A t \in Tool : n[t] = s[t] + Cardinality(Of(t))
    BY <1>0
  <2> HIDE DEF Of
  <2>2. ASSUME NEW t \in Tool
        PROVE  s[t] + Cardinality(Of(t)) \in Nat
    <3>1. s[t] \in Nat /\ Cardinality(Of(t)) \in Nat
      BY <1>1
    <3> QED  BY <3>1
  <2>3. n = [t \in Tool |-> n[t]]
    BY <1>0
  <2> QED  BY <2>1, <2>2, <2>3
<1>3. IsFiniteSet(T)
  BY FS_Subset
<1>4. \A t \in Tool : f[t] \in Bijection(1..Cardinality(Of(t)), Of(t))
  <2> SUFFICES ASSUME NEW t \in Tool
               PROVE  \E g : g \in Bijection(1..Cardinality(Of(t)), Of(t))
    OBVIOUS
  <2> QED  BY <1>1, FS_CardinalityType DEF ExistsBijection
<1>5. ASSUME NEW u \in New
      PROVE  /\ u[1] \in Tool /\ u[2] \in Nat /\ u = <<u[1], u[2]>>
             /\ u[2] - s[u[1]] \in 1..Cardinality(Of(u[1]))
  <2>1. PICK t \in Tool : \E j \in 1..n[t] : u = <<t, j>>
    BY <1>5, UnitIn
  <2>2. PICK j \in 1..n[t] : u = <<t, j>>
    BY <2>1
  <2>3. j \notin 1..s[t]
    BY <1>5, <2>2, UnitIn
  <2>4. s[t] \in Nat /\ Cardinality(Of(t)) \in Nat /\ n[t] = s[t] + Cardinality(Of(t)) /\ j \in Nat
    <3>1. t \in Tool
      BY <2>1
    <3>2. n[t] \in Nat
      BY <3>1, <1>2
    <3>3. j \in Nat
      BY <2>2, <3>2
    <3>4. s[t] \in Nat /\ Cardinality(Of(t)) \in Nat
      BY <1>1, <3>1
    <3>5. n[t] = s[t] + Cardinality(Of(t))
      BY <1>2, <3>1
    <3> HIDE DEF Of
    <3> QED  BY <3>3, <3>4, <3>5
  <2>5. j - s[t] \in 1..Cardinality(Of(t))
    BY <2>2, <2>3, <2>4
  <2> QED  BY <2>2, <2>4, <2>5
<1> HIDE DEF f, New
<1>6. ASSUME NEW u \in New
      PROVE  h[u] \in Of(u[1]) /\ h[u] = f[u[1]][u[2] - s[u[1]]]
  BY <1>4, <1>5 DEF Bijection, Injection
<1>7. h \in Injection(New, T)
  <2>1. h \in [New -> T]
    <3>1. \A u \in New : h[u] \in T
      BY <1>5, <1>6
    <3> QED  BY <3>1
  <2>2. ASSUME NEW u \in New, NEW v \in New, h[u] = h[v] PROVE u = v
    <3>1. u[1] = v[1]
      BY <1>6, <2>2
    <3>2. f[u[1]] \in Injection(1..Cardinality(Of(u[1])), Of(u[1]))
      BY <1>4, <1>5 DEF Bijection
    <3>3. u[2] - s[u[1]] = v[2] - s[u[1]]
      <4> DEFINE g == f[u[1]]
                 a == u[2] - s[u[1]]
                 b == v[2] - s[u[1]]
      <4>1. a \in 1..Cardinality(Of(u[1])) /\ b \in 1..Cardinality(Of(u[1]))
        BY <1>5, <3>1
      <4>2. g[a] = g[b]
        BY <1>6, <2>2, <3>1
      <4>3. g \in Injection(1..Cardinality(Of(u[1])), Of(u[1]))
        BY <3>2
      <4> HIDE DEF g, a, b, Of, h
      <4>4. a = b
        BY <4>1, <4>2, <4>3 DEF Injection, IsInjective
      <4> QED  BY <4>4 DEF a, b
    <3>4. u[2] \in Nat /\ v[2] \in Nat /\ s[u[1]] \in Nat
      BY <1>5
    <3>5. u[2] = v[2]
      BY <3>3, <3>4
    <3> QED  BY <1>5, <3>1, <3>5
  <2> QED  BY <2>1, <2>2 DEF Injection, IsInjective
<1>8. IsFiniteSet(New) /\ Cardinality(New) <= Cardinality(T)
  BY <1>3, <1>7, FS_Injection
<1>9. Units(n) \subseteq Units(s) \cup New
  BY DEF New
<1>10. IsFiniteSet(Units(s) \cup New)
       /\ Cardinality(Units(s) \cup New) <= Cardinality(Units(s)) + Cardinality(New)
  <2>1. IsFiniteSet(Units(s) \cap New)
    BY <1>8, FS_Subset
  <2>2. /\ IsFiniteSet(Units(s) \cup New)
        /\ Cardinality(Units(s) \cup New)
             = Cardinality(Units(s)) + Cardinality(New) - Cardinality(Units(s) \cap New)
    BY <1>8, FS_Union
  <2>3. /\ Cardinality(Units(s) \cap New) \in Nat /\ Cardinality(Units(s)) \in Nat
        /\ Cardinality(New) \in Nat
    BY <1>8, <2>1, FS_CardinalityType
  <2> QED  BY <2>2, <2>3
<1>11. IsFiniteSet(Units(n)) /\ Cardinality(Units(n)) <= Cardinality(Units(s) \cup New)
  BY <1>9, <1>10, FS_Subset
<1>12. /\ Cardinality(Units(n)) \in Nat /\ Cardinality(Units(s)) \in Nat /\ Cardinality(New) \in Nat
       /\ Cardinality(T) \in Nat /\ Cardinality(Units(s) \cup New) \in Nat
  BY <1>3, <1>8, <1>10, <1>11, FS_CardinalityType
<1> QED  BY <1>0, <1>2, <1>3, <1>8, <1>10, <1>11, <1>12

-----------------------------------------------------------------------------
(* The steps of a turn.                                                    *)

LEMMA TurnParts ==
  ASSUME TurnInv
  PROVE  /\ turn \in TurnState /\ calls \in [1..MaxBatch -> Call] /\ LlmInv
         /\ turn.model \in Prefix /\ turn.mode \in Mode
         /\ turn.sub \in [Tool -> Nat] /\ turn.offered \in [Tool -> Nat]
         /\ turn.used \in Nat /\ turn.iter \in Nat /\ turn.final \in BOOLEAN
         /\ Budget.calls \in Nat /\ Budget.open_browser \in Nat
         /\ MAX_ITERS(turn.mode) = 12 /\ turn.iter <= 12
<1>1. turn \in TurnState /\ calls \in [1..MaxBatch -> Call] /\ LlmInv
  BY DEF TurnInv, TurnTypeOK
<1>2. turn.mode \in Mode
  BY <1>1 DEF TurnState
<1>3. Budget.calls \in Nat /\ Budget.open_browser \in Nat /\ MAX_ITERS(turn.mode) = 12
  BY <1>2, BudgetTyped DEF Budget
<1>4. turn.iter <= 12
  BY <1>3 DEF TurnInv, RoundsCharged
<1>5. turn.iter \in Nat
  BY <1>1 DEF TurnState
<1> QED  BY <1>1, <1>2, <1>3, <1>4, <1>5, TurnAssumption DEF TurnState

LEMMA TurnInvMeaning == TurnInv => TurnBounds /\ SupportedIsBacked
<1> USE TurnAssumption
<1> SUFFICES ASSUME TurnInv PROVE TurnBounds /\ SupportedIsBacked
  OBVIOUS
<1>1. turn.used <= MAX_ITERS(turn.mode) * MaxBatch
  <2>1. Rounds \in Nat /\ Rounds <= 12
    BY TurnParts DEF TurnInv, RoundsCharged, Rounds
  <2>2. PICK a \in Nat : a = Rounds
    BY <2>1
  <2>3. a * MaxBatch \in Nat /\ a * MaxBatch <= 12 * MaxBatch
    BY <2>1, <2>2, Laps
  <2>4. turn.used <= a * MaxBatch
    BY <2>2 DEF TurnInv, RoundsCharged
  <2>5. turn.used \in Nat /\ MAX_ITERS(turn.mode) = 12 /\ 12 * MaxBatch \in Nat
    BY TurnParts
  <2> QED  BY <2>3, <2>4, <2>5
<1>2. TurnBounds
  BY <1>1 DEF TurnInv, WithinBudget, ToldInTime, TurnBounds
<1>3. SupportedIsBacked
  BY DEF TurnInv, ResultsBacked, Backed, SupportedIsBacked
<1> QED  BY <1>2, <1>3

LEMMA NoCallTyped == NoCall \in Call /\ NoCall.tool = Unbidden /\ NoCall.at = "none"
BY PlainResults DEF NoCall, Call

LEMMA TurnInitInv == TurnInit /\ LlmInit => TurnInv
<1> USE TurnAssumption
<1> SUFFICES ASSUME TurnInit, LlmInit PROVE TurnInv
  OBVIOUS
<1>1. (CHOOSE p \in Council : TRUE) \in Council /\ (CHOOSE m \in Mode : TRUE) \in Mode
  OBVIOUS
<1>2. [t \in Tool |-> 0] \in [Tool -> Nat] /\ "off" \in TurnPC
  BY DEF TurnPC
<1>3. /\ turn \in TurnState /\ turn.pc = "off" /\ turn.used = 0 /\ turn.iter = 0
      /\ turn.sub = [t \in Tool |-> 0] /\ turn.offered = [t \in Tool |-> 0]
  BY <1>1, <1>2 DEF TurnInit, TurnState
<1>4. calls \in [1..MaxBatch -> Call] /\ \A i \in 1..MaxBatch : calls[i] = NoCall
  BY NoCallTyped DEF TurnInit
<1>5. Granted = {}
  BY <1>3 DEF Granted
<1>6. IsFiniteSet(Granted) /\ Cardinality(Granted) = 0
  BY <1>5, FS_EmptySet
<1>7. Budget.calls \in Nat /\ Budget.open_browser \in Nat /\ MAX_ITERS(turn.mode) = 12
  <2>1. turn.mode \in Mode
    BY <1>3 DEF TurnState
  <2>2. PICK m \in Mode : m = turn.mode
    BY <2>1
  <2>3. for_mode(m).calls \in Nat /\ for_mode(m).open_browser \in Nat /\ MAX_ITERS(m) = 12
    BY BudgetNat, BudgetTyped
  <2> QED  BY <2>2, <2>3 DEF Budget
<1>8. WithinBudget
  BY <1>3, <1>6, <1>7 DEF WithinBudget
<1>9. RoundsCharged
  <2>1. 0 * MaxBatch = 0
    BY Laps
  <2> QED  BY <1>3, <1>7, <2>1 DEF RoundsCharged, Rounds
<1>10. ResultsBacked /\ ToldInTime
  BY <1>3, <1>4, NoCallTyped DEF ResultsBacked, ToldInTime
<1> QED  BY <1>3, <1>4, <1>6, <1>8, <1>9, <1>10, LlmInitInv DEF TurnInv, TurnTypeOK

(* A step that charges nothing. *)
Uncharged ==
  /\ turn'.sub = turn.sub /\ turn'.offered = turn.offered
  /\ turn'.used = turn.used /\ turn'.mode = turn.mode

LEMMA TurnKept ==
  ASSUME TurnInv, Uncharged, turn' \in TurnState, calls' \in [1..MaxBatch -> Call], LlmInv',
         turn'.pc # "off" \/ turn' = turn, RoundsCharged', ToldInTime', ResultsBacked'
  PROVE  TurnInv'
<1>1. Granted' = Granted
  BY DEF Uncharged, Granted
<1>2. WithinBudget'
  BY <1>1 DEF Uncharged, WithinBudget, TurnInv, Budget
<1> QED  BY <1>1, <1>2 DEF TurnInv, TurnTypeOK, Uncharged

(* The rounds go on when a request is answered, and when a turn ends. *)
LEMMA RoundsKept ==
  ASSUME TurnInv, Uncharged, turn'.iter = turn.iter, turn'.pc # "off",
         turn'.pc \in {"asking", "tools"} => turn.pc \in {"asking", "tools"}
  PROVE  RoundsCharged'
<1> USE TurnAssumption
<1>1. turn'.iter <= MAX_ITERS(turn'.mode)
      /\ (turn'.pc \in {"asking", "tools"} => turn'.iter > 0)
  BY DEF TurnInv, RoundsCharged, Uncharged
<1>2. CASE Rounds' = Rounds
  BY <1>1, <1>2 DEF TurnInv, RoundsCharged, Uncharged
<1>3. CASE Rounds' # Rounds
  <2>1. /\ Rounds \in Nat /\ Rounds' = Rounds + 1
    BY <1>3, TurnParts DEF Rounds, TurnInv, RoundsCharged
  <2>2. PICK a \in Nat : a = Rounds
    BY <2>1
  <2>3. a * MaxBatch \in Nat /\ (a + 1) * MaxBatch = a * MaxBatch + MaxBatch
    BY Laps
  <2>4. turn.used <= a * MaxBatch /\ turn.used \in Nat
    BY <2>2, TurnParts DEF TurnInv, RoundsCharged
  <2>5. turn.used <= (a + 1) * MaxBatch
    BY <2>3, <2>4
  <2> QED  BY <1>1, <2>1, <2>2, <2>5 DEF RoundsCharged, Uncharged
<1> QED  BY <1>2, <1>3

LEMMA TurnStartsStep ==
  ASSUME TurnInv, TurnStarts
  PROVE  TurnInv'
<1> USE TurnAssumption
<1>1. PICK p \in Council, m \in Mode :
        turn' = [turn EXCEPT !.pc = "ready", !.model = p, !.mode = m]
  BY DEF TurnStarts
<1>2. /\ UNCHANGED <<calls, llmVars>> /\ turn.used = 0 /\ turn.iter = 0
      /\ \A t \in Tool : turn.offered[t] = 0
  BY DEF TurnStarts, TurnInv
<1>3. /\ turn' \in TurnState /\ turn'.pc = "ready" /\ turn'.used = 0 /\ turn'.iter = 0
      /\ turn'.sub = turn.sub /\ turn'.offered = turn.offered
  BY <1>1, <1>2, TurnParts DEF TurnState, TurnPC
<1>4. Granted' = Granted /\ IsFiniteSet(Granted) /\ Cardinality(Granted) <= 0
  BY <1>2, <1>3 DEF Granted, TurnInv
<1>5. for_mode(turn'.mode).calls \in Nat /\ for_mode(turn'.mode).open_browser \in Nat
      /\ MAX_ITERS(turn'.mode) = 12
  <2>1. turn'.mode \in Mode
    BY <1>3 DEF TurnState
  <2>2. PICK k \in Mode : k = turn'.mode
    BY <2>1
  <2>3. for_mode(k).calls \in Nat /\ for_mode(k).open_browser \in Nat /\ MAX_ITERS(k) = 12
    BY BudgetNat, BudgetTyped
  <2> QED  BY <2>2, <2>3
<1>6. Cardinality(Granted) \in Nat
  BY <1>4, FS_CardinalityType
<1>7. WithinBudget'
  BY <1>2, <1>3, <1>4, <1>5, <1>6 DEF WithinBudget, Budget
<1>8. LlmInv'
  BY <1>2, TurnParts, LlmStays
<1>9. RoundsCharged'
  <2>1. 0 * MaxBatch = 0
    BY Laps
  <2> QED  BY <1>3, <1>5, <2>1 DEF RoundsCharged, Rounds
<1>10. ToldInTime' /\ ResultsBacked'
  BY <1>2, <1>3 DEF ToldInTime, ResultsBacked, TurnInv
<1> QED  BY <1>2, <1>3, <1>4, <1>7, <1>8, <1>9, <1>10, TurnParts DEF TurnInv, TurnTypeOK

(* The clock, the end of a turn, and the work of query_llm under it. *)
LEMMA TurnEndsStep ==
  ASSUME TurnInv, WallRunsOut \/ TurnAborts \/ TurnRaises \/ TurnCompletes \/ LlmWorks
  PROVE  TurnInv'
<1>1. calls' = calls /\ turn.pc # "off"
  BY DEF WallRunsOut, TurnAborts, TurnRaises, TurnCompletes, LlmWorks, turnVars
<1>2. LlmInv'
  BY TurnParts, LlmStays, LlmStepInv
     DEF WallRunsOut, TurnAborts, TurnRaises, TurnCompletes, LlmWorks
<1>3. turn' \in TurnState /\ Uncharged /\ turn'.final = turn.final /\ turn'.iter = turn.iter
  BY TurnParts
     DEF WallRunsOut, TurnAborts, TurnRaises, TurnCompletes, LlmWorks, turnVars, TurnState, TurnPC,
         Uncharged
<1>4. /\ turn'.pc \in {turn.pc, "aborted", "raised", "complete"}
      /\ turn'.pc = "complete" => turn.pc \in {"asking", "complete"}
  BY TurnParts
     DEF WallRunsOut, TurnAborts, TurnRaises, TurnCompletes, LlmWorks, turnVars, TurnState
<1>5. RoundsCharged'
  BY <1>1, <1>3, <1>4, RoundsKept
<1>6. ToldInTime'
  BY <1>3, <1>4 DEF TurnInv, ToldInTime, Uncharged, Budget
<1>7. ResultsBacked'
  BY <1>1 DEF TurnInv, ResultsBacked, Backed
<1> QED  BY <1>1, <1>2, <1>3, <1>4, <1>5, <1>6, <1>7, TurnParts, TurnKept

LEMMA TurnAsksStep ==
  ASSUME TurnInv, TurnAsks
  PROVE  TurnInv'
<1> USE TurnAssumption
<1>1. /\ turn' = [turn EXCEPT !.pc = "asking", !.iter = @ + 1,
                              !.final = @ \/ (no_more_tools /\ turn.used > 0)]
      /\ LlmCall(turn.model, ~no_more_tools) /\ calls' = [i \in 1..MaxBatch |-> NoCall]
      /\ turn.pc = "ready" /\ turn.iter < MAX_ITERS(turn.mode)
  BY DEF TurnAsks
<1>2. no_more_tools \in BOOLEAN
  BY DEF no_more_tools
<1>n. turn.iter \in Nat /\ MAX_ITERS(turn.mode) = 12 /\ turn.mode \in Mode
  BY TurnParts
<1>i. turn.iter < 12
  BY <1>1, <1>n
<1>3. turn.iter + 1 \in 0..17
  BY <1>n, <1>i
<1>4. /\ turn' \in TurnState /\ Uncharged /\ turn'.pc = "asking" /\ turn'.iter = turn.iter + 1
      /\ turn'.final = (turn.final \/ (no_more_tools /\ turn.used > 0))
  BY <1>1, <1>2, <1>3, TurnParts DEF TurnState, TurnPC, Uncharged
<1>5. LlmInv'
  BY <1>1, <1>2, TurnParts, LlmCallInv
<1>6. ToldInTime'
  BY <1>4 DEF ToldInTime, no_more_tools, Uncharged, Budget
<1>7. RoundsCharged'
  <2>0. turn.pc = "ready"
    BY <1>1
  <2>1. Rounds' = turn.iter /\ Rounds = turn.iter /\ turn'.iter > 0 /\ turn'.iter <= 12
    BY <1>4, <1>n, <1>i, <2>0 DEF Rounds
  <2>2. turn'.used = turn.used /\ turn'.mode = turn.mode
    BY <1>4 DEF Uncharged
  <2> QED  BY <2>1, <2>2, TurnParts DEF TurnInv, RoundsCharged
<1>8. calls' \in [1..MaxBatch -> Call] /\ ResultsBacked'
  BY <1>1, NoCallTyped DEF ResultsBacked
<1> QED  BY <1>1, <1>4, <1>5, <1>6, <1>7, <1>8, TurnKept

(* A batch is queued, of what was offered or of anything else. *)
LEMMA CalledStep ==
  ASSUME TurnInv, NEW batch \in Batches(Tool \cup {Unbidden}), Called(batch),
         turn' \in TurnState, Uncharged, turn'.pc = "tools", turn'.iter = turn.iter
  PROVE  TurnInv'
<1>1. /\ turn.pc = "asking" /\ UNCHANGED llmVars
      /\ calls' = [i \in 1..MaxBatch |-> IF i \in DOMAIN batch
                     THEN [NoCall EXCEPT !.tool = batch[i], !.at = "queued"] ELSE NoCall]
  BY DEF Called
<1>2. \A i \in DOMAIN batch : batch[i] \in Tool \cup {Unbidden}
  BY DEF Batches
<1>3. calls' \in [1..MaxBatch -> Call]
  <2>1. ASSUME NEW t \in Tool \cup {Unbidden}
        PROVE  [NoCall EXCEPT !.tool = t, !.at = "queued"] \in Call
    BY NoCallTyped DEF Call
  <2>2. ASSUME NEW i \in 1..MaxBatch, i \in DOMAIN batch
        PROVE  [NoCall EXCEPT !.tool = batch[i], !.at = "queued"] \in Call
    BY <1>2, <2>1, <2>2
  <2> QED  BY <1>1, <2>2, NoCallTyped
<1>4. \A i \in 1..MaxBatch : calls'[i].at \in {"queued", "none"}
  BY <1>1, NoCallTyped DEF Call
<1>5. ResultsBacked' /\ ToldInTime'
  BY <1>4 DEF ResultsBacked, ToldInTime
<1>6. RoundsCharged'
  BY <1>1, RoundsKept
<1>7. LlmInv'
  BY <1>1, TurnParts, LlmStays
<1> QED  BY <1>3, <1>5, <1>6, <1>7, TurnKept

LEMMA ToolsCalledStep ==
  ASSUME TurnInv, ToolsCalled
  PROVE  TurnInv'
<1>1. PICK batch \in Batches(Offered) : Called(batch)
  BY DEF ToolsCalled
<1>2. batch \in Batches(Tool \cup {Unbidden})
  <2>1. Offered \subseteq Tool \cup {Unbidden}
    BY DEF Offered, _budget_filtered_tools
  <2>2. PICK n \in 1..MaxBatch : batch \in [1..n -> Offered]
    BY DEF Batches
  <2>3. batch \in [1..n -> Tool \cup {Unbidden}]
    BY <2>1, <2>2
  <2> QED  BY <2>3 DEF Batches
<1>3. turn' = [turn EXCEPT !.pc = "tools"]
  BY DEF ToolsCalled
<1>4. turn' \in TurnState /\ Uncharged /\ turn'.pc = "tools" /\ turn'.iter = turn.iter
  BY <1>3, TurnParts DEF TurnState, TurnPC, Uncharged
<1> QED  BY <1>1, <1>2, <1>4, CalledStep

LEMMA ToolsCalledUnaskedStep ==
  ASSUME TurnInv, ToolsCalledUnasked
  PROVE  TurnInv'
<1> USE TurnAssumption
<1>1. CASE /\ turn.unasked < MaxUnasked
           /\ \E batch \in Batches(Tool \cup {Unbidden}) : Called(batch)
           /\ turn' = [turn EXCEPT !.pc = "tools", !.unasked = @ + 1]
  <2>1. turn.unasked + 1 \in 0..MaxUnasked /\ "tools" \in TurnPC
    BY <1>1, TurnParts DEF TurnState, TurnPC
  <2>2. turn' \in TurnState /\ Uncharged /\ turn'.pc = "tools" /\ turn'.iter = turn.iter
    BY <1>1, <2>1, TurnParts DEF TurnState, Uncharged
  <2> QED  BY <1>1, <2>2, CalledStep
<1>2. CASE Called(<<Unbidden>>) /\ turn' = [turn EXCEPT !.pc = "tools"]
  <2>1. <<Unbidden>> \in Batches(Tool \cup {Unbidden})
    <3>1. <<Unbidden>> \in [1..1 -> Tool \cup {Unbidden}] /\ 1 \in 1..MaxBatch
      OBVIOUS
    <3> QED  BY <3>1 DEF Batches
  <2>2. turn' \in TurnState /\ Uncharged /\ turn'.pc = "tools" /\ turn'.iter = turn.iter
    BY <1>2, TurnParts DEF TurnState, TurnPC, Uncharged
  <2> QED  BY <1>2, <2>1, <2>2, CalledStep
<1> QED  BY <1>1, <1>2 DEF ToolsCalledUnasked

LEMMA ToolStep ==
  ASSUME TurnInv, NEW i \in 1..MaxBatch, ToolStarts(i) \/ ToolReturns(i)
  PROVE  TurnInv'
<1>1. UNCHANGED <<turn, llmVars>> /\ turn.pc = "tools"
  BY DEF ToolStarts, ToolReturns
<1>2. calls' \in [1..MaxBatch -> Call] /\ ResultsBacked'
  <2>1. CASE ToolStarts(i)
    <3>1. calls' = [calls EXCEPT ![i].at = "running"]
      BY <2>1 DEF ToolStarts
    <3>2. calls' \in [1..MaxBatch -> Call]
      BY <3>1, TurnParts DEF Call
    <3>3. \A j \in 1..MaxBatch : j # i => calls'[j] = calls[j]
      BY <3>1, TurnParts
    <3>4. calls'[i].at = "running"
      BY <3>1, TurnParts DEF Call
    <3> QED  BY <3>2, <3>3, <3>4 DEF TurnInv, ResultsBacked
  <2>2. CASE ToolReturns(i)
    <3>1. PICK r \in execute_tool(calls[i].tool) :
            calls' = [calls EXCEPT ![i].at = "done", ![i].result = r]
      BY <2>2 DEF ToolReturns
    <3>2. r \in Result /\ Backed(r)
      BY ToolResults
    <3>3. calls' \in [1..MaxBatch -> Call]
      BY <3>1, <3>2, TurnParts DEF Call
    <3>4. \A j \in 1..MaxBatch : j # i => calls'[j] = calls[j]
      BY <3>1, TurnParts
    <3>5. calls'[i].at = "done" /\ calls'[i].result = r
      BY <3>1, TurnParts DEF Call
    <3>6. ResultsBacked'
      <4> SUFFICES ASSUME NEW j \in 1..MaxBatch, calls'[j].at \in {"done", "recorded"}
                   PROVE  Backed(calls'[j].result)
        BY DEF ResultsBacked, Backed
      <4>1. CASE j = i
        BY <4>1, <3>2, <3>5
      <4>2. CASE j # i
        BY <4>2, <3>4 DEF TurnInv, ResultsBacked
      <4> QED  BY <4>1, <4>2
    <3> QED  BY <3>3, <3>6
  <2> QED  BY <2>1, <2>2
<1>3. Uncharged /\ turn' = turn
  BY <1>1 DEF Uncharged
<1>4. ToldInTime'
  BY <1>1 DEF ToldInTime
<1>5. LlmInv'
  BY <1>1, TurnParts, LlmStays
<1>6. RoundsCharged'
  BY <1>1, <1>3, RoundsKept
<1> QED  BY <1>2, <1>3, <1>4, <1>5, <1>6, TurnParts, TurnKept

(* The whole batch is back and is charged. *)
LEMMA BatchRecordedStep ==
  ASSUME TurnInv, BatchRecorded
  PROVE  TurnInv'
<1> USE TurnAssumption
<1> DEFINE b == Cardinality(InBatch)
           f == Cardinality({i \in InBatch : triggers_revision(calls[i].result)})
           sub == [t \in Tool |-> turn.sub[t] + Calling(Tool)[t]]
           n == [t \in Tool |-> turn.offered[t] + Calling(Offered)[t]]
           k == [i \in InBatch |-> calls[i].tool]
           G == {i \in InBatch : k[i] \in Offered}
           T == ToolCalls(G, k)
<1>1. /\ turn' = [turn EXCEPT !.pc = "ready", !.used = spend(@), !.sub = sub, !.offered = n,
                              !.revisions = ForcedRevisions(@, f)]
      /\ calls' = [i \in 1..MaxBatch |-> IF i \in InBatch
                     THEN [calls[i] EXCEPT !.at = "recorded"] ELSE calls[i]]
      /\ UNCHANGED llmVars /\ turn.pc = "tools" /\ \A i \in InBatch : calls[i].at = "done"
  BY DEF BatchRecorded
<1>2. InBatch \subseteq 1..MaxBatch /\ IsFiniteSet(1..MaxBatch) /\ Cardinality(1..MaxBatch) = MaxBatch
  BY FS_Interval DEF InBatch
<1>3. IsFiniteSet(InBatch) /\ b \in Nat /\ b <= MaxBatch
  <2>1. IsFiniteSet(InBatch) /\ Cardinality(InBatch) <= Cardinality(1..MaxBatch)
    BY <1>2, FS_Subset
  <2>2. Cardinality(InBatch) \in Nat
    BY <2>1, FS_CardinalityType
  <2> QED  BY <1>2, <2>1, <2>2
<1>4. f \in Nat
  <2>1. IsFiniteSet({i \in InBatch : triggers_revision(calls[i].result)})
    BY <1>3, FS_Subset
  <2> QED  BY <2>1, FS_CardinalityType
<1>5. turn.sub \in [Tool -> Nat] /\ turn.offered \in [Tool -> Nat] /\ turn.used \in Nat
  BY TurnParts
<1>6. Granted = Units(turn.offered) /\ IsFiniteSet(Granted) /\ Cardinality(Granted) <= turn.used
  BY DEF Granted, Units, TurnInv
<1>k. \A i \in InBatch : k[i] = calls[i].tool
  OBVIOUS
<1>o. \A t \in Offered : t \in Tool /\ can_call(t)
  BY DEF Offered, _budget_filtered_tools
<1>7. n = [t \in Tool |-> turn.offered[t] + Cardinality({i \in G : k[i] = t})]
  <2>1. \A t : {i \in G : k[i] = t} = {i \in InBatch : calls[i].tool = t /\ t \in Offered}
    BY <1>k
  <2> QED  BY <2>1 DEF Calling
<1>s. \A t \in Tool : /\ Calling(Tool)[t] \in Nat /\ Calling(Offered)[t] \in Nat
                      /\ Calling(Offered)[t] <= Calling(Tool)[t]
  <2> SUFFICES ASSUME NEW t \in Tool
               PROVE  /\ Calling(Tool)[t] \in Nat /\ Calling(Offered)[t] \in Nat
                      /\ Calling(Offered)[t] <= Calling(Tool)[t]
    OBVIOUS
  <2> DEFINE A == {i \in InBatch : calls[i].tool = t /\ t \in Tool}
             O == {i \in InBatch : calls[i].tool = t /\ t \in Offered}
  <2>1. IsFiniteSet(A) /\ O \subseteq A
    BY <1>3, FS_Subset
  <2>2. IsFiniteSet(O) /\ Cardinality(O) <= Cardinality(A)
    BY <2>1, FS_Subset
  <2>3. Cardinality(A) \in Nat /\ Cardinality(O) \in Nat
    BY <2>1, <2>2, FS_CardinalityType
  <2>4. Calling(Tool)[t] = Cardinality(A) /\ Calling(Offered)[t] = Cardinality(O)
    BY DEF Calling
  <2> QED  BY <2>2, <2>3, <2>4
<1>c. Charges(n, turn.offered, G, k)
  BY <1>7 DEF Charges
<1>g. IsFiniteSet(G)
  BY <1>3, FS_Subset
<1>u. sub \in [Tool -> Nat] /\ \A t \in Tool : n[t] <= sub[t]
  <2> SUFFICES ASSUME NEW t \in Tool
               PROVE  /\ turn.sub[t] + Calling(Tool)[t] \in Nat
                      /\ turn.offered[t] + Calling(Offered)[t] <= turn.sub[t] + Calling(Tool)[t]
    OBVIOUS
  <2>1. turn.offered[t] \in Nat /\ turn.sub[t] \in Nat /\ turn.offered[t] <= turn.sub[t]
    BY <1>5 DEF TurnInv
  <2> QED  BY <2>1, <1>s
<1> HIDE DEF b, f, n, k, sub, G
<1>8. /\ n \in [Tool -> Nat] /\ IsFiniteSet(Units(n)) /\ IsFiniteSet(T)
      /\ Cardinality(Units(n)) <= Cardinality(Units(turn.offered)) + Cardinality(T)
  BY <1>5, <1>6, <1>c, <1>g, SpentUnits
<1>9. Cardinality(T) <= b /\ Cardinality(T) \in Nat
  <2>1. T \subseteq InBatch
    BY DEF ToolCalls, G
  <2> QED  BY <1>3, <1>8, <2>1, FS_Subset, FS_CardinalityType DEF b
<1>10. ForcedRevisions(turn.revisions, f) \in 0..RevisionCap
  BY <1>4, TurnParts DEF ForcedRevisions, TurnState
<1>11. /\ turn' \in TurnState /\ turn'.pc = "ready" /\ turn'.used = turn.used + b
       /\ turn'.sub = sub /\ turn'.offered = n /\ turn'.mode = turn.mode /\ turn'.iter = turn.iter
  <2>1. spend(turn.used) = turn.used + b /\ turn.used + b \in Nat
    BY <1>3, <1>5 DEF spend, b
  <2> QED  BY <1>1, <1>8, <1>10, <1>u, <2>1, TurnParts DEF TurnState, TurnPC
<1>12. Granted' = Units(n) /\ Budget' = Budget
  BY <1>11 DEF Granted, Units, Budget
<1>13. /\ Cardinality(Granted) \in Nat /\ Cardinality(Units(n)) \in Nat
       /\ Budget.calls \in Nat /\ Budget.open_browser \in Nat
  BY <1>6, <1>8, FS_CardinalityType, TurnParts
<1>14. IsFiniteSet(Granted') /\ Cardinality(Granted') <= turn'.used
  BY <1>3, <1>5, <1>6, <1>8, <1>9, <1>11, <1>12, <1>13
<1>15. Cardinality(Granted') <= Budget.calls + (MaxBatch - 1)
  <2>1. CASE T = {}
    <3>1. Cardinality(T) = 0
      BY <2>1, FS_EmptySet
    <3>2. Cardinality(Granted) <= Budget.calls + (MaxBatch - 1)
      BY DEF TurnInv, WithinBudget
    <3> QED  BY <1>6, <1>8, <1>12, <1>13, <3>1, <3>2
  <2>2. CASE T # {}
    <3>1. PICK i \in InBatch : k[i] \in Offered
      BY <2>2 DEF ToolCalls, G
    <3>2. PICK t \in Offered : t = k[i]
      BY <3>1
    <3>3. turn.used < Budget.calls
      BY <1>o, <3>2 DEF can_call
    <3> QED  BY <1>3, <1>5, <1>6, <1>8, <1>9, <1>12, <1>13, <3>3
  <2> QED  BY <2>1, <2>2
<1>16. ASSUME "open_browser" \in Tool
       PROVE  turn'.offered["open_browser"] <= Budget.open_browser + (MaxBatch - 1)
  <2> DEFINE B == {i \in G : k[i] = "open_browser"}
  <2>1. n["open_browser"] = turn.offered["open_browser"] + Cardinality(B)
    BY <1>7, <1>16
  <2>2. Cardinality(B) \in Nat /\ Cardinality(B) <= b
    <3>1. B \subseteq InBatch
      BY DEF G
    <3> QED  BY <1>3, <3>1, FS_Subset, FS_CardinalityType DEF b
  <2>3. /\ turn.offered["open_browser"] \in Nat /\ turn.sub["open_browser"] \in Nat
        /\ turn.offered["open_browser"] <= turn.sub["open_browser"]
    BY <1>5, <1>16 DEF TurnInv
  <2>4. CASE B = {}
    <3>1. Cardinality(B) = 0
      BY <2>4, FS_EmptySet
    <3>2. turn.offered["open_browser"] <= Budget.open_browser + (MaxBatch - 1)
      BY <1>16 DEF TurnInv, WithinBudget
    <3> QED  BY <1>11, <2>1, <2>3, <3>1, <3>2
  <2>5. CASE B # {}
    <3>1. "open_browser" \in Offered
      BY <2>5 DEF G
    <3>2. turn.sub["open_browser"] < Budget.open_browser
      BY <1>o, <3>1 DEF can_call
    <3> HIDE DEF B
    <3> QED  BY <1>3, <1>11, <1>13, <2>1, <2>2, <2>3, <3>2
  <2> QED  BY <2>4, <2>5
<1>17. WithinBudget'
  BY <1>12, <1>15, <1>16 DEF WithinBudget
<1>18. calls' \in [1..MaxBatch -> Call]
  <2>1. ASSUME NEW i \in 1..MaxBatch PROVE [calls[i] EXCEPT !.at = "recorded"] \in Call
    <3>1. calls[i] \in Call
      BY TurnParts
    <3> QED  BY <3>1 DEF Call
  <2> QED  BY <1>1, <2>1, TurnParts
<1>19. ResultsBacked'
  <2> SUFFICES ASSUME NEW i \in 1..MaxBatch, calls'[i].at \in {"done", "recorded"}
               PROVE  Backed(calls'[i].result)
    BY DEF ResultsBacked, Backed
  <2>1. CASE i \in InBatch
    <3>1. calls'[i].result = calls[i].result /\ calls[i].at = "done"
      BY <1>1, <2>1, TurnParts DEF Call
    <3> QED  BY <3>1 DEF TurnInv, ResultsBacked
  <2>2. CASE i \notin InBatch
    BY <1>1, <2>2 DEF TurnInv, ResultsBacked
  <2> QED  BY <2>1, <2>2
<1>20. ToldInTime'
  BY <1>11 DEF ToldInTime
<1>21. LlmInv'
  BY <1>1, TurnParts, LlmStays
<1>22. RoundsCharged'
  <2>1. Rounds \in Nat /\ turn.iter = Rounds + 1 /\ Rounds' = Rounds + 1
    BY <1>1, <1>11, TurnParts DEF Rounds, TurnInv, RoundsCharged
  <2>2. PICK a \in Nat : a = Rounds
    BY <2>1
  <2>3. a * MaxBatch \in Nat /\ (a + 1) * MaxBatch = a * MaxBatch + MaxBatch
    BY Laps
  <2>4. turn.used <= a * MaxBatch
    BY <2>2 DEF TurnInv, RoundsCharged
  <2>5. turn'.used <= (a + 1) * MaxBatch
    BY <1>3, <1>5, <1>11, <2>3, <2>4
  <2>6. turn'.iter <= MAX_ITERS(turn'.mode)
    BY <1>11, TurnParts
  <2> QED  BY <1>11, <2>1, <2>2, <2>5, <2>6 DEF RoundsCharged
<1> QED  BY <1>11, <1>14, <1>17, <1>18, <1>19, <1>20, <1>21, <1>22, <1>u DEF TurnInv, TurnTypeOK

LEMMA TurnInvStep ==
  ASSUME TurnInv, TurnStep \/ WallRunsOut
  PROVE  TurnInv'
BY TurnStartsStep, TurnEndsStep, TurnAsksStep, ToolsCalledStep, ToolsCalledUnaskedStep, ToolStep,
   BatchRecordedStep DEF TurnStep

LEMMA TurnStays ==
  ASSUME TurnInv, LlmInv', UNCHANGED turnVars
  PROVE  TurnInv'
<1>1. UNCHANGED <<turn, calls>>
  BY DEF turnVars
<1> QED
  BY <1>1 DEF TurnInv, TurnTypeOK, Granted, WithinBudget, Budget, RoundsCharged, Rounds,
              ToldInTime, ResultsBacked, Backed

-----------------------------------------------------------------------------
(* The three together.                                                     *)

LEMMA TurnsInit == Init => TurnsInv
BY TurnInitInv, MessageInitInv, ResearchInitInv DEF Init, TurnsInv

LEMMA TurnsStep == TurnsInv /\ [Next]_vars => TurnsInv'
<1> SUFFICES ASSUME TurnInv, MessageInv, ResearchInv, [Next]_vars
             PROVE  TurnInv' /\ MessageInv' /\ ResearchInv'
  BY DEF TurnsInv
<1>1. CASE \/ OneTurn
           \/ focus = "turn" /\ WallRunsOut /\ UNCHANGED <<focus, streamVars, researchVars>>
  <2>1. (TurnStep \/ WallRunsOut) /\ UNCHANGED streamVars /\ UNCHANGED researchVars
    BY <1>1 DEF OneTurn
  <2>2. TurnInv'
    BY <2>1, TurnInvStep
  <2>3. LlmInv'
    BY <2>2 DEF TurnInv
  <2> QED  BY <2>1, <2>2, <2>3, MessageStays, ResearchStays
<1>2. CASE \/ OneMessage
           \/ focus = "message" /\ WorkerSends /\ UNCHANGED <<focus, turnVars, researchVars>>
  <2>1. (MessageStep \/ WorkerSends) /\ UNCHANGED turnVars /\ UNCHANGED researchVars
    BY <1>2 DEF OneMessage
  <2>2. MessageInv'
    BY <2>1, MessageInvStep
  <2>3. LlmInv'
    BY <2>2 DEF MessageInv
  <2> QED  BY <2>1, <2>2, <2>3, TurnStays, ResearchStays
<1>3. CASE \/ OneResearch
           \/ focus = "research" /\ FollowupTyped /\ UNCHANGED <<focus, turnVars, llmVars, streamVars>>
  <2>1. /\ ResearchStep \/ FollowupTyped
        /\ UNCHANGED turnVars /\ UNCHANGED llmVars /\ UNCHANGED streamVars
    BY <1>3 DEF OneResearch
  <2>2. ResearchInv'
    BY <2>1, ResearchInvStep
  <2>3. LlmInv'
    BY <2>1, LlmStays DEF TurnInv
  <2> QED  BY <2>1, <2>2, <2>3, TurnStays, MessageStays
<1>4. CASE UNCHANGED vars
  <2>1. UNCHANGED turnVars /\ UNCHANGED llmVars /\ UNCHANGED streamVars /\ UNCHANGED researchVars
    BY <1>4 DEF vars
  <2>2. LlmInv'
    BY <2>1, LlmStays DEF TurnInv
  <2> QED  BY <2>1, <2>2, TurnStays, MessageStays, ResearchStays
<1>5. Next \/ UNCHANGED vars
  OBVIOUS
<1>6. CASE Next
  <2>1. OneTurn \/ OneMessage \/ OneResearch \/ Environment
    BY <1>6 DEF Next
  <2>2. CASE Environment
    BY <2>2, <1>1, <1>2, <1>3 DEF Environment
  <2> QED  BY <2>1, <2>2, <1>1, <1>2, <1>3
<1> QED  BY <1>4, <1>5, <1>6

LEMMA TurnsSafe == Spec => []TurnsInv
BY TurnsInit, TurnsStep, PTL DEF Spec

(* A turn, the calls of query_llm, a message and a research keep their     *)
(* types: the iterations, retries and continuations stay in their ranges.  *)
THEOREM TypesHold == Spec => []TypeOK
<1>1. TurnsInv => TypeOK
  BY DEF TurnsInv, TurnInv, MessageInv, ResearchInv, LlmInv, TypeOK
<1> QED  BY <1>1, TurnsSafe, PTL

(* ToolBudget: of the tools it offered a turn charges the calls of one     *)
(* batch over its budget at most, all but one of them, in total and for    *)
(* open_browser; whatever was called is one batch an iteration at most;    *)
(* and a turn that completed with its budget spent was told to write up.   *)
THEOREM BudgetsHold == Spec => []TurnBounds
<1>1. TurnsInv => TurnBounds
  BY TurnInvMeaning DEF TurnsInv
<1> QED  BY <1>1, TurnsSafe, PTL

(* _handle_validate_claim: no record says SUPPORTED of a claim whose       *)
(* sources fall short of the authority threshold, but for one that was not *)
(* judged and quotes that verdict itself.                                  *)
THEOREM VerdictsBacked == Spec => []SupportedIsBacked
<1>1. TurnsInv => SupportedIsBacked
  BY TurnInvMeaning DEF TurnsInv
<1> QED  BY <1>1, TurnsSafe, PTL

(* The reset of a streamed message: what is shown of a member's message,   *)
(* and of any message that is done, holds one attempt of each part, however*)
(* the stream failed, fell back and was continued.                         *)
THEOREM MessagesUnmixed == Spec => []NoMixing
<1>1. TurnsInv => NoMixing
  BY DEF TurnsInv, MessageInv
<1> QED  BY <1>1, TurnsSafe, PTL

(* The follow-up rounds: a research that is done has briefed the last      *)
(* version, has no seat at work, and every follow-up was skipped, revised  *)
(* or is still in the buffer.                                              *)
THEOREM FollowupsAnswered == Spec => []FollowupsAccounted
<1>1. TurnsInv => FollowupsAccounted
  BY ResearchAccounts DEF TurnsInv
<1> QED  BY <1>1, TurnsSafe, PTL
=============================================================================
