------------------------- MODULE PortfolioReview_proofs -------------------------
(***************************************************************************)
(* The capacity of PortfolioReview, and that experiments have what they    *)
(* refer to, for every set of candidates, processes and sessions.          *)
(***************************************************************************)
EXTENDS PortfolioReview, FiniteSetTheorems, TLAPS

(* A completed record has a result. *)
LEMMA RecordTyped ==
  ASSUME TypeOK, NEW r \in Completed
  PROVE  r \in Review /\ record[r].outcome \in Outcome
BY DEF TypeOK, Completed, Record

(* The state a process starts from is typed. *)
LEMMA IdleTyped ==
  Idle \in Cmd /\ Sound(Idle) /\ Idle.pc = "idle" /\ Idle.cap = 0 /\ Idle.now = {}
<1>1. NoOutcome \in Outcome
  BY PortfolioAssumption DEF NoOutcome, Outcome, Review
<1>2. [c \in Candidate |-> Absent] \in [Candidate -> Cand]
  BY DEF Absent, Cand
<1>3. Idle \in Cmd
  BY <1>1, <1>2 DEF Idle, Cmd, CmdPC, Review
<1> QED  BY <1>3, PortfolioAssumption DEF Idle, Sound, Inserting

(* The capacity that is left is a number up to maximum_active. *)
LEMMA CapacityTyped ==
  ASSUME IsFiniteSet(experiment)
  PROVE  /\ IsFiniteSet(Open) /\ Cardinality(Open) \in Nat
         /\ Capacity \in Nat /\ Capacity <= MaxActive
<1>1. IsFiniteSet(Open) /\ Cardinality(Open) \in Nat
  BY FS_Subset, FS_CardinalityType DEF Open
<1> QED  BY <1>1, PortfolioAssumption DEF Capacity

(* A command that turns to the experiments has the capacity left. *)
LEMMA CreatingTyped ==
  ASSUME IsFiniteSet(experiment), NEW outcome \in Outcome
  PROVE  /\ Creating(outcome) \in Cmd /\ Sound(Creating(outcome))
         /\ Creating(outcome).pc = "create" /\ Creating(outcome).cap = Capacity
<1> DEFINE k == Creating(outcome)
<1>1. k = [Idle EXCEPT !.pc = "create", !.outcome = outcome,
                       !.left = outcome.picked, !.cap = Capacity]
  BY DEF Creating
<1>2. k \in Cmd /\ k.pc = "create" /\ k.cap = Capacity
  <2> HIDE DEF k
  <2> QED  BY <1>1, IdleTyped, CapacityTyped DEF Cmd, CmdPC, Outcome
<1>3. Sound(k)
  <2> HIDE DEF k
  <2> QED  BY <1>2, CapacityTyped DEF Sound, Inserting
<1> QED  BY <1>2, <1>3

(* An answer of the board is a refused result or a valid one, of which the *)
(* command keeps the selection among its batch.                            *)
LEMMA Answered ==
  ASSUME NEW p \in Proc, cmd[p].batch \in Review, BoardAnswers(p)
  PROVE  Rejected(p) \/ \E outcome \in Outcome :
           /\ outcome.picked \subseteq cmd[p].batch
           /\ Moves(p, [cmd[p] EXCEPT !.pc = "check", !.outcome = outcome])
<1>1. ASSUME NEW picked \in SUBSET cmd[p].batch, NEW as \in {cmd[p].batch} \cup Misnamed,
             NEW by \in Session, NEW unfit \in SUBSET (picked \cap Refusable)
      PROVE  [picked |-> picked, as |-> as, by |-> by, unfit |-> unfit] \in Outcome
  BY PortfolioAssumption DEF Outcome, Review
<1> QED  BY <1>1 DEF BoardAnswers

(* A refused result leads back to the board, or to the failed record. *)
LEMMA RejectedTyped ==
  ASSUME TypeOK, NEW p \in Proc, Sound(cmd[p]), Rejected(p)
  PROVE  \E k \in Cmd : Sound(k) /\ k.pc \in {"ask", "failed"} /\ Moves(p, k)
<1> DEFINE k == [Idle EXCEPT !.pc = IF cmd[p].again THEN "failed" ELSE "ask",
                             !.batch = cmd[p].batch, !.again = TRUE, !.cap = cmd[p].cap]
<1>1. cmd[p] \in Cmd
  BY DEF TypeOK
<1>2. k \in Cmd /\ k.pc \in {"ask", "failed"} /\ k.cap = cmd[p].cap
  BY <1>1, IdleTyped DEF Cmd, CmdPC
<1>3. Moves(p, k)
  BY DEF Rejected
<1> HIDE DEF k
<1>4. Sound(k)
  BY <1>2 DEF Sound, Inserting
<1> QED  BY <1>2, <1>3, <1>4

(* Every step of a command leaves it typed, making at most one experiment, *)
(* with capacity for it.                                                   *)
LEMMA CommandMoves ==
  ASSUME TypeOK, IsFiniteSet(experiment), NEW p \in Proc, Sound(cmd[p]),
         CommandStep(p) \/ ApplyFails(p) \/ Stops(p)
  PROVE  \E k \in Cmd : Sound(k) /\ Moves(p, k)
<1> DEFINE k == cmd[p]
<1> USE PortfolioAssumption
<1>0. /\ k \in Cmd /\ k.batch \in Review /\ k.left \subseteq Candidate
      /\ k.cap \in Nat /\ k.cap <= MaxActive
  BY DEF TypeOK, Cmd, Sound
<1>1. ASSUME NEW x \in Cmd, x.pc \notin Inserting, x.cap = k.cap, Moves(p, x)
      PROVE  \E y \in Cmd : Sound(y) /\ Moves(p, y)
  BY <1>0, <1>1 DEF Sound
<1>2. ASSUME NEW x \in Cmd, x.pc \in Inserting, k.pc \in Inserting,
             x.cap = k.cap, x.now = k.now, Moves(p, x)
      PROVE  \E y \in Cmd : Sound(y) /\ Moves(p, y)
  BY <1>2 DEF Sound
<1>3. CASE Lists(p)
  <2>1. CASE Eligible # {} /\ Moves(p, [Idle EXCEPT !.pc = "load", !.batch = Eligible])
    <3> DEFINE x == [Idle EXCEPT !.pc = "load", !.batch = Eligible]
    <3>1. Eligible \in Review
      BY DEF Eligible, Review
    <3> HIDE DEF Eligible
    <3>2. x \in Cmd /\ x.pc = "load" /\ x.cap = 0
      BY <3>1, IdleTyped DEF Cmd, CmdPC
    <3>3. Moves(p, x)
      BY <2>1
    <3> HIDE DEF x
    <3> QED  BY <3>2, <3>3 DEF Sound, Inserting
  <2>2. ASSUME NEW r \in Completed, Moves(p, Creating(record[r].outcome))
        PROVE  \E y \in Cmd : Sound(y) /\ Moves(p, y)
    BY <2>2, RecordTyped, CreatingTyped
  <2> QED  BY <1>3, <2>1, <2>2 DEF Lists
<1>4. CASE Loads(p)
  <2>1. CASE k.batch \in Completed
    <3>1. Moves(p, Creating(record[k.batch].outcome)) \/ Moves(p, Idle)
      BY <1>4, <2>1 DEF Loads, Moves
    <3> HIDE DEF k
    <3>2. k.batch \in Review /\ record[k.batch].outcome \in Outcome
      BY <2>1, RecordTyped
    <3>3. LET x == Creating(record[k.batch].outcome) IN x \in Cmd /\ Sound(x)
      BY <3>2, CreatingTyped
    <3> QED  BY <3>1, <3>3, IdleTyped
  <2>2. CASE k.batch \notin Completed
    <3> DEFINE x == [k EXCEPT !.pc = "ask", !.cap = Capacity]
    <3>1. x \in Cmd /\ x.pc = "ask" /\ x.cap = Capacity
      BY <1>0, CapacityTyped DEF Cmd, CmdPC
    <3>2. Moves(p, x)
      BY <1>4, <2>2 DEF Loads
    <3> HIDE DEF x, k
    <3> QED  BY <3>1, <3>2, CapacityTyped DEF Sound, Inserting
  <2> QED  BY <2>1, <2>2
<1>5. CASE BoardAnswers(p)
  <2>1. ASSUME NEW outcome \in Outcome,
               Moves(p, [k EXCEPT !.pc = "check", !.outcome = outcome])
        PROVE  \E y \in Cmd : Sound(y) /\ Moves(p, y)
    <3> DEFINE x == [k EXCEPT !.pc = "check", !.outcome = outcome]
    <3>1. Moves(p, x)
      BY <2>1
    <3>2. x \in Cmd /\ x.pc = "check" /\ x.cap = k.cap
      BY <1>0 DEF Cmd, CmdPC
    <3> HIDE DEF x
    <3> QED  BY <1>1, <3>1, <3>2 DEF Inserting
  <2>2. Rejected(p) \/ \E outcome \in Outcome :
                         Moves(p, [k EXCEPT !.pc = "check", !.outcome = outcome])
    BY <1>0, <1>5, Answered
  <2> QED  BY <2>1, <2>2, RejectedTyped
<1>6. CASE Checks(p)
  <2>1. CASE Moves(p, [k EXCEPT !.pc = "apply", !.left = k.batch, !.old = cand])
    <3> DEFINE x == [k EXCEPT !.pc = "apply", !.left = k.batch, !.old = cand]
    <3>1. x \in Cmd /\ x.pc = "apply" /\ x.cap = k.cap
      BY <1>0 DEF Cmd, CmdPC, Review, TypeOK
    <3> HIDE DEF x
    <3> QED  BY <1>1, <2>1, <3>1 DEF Inserting, x
  <2> QED  BY <1>6, <2>1, RejectedTyped DEF Checks
<1>7. CASE Applies(p)
  <2>1. PICK c \in k.left : Moves(p, [k EXCEPT !.left = @ \ {c},
                                !.pc = IF k.left = {c} THEN "record" ELSE "apply"])
    BY <1>7 DEF Applies
  <2> DEFINE x == [k EXCEPT !.left = @ \ {c},
                            !.pc = IF k.left = {c} THEN "record" ELSE "apply"]
  <2>2. x \in Cmd /\ x.pc \in {"record", "apply"} /\ x.cap = k.cap
    BY <1>0 DEF Cmd, CmdPC
  <2> HIDE DEF x
  <2> QED  BY <1>1, <2>1, <2>2 DEF Inserting, x
<1>8. CASE ApplyFails(p)
  <2> DEFINE x == [k EXCEPT !.pc = "undo", !.left = k.batch \ @]
  <2>1. x \in Cmd /\ x.pc = "undo" /\ x.cap = k.cap
    BY <1>0 DEF Cmd, CmdPC, Review
  <2>2. Moves(p, x)
    BY <1>8 DEF ApplyFails
  <2> HIDE DEF x
  <2> QED  BY <1>1, <2>1, <2>2 DEF Inserting
<1>9. CASE Undoes(p)
  <2>1. ASSUME NEW c \in k.left, k.pc = "undo", Moves(p, [k EXCEPT !.left = @ \ {c}])
        PROVE  \E y \in Cmd : Sound(y) /\ Moves(p, y)
    <3> DEFINE x == [k EXCEPT !.left = @ \ {c}]
    <3>1. x \in Cmd /\ x.pc = "undo" /\ x.cap = k.cap
      BY <1>0, <2>1 DEF Cmd
    <3> HIDE DEF x
    <3> QED  BY <1>1, <2>1, <3>1 DEF Inserting, x
  <2> QED  BY <1>9, <2>1, IdleTyped DEF Undoes
<1>10. CASE Records(p)
  <2>1. k.outcome \in Outcome
    BY <1>0 DEF Cmd
  <2>2. Moves(p, Creating(k.outcome))
    BY <1>10 DEF Records
  <2> QED  BY <2>1, <2>2, CreatingTyped
<1>11. CASE RecordsFailure(p) \/ Stops(p)
  BY <1>11, IdleTyped DEF RecordsFailure, Stops
<1>12. CASE Creates(p)
  <2>1. ASSUME NEW c \in k.left, k.pc = "create", Moves(p, [k EXCEPT !.left = @ \ {c}])
        PROVE  \E y \in Cmd : Sound(y) /\ Moves(p, y)
    <3> DEFINE x == [k EXCEPT !.left = @ \ {c}]
    <3>1. x \in Cmd /\ x.pc = "create" /\ x.cap = k.cap
      BY <1>0, <2>1 DEF Cmd
    <3> HIDE DEF x
    <3> QED  BY <1>1, <2>1, <3>1 DEF Inserting, x
  <2>2. ASSUME NEW c \in k.left, k.cap > 0,
               Moves(p, [k EXCEPT !.left = @ \ {c}, !.now = {c}, !.pc = "initiative"])
        PROVE  \E y \in Cmd : Sound(y) /\ Moves(p, y)
    <3> DEFINE x == [k EXCEPT !.left = @ \ {c}, !.now = {c}, !.pc = "initiative"]
    <3>1. /\ x \in Cmd /\ x.pc = "initiative" /\ x.cap = k.cap
          /\ c \in Candidate /\ x.now = {c}
      BY <1>0 DEF Cmd, CmdPC
    <3> HIDE DEF x
    <3> QED  BY <1>0, <2>2, <3>1 DEF Sound, x
  <2> QED  BY <1>12, <2>1, <2>2, IdleTyped DEF Creates
<1>13. ASSUME NEW pc \in Inserting, k.pc \in Inserting, Moves(p, [k EXCEPT !.pc = pc])
       PROVE  \E y \in Cmd : Sound(y) /\ Moves(p, y)
  <2> DEFINE x == [k EXCEPT !.pc = pc]
  <2>1. x \in Cmd /\ x.pc = pc /\ x.cap = k.cap /\ x.now = k.now
    BY <1>0 DEF Cmd, CmdPC, Inserting
  <2> HIDE DEF x
  <2> QED  BY <1>2, <1>13, <2>1 DEF x
<1>14. CASE CreatesInitiative(p) \/ Activates(p) \/ Inserts(p)
  <2>1. k.pc \in Inserting
    BY <1>14 DEF CreatesInitiative, Activates, Inserts, Inserting
  <2>2. \/ Moves(p, Idle)
        \/ \E pc \in {"activate", "insert", "mark"} : Moves(p, [k EXCEPT !.pc = pc])
    BY <1>14 DEF CreatesInitiative, Activates, Inserts, MovesTo
  <2> QED  BY <1>13, <2>1, <2>2, IdleTyped DEF Inserting
<1>15. CASE Marks(p)
  <2> DEFINE left == k.cap - 1
             x == [k EXCEPT !.pc = "create", !.now = {}, !.cap = left]
  <2>1. left \in Nat
    BY <1>0, <1>15 DEF Marks, Sound, Inserting
  <2>2. x \in Cmd /\ x.pc = "create" /\ x.cap = left
    <3> HIDE DEF left
    <3> QED  BY <1>0, <2>1 DEF Cmd, CmdPC
  <2>3. Moves(p, x)
    BY <1>15 DEF Marks
  <2> HIDE DEF x
  <2> QED  BY <1>0, <2>2, <2>3 DEF Sound, Inserting
<1> QED
  BY <1>3, <1>4, <1>5, <1>6, <1>7, <1>8, <1>9, <1>10, <1>11, <1>12, <1>14, <1>15
  DEF CommandStep

(* Every reachable state is typed, experiments are finitely many, and a    *)
(* command that makes one has capacity for it.                             *)
THEOREM TypeCorrect == Spec => [](TypeOK /\ IsFiniteSet(experiment) /\ CommandInv)
<1> DEFINE TypeInv == TypeOK /\ IsFiniteSet(experiment) /\ CommandInv
<1> USE PortfolioAssumption
<1>1. Init => TypeInv
  <2> SUFFICES ASSUME Init PROVE TypeInv
    OBVIOUS
  <2>1. /\ cand \in [Candidate -> Cand] /\ edit \in [Candidate -> Cand]
        /\ cmd \in [Proc -> Cmd] /\ record \in [Review -> Record]
    BY IdleTyped DEF Init, Absent, Cand, Record
  <2>2. CommandInv
    BY IdleTyped DEF Init, CommandInv
  <2>3. IsFiniteSet(experiment)
    BY FS_EmptySet DEF Init
  <2>4. TypeOK
    <3>1. stops \in 0..MaxStops /\ edits \in 0..MaxEdits
      BY DEF Init
    <3> QED  BY <2>1, <3>1 DEF Init, TypeOK
  <2> QED  BY <2>2, <2>3, <2>4
<1>2. TypeInv /\ [Next]_vars => TypeInv'
  <2> SUFFICES ASSUME TypeInv, [Next]_vars PROVE TypeInv'
    OBVIOUS
  <2> USE DEF history, founder
  <2>1. ASSUME NEW p \in Proc, CommandStep(p) \/ ApplyFails(p) \/ Stops(p)
        PROVE  TypeInv'
    <3> DEFINE k == cmd[p]
    <3>1. PICK x \in Cmd : Sound(x) /\ cmd' = [cmd EXCEPT ![p] = x]
      BY <2>1, CommandMoves DEF Moves, CommandInv
    <3>2. /\ k \in Cmd /\ k.batch \in Review /\ k.left \subseteq Candidate
          /\ k.now \subseteq Candidate /\ k.outcome \in Outcome
          /\ k.outcome.as \in Review /\ k.outcome.by \in Session
          /\ k.old \in [Candidate -> Cand]
      BY DEF TypeOK, Cmd, Outcome
    <3> HIDE DEF k
    <3>3. cmd' \in [Proc -> Cmd] /\ \A q \in Proc : cmd'[q] = IF q = p THEN x ELSE cmd[q]
      BY <3>1 DEF TypeOK
    <3>4. CommandInv'
      <4>1. \A q \in Proc : Sound(cmd'[q])
        BY <3>1, <3>3 DEF CommandInv
      <4>2. ASSUME ~overlap', NEW q \in Proc, NEW s \in Proc,
                   cmd'[q].pc # "idle", cmd'[s].pc # "idle"
            PROVE  q = s
        <5>1. CASE Lists(p)
          <6>1. \A z \in Proc : cmd[z].pc = "idle"
            BY <4>2, <5>1 DEF Lists
          <6> QED  BY <3>3, <4>2, <6>1
        <5>2. CASE ~Lists(p)
          <6>1. cmd[p].pc # "idle" /\ overlap' = overlap
            BY <2>1, <5>2 DEF CommandStep, Loads, BoardAnswers, Checks, Applies,
               ApplyFails, Undoes, Records, RecordsFailure, Creates,
               CreatesInitiative, Activates, Inserts, Marks, Stops
          <6>2. \A z \in Proc : cmd[z].pc # "idle" => z = p
            BY <4>2, <6>1 DEF CommandInv
          <6> QED  BY <3>3, <4>2, <6>2
        <5> QED  BY <5>1, <5>2
      <4> QED  BY <4>1, <4>2 DEF CommandInv, Sound
    <3> USE DEF CommandStep
    <3>5. cand' \in [Candidate -> Cand]
      <4>1. ASSUME NEW c \in Candidate, Update(c, Verdict(k, c))
            PROVE  cand' \in [Candidate -> Cand]
        <5>1. Verdict(k, c) \in {"not_selected", "queued"}
          BY DEF Verdict
        <5>2. \A v \in {"not_selected", "queued"} :
                [[cand[c] EXCEPT !.status = "reviewed"] EXCEPT !.val = v] \in Cand
          <6>1. cand[c] \in Cand
            BY DEF TypeOK
          <6>2. [cand[c] EXCEPT !.status = "reviewed"] \in Cand
            BY <6>1 DEF Cand
          <6> QED  BY <6>2 DEF Cand
        <5>3. cand' = [cand EXCEPT ![c] =
                [[cand[c] EXCEPT !.status = "reviewed"] EXCEPT !.val = Verdict(k, c)]]
          BY <4>1 DEF Update, TypeOK
        <5> QED  BY <5>1, <5>2, <5>3 DEF TypeOK
      <4>2. CASE Applies(p) \/ ApplyFails(p)
        BY <3>2, <4>1, <4>2 DEF Applies, ApplyFails, k, TypeOK
      <4>3. CASE Undoes(p)
        BY <3>2, <4>3 DEF Undoes, k, TypeOK
      <4>4. CASE Creates(p)
        <5>1. ASSUME NEW c \in Candidate PROVE [cand[c] EXCEPT !.val = "queued"] \in Cand
          BY DEF TypeOK, Cand
        <5>2. cand' = cand \/ \E c \in Candidate : cand' = [cand EXCEPT ![c].val = "queued"]
          BY <3>2, <4>4 DEF Creates, k
        <5> QED  BY <5>1, <5>2 DEF TypeOK
      <4>5. CASE Marks(p)
        <5>1. ASSUME NEW c \in Candidate PROVE [cand[c] EXCEPT !.val = "validating"] \in Cand
          BY DEF TypeOK, Cand
        <5> QED  BY <4>5, <5>1 DEF Marks, TypeOK
      <4> QED
        BY <2>1, <4>2, <4>3, <4>4, <4>5 DEF Lists, Loads, BoardAnswers, Checks, Records,
           RecordsFailure, CreatesInitiative, Activates, Inserts, Stops, TypeOK
    <3>6. record' \in [Review -> Record]
      <4>1. CASE Records(p)
        <5> DEFINE new == [status |-> "completed", outcome |-> k.outcome]
        <5>1. new \in Record
          BY <3>2 DEF Record
        <5>2. record' = [record EXCEPT ![k.batch] = new]
          BY <4>1 DEF Records, k
        <5> HIDE DEF new
        <5> QED  BY <5>1, <5>2 DEF TypeOK
      <4>2. CASE RecordsFailure(p)
        <5>1. [status |-> "failed"] \in Record
          BY DEF Record
        <5> QED  BY <4>2, <5>1 DEF RecordsFailure, TypeOK
      <4> QED
        BY <2>1, <4>1, <4>2 DEF Lists, Loads, BoardAnswers, Checks, Applies, ApplyFails,
           Undoes, Creates, CreatesInitiative, Activates, Inserts, Marks, Stops, TypeOK
    <3>7. initiative' \subseteq Initiative /\ venture' \subseteq Candidate
      <4>1. CASE CreatesInitiative(p)
        BY <3>2, <4>1 DEF CreatesInitiative, Drafts, k, TypeOK, Initiative
      <4>2. CASE Activates(p)
        <5>1. ASSUME NEW i \in initiative PROVE [i EXCEPT !.status = "active"] \in Initiative
          BY DEF TypeOK, Initiative
        <5> QED  BY <4>2, <5>1 DEF Activates, TypeOK
      <4>3. CASE Creates(p)
        BY <3>2, <4>3 DEF Creates, k, TypeOK
      <4> QED
        BY <2>1, <4>1, <4>2, <4>3 DEF Lists, Loads, BoardAnswers, Checks, Applies, ApplyFails, Undoes,
           Records, RecordsFailure, Inserts, Marks, Stops, TypeOK
    <3>8. experiment' \subseteq Experiment /\ IsFiniteSet(experiment')
      <4>1. CASE Inserts(p)
        <5>1. PICK c \in Candidate : k.now = {c}
          BY <4>1 DEF Inserts, CommandInv, Sound, Inserting, k
        <5> DEFINE new == [cand |-> c, review |-> k.outcome.as, open |-> TRUE]
        <5>2. experiment' = experiment \/ experiment' = experiment \cup {new}
          BY <4>1, <5>1 DEF Inserts, k
        <5>3. new \in Experiment
          BY <3>2 DEF Experiment
        <5> HIDE DEF new
        <5> QED  BY <5>2, <5>3, FS_AddElement DEF TypeOK
      <4> QED
        BY <2>1, <4>1 DEF Lists, Loads, BoardAnswers, Checks, Applies, ApplyFails, Undoes,
           Records, RecordsFailure, Creates, CreatesInitiative, Activates, Marks, Stops, TypeOK
    <3>9. stops' \in 0..MaxStops /\ UNCHANGED <<edit, edits, steered>>
      <4>1. CASE ApplyFails(p) \/ Stops(p)
        BY <4>1 DEF ApplyFails, Stops, TypeOK
      <4>2. CASE CommandStep(p)
        BY <4>2 DEF Lists, Loads, BoardAnswers, Checks, Applies, Undoes, Records,
           RecordsFailure, Creates, CreatesInitiative, Activates, Inserts, Marks, TypeOK
      <4> QED  BY <2>1, <4>1, <4>2
    <3>10. applied' \subseteq Review /\ torn' \in BOOLEAN /\ overlap' \in BOOLEAN
      <4>1. CASE Applies(p)
        BY <3>2, <4>1 DEF Applies, k, TypeOK
      <4>2. CASE Lists(p) \/ ApplyFails(p) \/ Stops(p)
        BY <4>2 DEF Lists, ApplyFails, Stops, TypeOK
      <4> QED
        BY <2>1, <4>1, <4>2 DEF Loads, BoardAnswers, Checks, Undoes, Records,
           RecordsFailure, Creates, CreatesInitiative, Activates, Inserts, Marks, TypeOK
    <3> QED  BY <3>3, <3>4, <3>5, <3>6, <3>7, <3>8, <3>9, <3>10 DEF TypeOK
  <2>2. ASSUME NEW c \in Candidate, Imports(c) \/ Edits(c) \/ Writes(c) \/ StartsBoard(c)
        PROVE  TypeInv'
    <3>1. cand' \in [Candidate -> Cand] /\ steered' \subseteq Candidate
      <4>1. CASE Imports(c)
        <5>1. [cand[c] EXCEPT !.status = "ready_for_board"] \in Cand
          BY DEF TypeOK, Cand
        <5> QED  BY <4>1, <5>1 DEF Imports, TypeOK
      <4>2. ASSUME NEW new \in Cand, Replaces(c, new)
            PROVE  cand' \in [Candidate -> Cand] /\ steered' \subseteq Candidate
        BY <4>2 DEF Replaces, TypeOK
      <4>3. edit[c] \in Cand /\ Edited(edit[c]) \subseteq Cand
        <5>1. ASSUME NEW e \in Cand PROVE Edited(e) \subseteq Cand
          <6>1. \A d \in BOOLEAN : [e EXCEPT !.disposed = d] \in Cand
            BY DEF Cand
          <6>2. /\ [e EXCEPT !.status = "ready_for_board"] \in Cand
                /\ [e EXCEPT !.val = "validating"] \in Cand
            BY DEF Cand
          <6>3. [e EXCEPT !.status = "reviewed", !.val = "queued"] \in Cand
            BY DEF Cand
          <6> QED  BY <6>1, <6>2, <6>3 DEF Edited
        <5> QED  BY <5>1 DEF TypeOK
      <4>4. CASE Writes(c) \/ StartsBoard(c)
        BY <4>2, <4>3, <4>4 DEF Writes, StartsBoard
      <4>5. CASE Edits(c)
        BY <4>5 DEF Edits, TypeOK
      <4> QED  BY <2>2, <4>1, <4>4, <4>5
    <3>2. edit' \in [Candidate -> Cand] /\ edits' \in 0..MaxEdits
      <4>1. Absent \in Cand /\ cand[c] \in Cand
        BY DEF TypeOK, Absent, Cand
      <4> QED  BY <2>2, <4>1 DEF Imports, Edits, Writes, StartsBoard, TypeOK
    <3>3. /\ UNCHANGED <<record, venture, initiative, experiment, cmd>>
          /\ UNCHANGED <<stops, applied, torn, overlap>>
      BY <2>2 DEF Imports, Edits, Writes, StartsBoard
    <3>4. CommandInv'
      BY <3>3 DEF CommandInv
    <3> QED  BY <3>1, <3>2, <3>3, <3>4 DEF TypeOK
  <2>3. ASSUME NEW i \in initiative, InitiativeActivates(i) \/ InitiativeCloses(i)
        PROVE  TypeInv'
    <3>1. [i EXCEPT !.status = "active"] \in Initiative /\ [i EXCEPT !.status = "closed"] \in Initiative
      BY DEF TypeOK, Initiative
    <3>2. TypeOK' /\ IsFiniteSet(experiment')
      BY <2>3, <3>1 DEF InitiativeActivates, InitiativeCloses, TypeOK
    <3>3. CommandInv'
      BY <2>3 DEF InitiativeActivates, InitiativeCloses, CommandInv
    <3> QED  BY <3>2, <3>3
  <2>4. ASSUME NEW e \in experiment, ExperimentEnds(e) PROVE TypeInv'
    <3>1. TypeOK'
      BY <2>4 DEF ExperimentEnds, TypeOK, Experiment
    <3>2. IsFiniteSet(experiment')
      BY <2>4, FS_RemoveElement, FS_AddElement DEF ExperimentEnds
    <3>3. CommandInv'
      BY <2>4 DEF ExperimentEnds, CommandInv
    <3> QED  BY <3>1, <3>2, <3>3
  <2>5. CASE UNCHANGED vars
    BY <2>5 DEF vars, TypeOK, CommandInv
  <2> QED  BY <2>1, <2>2, <2>3, <2>4, <2>5 DEF Next
<1> QED  BY <1>1, <1>2, PTL DEF Spec

-----------------------------------------------------------------------------
(* A subset of a finite set is no larger. *)
LEMMA Smaller ==
  ASSUME NEW S, IsFiniteSet(S), NEW T \in SUBSET S
  PROVE  /\ IsFiniteSet(T) /\ Cardinality(T) \in Nat
         /\ Cardinality(S) \in Nat /\ Cardinality(T) <= Cardinality(S)
BY FS_Subset, FS_CardinalityType

(* What some processes can have reserved: maximum_active each. *)
LEMMA Slots ==
  ASSUME NEW P \in SUBSET Proc
  PROVE  /\ IsFiniteSet(P \X (1..MaxActive))
         /\ Cardinality(P) \in Nat
         /\ Cardinality(P \X (1..MaxActive)) = Cardinality(P) * MaxActive
<1> USE PortfolioAssumption
<1>1. IsFiniteSet(1..MaxActive) /\ Cardinality(1..MaxActive) = MaxActive
  BY FS_Interval
<1>2. IsFiniteSet(P) /\ Cardinality(P) \in Nat
  BY Smaller
<1> QED  BY <1>1, <1>2, FS_Product

(* The capacity that one command may use is a slice of that size. *)
LEMMA Slice ==
  ASSUME NEW p, NEW n \in Nat
  PROVE  IsFiniteSet({p} \X (1..n)) /\ Cardinality({p} \X (1..n)) = n
<1>1. IsFiniteSet(1..n) /\ Cardinality(1..n) = n
  BY FS_Interval
<1>2. IsFiniteSet({p}) /\ Cardinality({p}) = 1
  BY FS_Singleton
<1>3. IsFiniteSet({p} \X (1..n)) /\ Cardinality({p} \X (1..n)) = 1 * n
  BY <1>1, <1>2, FS_Product, ZenonT(30)
<1> QED  BY <1>3

(* Sets with nothing in common add up. *)
LEMMA Apart ==
  ASSUME NEW S, IsFiniteSet(S), NEW T, IsFiniteSet(T), S \cap T = {}
  PROVE  /\ IsFiniteSet(S \cup T)
         /\ Cardinality(S \cup T) = Cardinality(S) + Cardinality(T)
<1>1. Cardinality(S) \in Nat /\ Cardinality(T) \in Nat
  BY FS_CardinalityType
<1>2. IsFiniteSet(S \cup T)
      /\ Cardinality(S \cup T) = Cardinality(S) + Cardinality(T) - Cardinality(S \cap T)
  BY FS_Union
<1>3. Cardinality(S \cap T) = 0
  BY FS_EmptySet
<1> QED  BY <1>1, <1>2, <1>3

(* The bounds are numbers, and the bound for overlapping commands is the   *)
(* bound for all the others and one.                                       *)
LEMMA Ceilings ==
  ASSUME NEW p \in Proc
  PROVE  /\ Cardinality(Proc) * MaxActive \in Nat
         /\ Cardinality(Proc \ {p}) * MaxActive \in Nat
         /\ Cardinality(Proc) * MaxActive = Cardinality(Proc \ {p}) * MaxActive + MaxActive
<1> USE PortfolioAssumption
<1>1. /\ Cardinality(Proc) \in Nat /\ Cardinality(Proc \ {p}) \in Nat
      /\ Cardinality(Proc) = Cardinality(Proc \ {p}) + 1
  <2>1. IsFiniteSet(Proc \ {p}) /\ Cardinality(Proc \ {p}) = Cardinality(Proc) - 1
    BY FS_RemoveElement
  <2> QED  BY <2>1, FS_CardinalityType
<1>2. \A m, n \in Nat : m * n \in Nat /\ (m + 1) * n = m * n + n
  OBVIOUS
<1> QED  BY <1>1, <1>2

(* One step keeps the experiments under way, with those that commands may  *)
(* still insert, within the bound.                                         *)
LEMMA CapacityStep ==
  ASSUME TypeOK, IsFiniteSet(experiment), CommandInv, CapacityReserved, [Next]_vars,
         TypeOK', IsFiniteSet(experiment)'
  PROVE  CapacityReserved'
<1> USE PortfolioAssumption DEF history, founder
<1>1. /\ IsFiniteSet(Open) /\ Cardinality(Open) \in Nat
      /\ IsFiniteSet(Reserved) /\ Cardinality(Reserved) \in Nat
      /\ IsFiniteSet(Reserved') /\ Cardinality(Reserved') \in Nat
  BY CapacityTyped, Slots, Smaller DEF Reserved
<1>2. Cardinality(Proc) * MaxActive \in Nat /\ MaxActive <= Cardinality(Proc) * MaxActive
  <2>1. PICK p \in Proc : TRUE
    OBVIOUS
  <2>2. /\ Cardinality(Proc) * MaxActive \in Nat
        /\ Cardinality(Proc \ {p}) * MaxActive \in Nat
        /\ Cardinality(Proc) * MaxActive = Cardinality(Proc \ {p}) * MaxActive + MaxActive
    BY <2>1, Ceilings
  <2>3. \A m, n \in Nat : n <= m + n
    OBVIOUS
  <2> QED  BY <2>2, <2>3
<1>3. /\ Ceiling \in Nat /\ (overlap => Ceiling = Cardinality(Proc) * MaxActive)
      /\ (~overlap => Ceiling = MaxActive)
      /\ (overlap' => Ceiling' = Cardinality(Proc) * MaxActive)
      /\ (~overlap' => Ceiling' = MaxActive)
  BY <1>2 DEF Ceiling
<1>4. ASSUME Open' \subseteq Open, Reserved' \subseteq Reserved, overlap => overlap'
      PROVE  CapacityReserved'
  <2>1. Cardinality(Open') \in Nat /\ Cardinality(Open') <= Cardinality(Open)
    BY <1>1, <1>4, Smaller
  <2>2. Cardinality(Reserved') <= Cardinality(Reserved)
    BY <1>1, <1>4, Smaller
  <2>3. Ceiling <= Ceiling' /\ Ceiling' \in Nat
    BY <1>2, <1>3, <1>4
  <2> QED  BY <1>1, <1>3, <2>1, <2>2, <2>3 DEF CapacityReserved
<1>0. \A q \in Proc : Unused(q) \in Nat
  <2>1. ASSUME NEW q \in Proc PROVE Unused(q) \in Nat
    <3>1. cmd[q].cap \in Nat /\ (cmd[q].pc = "mark" => cmd[q].cap > 0)
      BY DEF TypeOK, Cmd, CommandInv, Sound, Inserting
    <3> QED  BY <3>1 DEF Unused
  <2> QED  BY <2>1
<1>5. ASSUME NEW p \in Proc, NEW x \in Cmd, Moves(p, x)
      PROVE  \A q \in Proc : cmd'[q] = IF q = p THEN x ELSE cmd[q]
  BY <1>5 DEF Moves, TypeOK
<1>6. ASSUME NEW p \in Proc, NEW x \in Cmd, Moves(p, x),
             x.pc = "create", x.cap = Capacity, Open' = Open, overlap => overlap',
             ~overlap' => \A q \in Proc \ {p} : cmd[q].pc = "idle"
      PROVE  CapacityReserved'
  <2>1. Capacity \in Nat /\ Capacity <= MaxActive
    BY CapacityTyped
  <2>2. \A q \in Proc : Unused(q)' = IF q = p THEN Capacity ELSE Unused(q)
    BY <1>5, <1>6 DEF Unused
  <2>3. IsFiniteSet({p} \X (1..Capacity)) /\ Cardinality({p} \X (1..Capacity)) = Capacity
    BY <2>1, Slice
  <2>4. CASE ~overlap'
    <3>1. \A q \in Proc \ {p} : Unused(q) = 0
      BY <1>6, <2>4 DEF Unused
    <3>2. Reserved' \subseteq {p} \X (1..Capacity)
      BY <2>1, <2>2, <3>1 DEF Reserved
    <3>3. Cardinality(Reserved') <= Capacity
      BY <2>3, <3>2, Smaller
    <3>4. Cardinality(Open) <= MaxActive
      BY <1>1, <1>3, <1>6, <2>4 DEF CapacityReserved
    <3>5. Capacity + Cardinality(Open) <= MaxActive
      BY <1>1, <3>4 DEF Capacity
    <3> QED  BY <1>1, <1>3, <1>6, <2>1, <2>4, <3>3, <3>5 DEF CapacityReserved
  <2>5. CASE overlap' /\ Cardinality(Open) < MaxActive
    <3> DEFINE others == (Proc \ {p}) \X (1..MaxActive)
    <3>1. Reserved' \subseteq others \cup ({p} \X (1..Capacity))
      BY <2>1, <2>2 DEF Reserved
    <3>2. IsFiniteSet(others) /\ Cardinality(others) = Cardinality(Proc \ {p}) * MaxActive
      BY Slots
    <3>3. others \cap ({p} \X (1..Capacity)) = {}
      OBVIOUS
    <3> HIDE DEF others
    <3>4. /\ IsFiniteSet(others \cup ({p} \X (1..Capacity)))
          /\ Cardinality(others \cup ({p} \X (1..Capacity)))
               = Cardinality(Proc \ {p}) * MaxActive + Capacity
      BY <2>3, <3>2, <3>3, Apart
    <3>5. Cardinality(Reserved') <= Cardinality(Proc \ {p}) * MaxActive + Capacity
      BY <3>1, <3>4, Smaller
    <3>6. Capacity + Cardinality(Open) = MaxActive
      BY <1>1, <2>5 DEF Capacity
    <3> QED  BY <1>1, <1>3, <1>6, <2>1, <2>5, <3>5, <3>6, Ceilings DEF CapacityReserved
  <2>6. CASE overlap' /\ ~(Cardinality(Open) < MaxActive)
    <3>1. Capacity = 0
      BY <2>6 DEF Capacity
    <3>2. Reserved' \subseteq Reserved
      BY <2>2, <3>1 DEF Reserved
    <3> QED  BY <1>4, <1>6, <3>2
  <2> QED  BY <2>4, <2>5, <2>6
<1>7. ASSUME NEW p \in Proc, NEW x \in Cmd, Moves(p, x), Open' \subseteq Open,
             overlap => overlap',
             \/ x.pc \notin {"create"} \cup Inserting
             \/ x.pc = "mark" /\ cmd[p].pc = "mark" /\ x.cap <= cmd[p].cap
             \/ x.pc \in {"create", "initiative", "activate", "insert"}
                 /\ cmd[p].pc \in {"create", "initiative", "activate", "insert"}
                 /\ x.cap <= cmd[p].cap
             \/ x.pc = "create" /\ cmd[p].pc = "mark" /\ x.cap <= cmd[p].cap - 1
      PROVE  CapacityReserved'
  <2>1. x.cap \in Nat /\ Unused(p) \in Nat
    BY <1>0 DEF Cmd
  <2>2. /\ cmd'[p] = x
        /\ \A q \in Proc \ {p} : Unused(q)' = Unused(q)
    BY <1>5, <1>7 DEF Unused
  <2>3. Unused(p)' = 0 \/ (Unused(p)' \in Int /\ Unused(p)' <= Unused(p))
    <3>1. CASE x.pc \notin {"create"} \cup Inserting
      BY <2>2, <3>1 DEF Unused, Inserting
    <3>2. CASE x.pc = "mark" /\ cmd[p].pc = "mark" /\ x.cap <= cmd[p].cap
      BY <2>1, <2>2, <3>2 DEF Unused, TypeOK, Cmd
    <3>3. CASE /\ x.pc \in {"create", "initiative", "activate", "insert"}
               /\ x.cap <= Unused(p)
      BY <2>1, <2>2, <3>3 DEF Unused
    <3> QED  BY <1>7, <3>1, <3>2, <3>3 DEF Unused
  <2>4. \A q \in Proc, n \in 1..MaxActive : n <= Unused(q)' => n <= Unused(q)
    BY <1>0, <2>2, <2>3
  <2>5. Reserved' \subseteq Reserved
    BY <2>4 DEF Reserved
  <2> QED  BY <1>4, <1>7, <2>5
<1>8. ASSUME NEW p \in Proc, Inserts(p), cmd[p].now \cap cmd[p].outcome.unfit = {}
      PROVE  CapacityReserved'
  <2>1. /\ cmd[p] \in Cmd /\ cmd[p].cap \in 1..MaxActive /\ cmd[p].pc = "insert"
        /\ cmd'[p] = [cmd[p] EXCEPT !.pc = "mark"]
        /\ \A q \in Proc \ {p} : cmd'[q] = cmd[q]
    BY <1>8 DEF Inserts, MovesTo, Moves, CommandInv, Sound, Inserting, TypeOK, Cmd
  <2> DEFINE t == <<p, cmd[p].cap>>
  <2>2. Unused(p) = cmd[p].cap /\ Unused(p)' = cmd[p].cap - 1
    BY <2>1 DEF Unused, Cmd
  <2>3. \A q \in Proc \ {p} : Unused(q)' = Unused(q)
    BY <2>1 DEF Unused
  <2>4. \A q \in Proc, n \in 1..MaxActive :
          n <= Unused(q)' => n <= Unused(q) /\ ~(q = p /\ n = cmd[p].cap)
    BY <1>0, <2>1, <2>2, <2>3
  <2>5. Reserved' \subseteq Reserved \ {t}
    BY <2>4 DEF Reserved
  <2>6. t \in Reserved
    BY <2>1, <2>2 DEF Reserved
  <2> HIDE DEF t
  <2>7. IsFiniteSet(Reserved \ {t}) /\ Cardinality(Reserved \ {t}) = Cardinality(Reserved) - 1
    BY <1>1, <2>6, FS_RemoveElement
  <2>8. Cardinality(Reserved') <= Cardinality(Reserved) - 1
    BY <2>5, <2>7, Smaller
  <2>9. PICK c \in Candidate : cmd[p].now = {c}
    BY <1>8 DEF Inserts, CommandInv, Sound, Inserting
  <2> DEFINE e == [cand |-> c, review |-> cmd[p].outcome.as, open |-> TRUE]
  <2>10. Open' \subseteq Open \cup {e}
    BY <1>8, <2>9 DEF Inserts, Open
  <2> HIDE DEF e
  <2>11. /\ IsFiniteSet(Open \cup {e})
         /\ Cardinality(Open \cup {e}) <= Cardinality(Open) + 1
    <3>1. Cardinality(Open \cup {e}) \in {Cardinality(Open), Cardinality(Open) + 1}
      BY <1>1, FS_AddElement
    <3>2. IsFiniteSet(Open \cup {e})
      BY <1>1, FS_AddElement
    <3> QED  BY <1>1, <3>1, <3>2
  <2>12. Cardinality(Open') \in Nat /\ Cardinality(Open') <= Cardinality(Open) + 1
    BY <1>1, <2>10, <2>11, Smaller
  <2>13. overlap' = overlap
    BY <1>8 DEF Inserts
  <2> QED  BY <1>1, <1>3, <2>8, <2>12, <2>13 DEF CapacityReserved
<1>15. ASSUME NEW p \in Proc, Inserts(p), cmd[p].now \cap cmd[p].outcome.unfit # {}
       PROVE  CapacityReserved'
  <2>1. Moves(p, Idle) /\ overlap' = overlap /\ Open' = Open
    BY <1>15 DEF Inserts, Open
  <2> QED  BY <1>7, <2>1, IdleTyped DEF Inserting
<1>9. ASSUME NEW p \in Proc, CommandStep(p) \/ ApplyFails(p) \/ Stops(p), ~Inserts(p)
      PROVE  CapacityReserved'
  <2>1. PICK x \in Cmd : Sound(x) /\ Moves(p, x)
    BY <1>9, CommandMoves DEF CommandInv
  <2>2. cmd[p] \in Cmd /\ \A y : Moves(p, y) => x = y
    <3>1. cmd \in [Proc -> Cmd]
      BY DEF TypeOK
    <3>2. \A y : Moves(p, y) => cmd'[p] = y
      BY <3>1 DEF Moves
    <3>3. cmd[p] \in Cmd
      BY <3>1
    <3>4. \A y : Moves(p, y) => x = y
      BY <2>1, <3>2
    <3> QED  BY <3>3, <3>4
  <2>3. experiment' = experiment /\ (overlap => overlap')
    <3>1. CASE Lists(p)
      BY <3>1 DEF Lists
    <3>2. CASE ~Lists(p)
      <4>1. experiment' = experiment
        BY <1>9, <3>2 DEF CommandStep, Loads, BoardAnswers, Checks, Applies, ApplyFails,
           Undoes, Records, RecordsFailure, Creates, CreatesInitiative, Activates,
           Marks, Stops
      <4>2. overlap' = overlap
        BY <1>9, <3>2 DEF CommandStep, Loads, BoardAnswers, Checks, Applies, ApplyFails,
           Undoes, Records, RecordsFailure, Creates, CreatesInitiative, Activates,
           Marks, Stops
      <4> QED  BY <4>1, <4>2
    <3> QED  BY <3>1, <3>2
  <2>4. Open' = Open
    BY <2>3 DEF Open
  <2>5. ~overlap' => Lists(p) \/ \A q \in Proc \ {p} : cmd[q].pc = "idle"
    BY <1>9, <2>3 DEF CommandInv, CommandStep, Loads, BoardAnswers, Checks, Applies,
       ApplyFails, Undoes, Records, RecordsFailure, Creates, CreatesInitiative,
       Activates, Marks, Stops
  <2>6. ~overlap' => \A q \in Proc \ {p} : cmd[q].pc = "idle"
    BY <2>5 DEF Lists
  <2>7. ASSUME NEW outcome \in Outcome, Moves(p, Creating(outcome))
        PROVE  CapacityReserved'
    BY <1>6, <2>3, <2>4, <2>6, <2>7, CreatingTyped
  <2>8. CASE x.pc \notin {"create"} \cup Inserting
    BY <1>7, <2>1, <2>3, <2>4, <2>8
  <2>9. CASE Lists(p)
    <3>1. ASSUME Moves(p, [Idle EXCEPT !.pc = "load", !.batch = Eligible])
          PROVE  x.pc = "load"
      BY <2>2, <3>1, IdleTyped DEF Cmd
    <3>2. CASE \E r \in Completed : Moves(p, Creating(record[r].outcome))
      BY <2>7, <3>2, RecordTyped
    <3> QED  BY <2>8, <2>9, <3>1, <3>2 DEF Lists, Inserting
  <2>10. CASE Loads(p)
    <3> DEFINE r == cmd[p].batch
    <3>1. r \in Completed => r \in Review /\ record[r].outcome \in Outcome
      BY RecordTyped
    <3>2. \/ r \in Completed /\ Moves(p, Creating(record[r].outcome))
          \/ Moves(p, Idle)
          \/ Moves(p, [cmd[p] EXCEPT !.pc = "ask", !.cap = Capacity])
      BY <2>10 DEF Loads, Moves
    <3>3. ASSUME Moves(p, Idle) \/ Moves(p, [cmd[p] EXCEPT !.pc = "ask", !.cap = Capacity])
          PROVE  x.pc \in {"idle", "ask"}
      BY <2>2, <3>3, IdleTyped DEF Cmd
    <3> QED  BY <2>7, <2>8, <3>1, <3>2, <3>3 DEF Inserting
  <2>11. CASE Records(p)
    <3>1. cmd[p].outcome \in Outcome
      BY <2>2 DEF Cmd
    <3>2. Moves(p, Creating(cmd[p].outcome))
      BY <2>11 DEF Records
    <3> QED  BY <2>7, <3>1, <3>2
  <2>12. CASE Marks(p)
    <3>1. x.pc = "create" /\ cmd[p].pc = "mark" /\ x.cap = cmd[p].cap - 1
      BY <2>2, <2>12 DEF Marks, Cmd
    <3>2. x.cap <= cmd[p].cap - 1
      BY <2>2, <3>1 DEF Cmd
    <3> QED  BY <1>7, <2>1, <2>3, <2>4, <3>1, <3>2
  <2>13. CASE Creates(p) \/ CreatesInitiative(p) \/ Activates(p)
    <3>1. \/ x.pc = "idle"
          \/ /\ x.pc \in {"create", "initiative", "activate", "insert"}
             /\ cmd[p].pc \in {"create", "initiative", "activate", "insert"}
             /\ x.cap = cmd[p].cap
      <4>1. CASE Creates(p)
        BY <2>2, <4>1, IdleTyped DEF Creates, Cmd
      <4>2. CASE CreatesInitiative(p)
        BY <2>2, <4>2, IdleTyped DEF CreatesInitiative, MovesTo, Cmd
      <4>3. CASE Activates(p)
        BY <2>2, <4>3, IdleTyped DEF Activates, MovesTo, Cmd
      <4> QED  BY <2>13, <4>1, <4>2, <4>3
    <3>2. x.cap = cmd[p].cap => x.cap <= cmd[p].cap
      BY <2>2 DEF Cmd
    <3> QED  BY <1>7, <2>1, <2>3, <2>4, <2>8, <3>1, <3>2 DEF Inserting
  <2>14. CASE BoardAnswers(p) \/ Checks(p)
    <3>1. x.pc \in {"check", "apply", "ask", "failed"}
      <4>1. CASE Rejected(p)
        BY <2>2, <4>1, IdleTyped DEF Rejected, Cmd
      <4> QED  BY <2>2, <2>14, <4>1 DEF BoardAnswers, Checks, Cmd
    <3> QED  BY <2>8, <3>1 DEF Inserting
  <2>15. CASE Applies(p) \/ ApplyFails(p) \/ Undoes(p) \/ RecordsFailure(p) \/ Stops(p)
    <3>1. x.pc \in {"apply", "record", "undo", "idle"}
      <4>1. CASE Applies(p)
        BY <2>2, <4>1 DEF Applies, Cmd
      <4>2. CASE ApplyFails(p)
        BY <2>2, <4>2 DEF ApplyFails, Cmd
      <4>3. CASE Undoes(p)
        BY <2>2, <4>3, IdleTyped DEF Undoes, Cmd
      <4>4. CASE RecordsFailure(p) \/ Stops(p)
        BY <2>2, <4>4, IdleTyped DEF RecordsFailure, Stops
      <4> QED  BY <2>15, <4>1, <4>2, <4>3, <4>4
    <3> QED  BY <2>8, <3>1 DEF Inserting
  <2> QED
    BY <1>9, <2>9, <2>10, <2>11, <2>12, <2>13, <2>14, <2>15 DEF CommandStep
<1>10. ASSUME cmd' = cmd, overlap' = overlap, Open' \subseteq Open PROVE CapacityReserved'
  BY <1>4, <1>10 DEF Reserved, Unused
<1>11. CASE \E c \in Candidate : Imports(c) \/ Edits(c) \/ Writes(c) \/ StartsBoard(c)
  BY <1>10, <1>11 DEF Imports, Edits, Writes, StartsBoard, Open
<1>12. CASE \E i \in initiative : InitiativeActivates(i) \/ InitiativeCloses(i)
  BY <1>10, <1>12 DEF InitiativeActivates, InitiativeCloses, Open
<1>13. ASSUME NEW e \in experiment, ExperimentEnds(e) PROVE CapacityReserved'
  <2>1. e \in Experiment
    BY DEF TypeOK
  <2>2. Open' \subseteq Open
    BY <1>13, <2>1 DEF ExperimentEnds, Open, Experiment
  <2> QED  BY <1>10, <1>13, <2>2 DEF ExperimentEnds
<1>14. CASE UNCHANGED vars
  BY <1>10, <1>14 DEF vars, Open
<1> QED
  BY <1>8, <1>9, <1>11, <1>12, <1>13, <1>14, <1>15 DEF Next

(* The experiments under way and those that commands may still insert stay *)
(* within maximum_active, or within it for every process once two commands *)
(* have overlapped (create_selected).                                      *)
THEOREM CapacityLimit == Spec => []CapacityReserved
<1> USE PortfolioAssumption
<1>1. Init => CapacityReserved
  <2> SUFFICES ASSUME Init PROVE CapacityReserved
    OBVIOUS
  <2>1. Reserved = {}
    BY IdleTyped DEF Init, Reserved, Unused
  <2>2. Open = {}
    BY DEF Init, Open
  <2>3. Cardinality(Open) = 0 /\ Cardinality(Reserved) = 0
    BY <2>1, <2>2, FS_EmptySet
  <2> QED  BY <2>3 DEF CapacityReserved, Ceiling, Init
<1>2. /\ TypeOK /\ IsFiniteSet(experiment) /\ CommandInv
      /\ (TypeOK /\ IsFiniteSet(experiment) /\ CommandInv)'
      /\ CapacityReserved /\ [Next]_vars
      => CapacityReserved'
  BY CapacityStep
<1> QED  BY <1>1, <1>2, TypeCorrect, PTL DEF Spec

(* The number of experiments under way is bounded in every state.          *)
THEOREM ActiveLimit == Spec => []CapacityBound
<1>1. TypeOK /\ IsFiniteSet(experiment) /\ CommandInv /\ CapacityReserved => CapacityBound
  <2> SUFFICES ASSUME IsFiniteSet(experiment), CapacityReserved PROVE CapacityBound
    OBVIOUS
  <2> USE PortfolioAssumption
  <2>1. Cardinality(Open) \in Nat /\ Cardinality(Reserved) \in Nat
    BY CapacityTyped, Slots, Smaller DEF Reserved
  <2>2. PICK p \in Proc : TRUE
    OBVIOUS
  <2>3. Ceiling \in Nat
    BY Ceilings DEF Ceiling
  <2> QED  BY <2>1, <2>3 DEF CapacityReserved, CapacityBound
<1> QED  BY <1>1, TypeCorrect, CapacityLimit, PTL
-----------------------------------------------------------------------------
(* What is activated stays so when an initiative moves on. *)
LEMMA ActivatedStays ==
  ASSUME TypeOK, NEW c, NEW r, Activated(c, r),
         \/ initiative' = initiative
         \/ \E N : initiative' = initiative \cup N
         \/ \E i \in initiative, s \in {"active", "closed"} :
              initiative' = (initiative \ {i}) \cup {[i EXCEPT !.status = s]}
  PROVE  Activated(c, r)'
<1>1. PICK j \in initiative : j.cand = c /\ j.review = r /\ j.status # "draft"
  BY DEF Activated
<1>2. CASE \E N : initiative' = initiative \cup N
  BY <1>1, <1>2 DEF Activated
<1>3. ASSUME NEW i \in initiative, NEW s \in {"active", "closed"},
             initiative' = (initiative \ {i}) \cup {[i EXCEPT !.status = s]}
      PROVE  Activated(c, r)'
  <2> DEFINE m == [i EXCEPT !.status = s]
  <2>1. m.cand = i.cand /\ m.review = i.review /\ m.status = s
    BY DEF TypeOK, Initiative
  <2>2. m \in initiative'
    BY <1>3
  <2> HIDE DEF m
  <2>3. CASE i = j
    BY <1>1, <2>1, <2>2, <2>3 DEF Activated
  <2>4. CASE i # j
    BY <1>1, <1>3, <2>4 DEF Activated
  <2> QED  BY <2>3, <2>4
<1> QED  BY <1>1, <1>2, <1>3 DEF Activated

(* One step keeps experiments, and the commands about to insert one,       *)
(* grounded.                                                               *)
LEMMA GroundedStep ==
  ASSUME TypeOK, CommandInv, GroundedInv, [Next]_vars
  PROVE  GroundedInv'
<1> USE DEF history, founder
<1>1. ASSUME venture \subseteq venture',
             \A c, r : Activated(c, r) => Activated(c, r)',
             \A f \in experiment' : \E e \in experiment : f.cand = e.cand /\ f.review = e.review
      PROVE  ExperimentGrounded'
  BY <1>1 DEF GroundedInv, ExperimentGrounded
<1>2. ASSUME cmd' = cmd, venture' = venture,
             \A c, r : Activated(c, r) => Activated(c, r)',
             \A f \in experiment' : \E e \in experiment : f.cand = e.cand /\ f.review = e.review
      PROVE  GroundedInv'
  <2>1. \A p \in Proc : CommandGrounded(p) => CommandGrounded(p)'
    BY <1>2 DEF CommandGrounded
  <2> QED  BY <1>1, <1>2, <2>1 DEF GroundedInv
<1>3. ASSUME NEW p \in Proc, CommandStep(p) \/ ApplyFails(p) \/ Stops(p)
      PROVE  GroundedInv'
  <2>1. cmd \in [Proc -> Cmd] /\ cmd[p] \in Cmd
    BY DEF TypeOK
  <2>2. /\ \A q \in Proc \ {p} : cmd'[q] = cmd[q]
        /\ \A x : Moves(p, x) => cmd'[p] = x
    <3>1. \E x : Moves(p, x)
      BY <1>3 DEF CommandStep, Lists, Loads, BoardAnswers, Rejected, Checks, Applies,
         ApplyFails, Undoes, Records, RecordsFailure, Creates, CreatesInitiative,
         Activates, Inserts, Marks, Stops, MovesTo
    <3> QED  BY <2>1, <3>1 DEF Moves
  <2>3. venture \subseteq venture'
    BY <1>3 DEF CommandStep, Lists, Loads, BoardAnswers, Checks, Applies,
       ApplyFails, Undoes, Records, RecordsFailure, Creates, CreatesInitiative,
       Activates, Inserts, Marks, Stops
  <2>4. \A c, r : Activated(c, r) => Activated(c, r)'
    <3>1. \/ initiative' = initiative
          \/ \E N : initiative' = initiative \cup N
          \/ \E i \in initiative : initiative' = (initiative \ {i}) \cup {[i EXCEPT !.status = "active"]}
      BY <1>3 DEF CommandStep, Lists, Loads, BoardAnswers, Checks, Applies,
         ApplyFails, Undoes, Records, RecordsFailure, Creates, CreatesInitiative,
         Activates, Inserts, Marks, Stops
    <3> QED  BY <3>1, ActivatedStays
  <2>5. ASSUME NEW q \in Proc \ {p} PROVE CommandGrounded(q)'
    <3>1. CommandGrounded(q) /\ cmd'[q] = cmd[q]
      BY <2>2 DEF GroundedInv
    <3>2. cmd[q].pc = "insert" => \A c \in cmd[q].now : Activated(c, cmd[q].outcome.as)'
      BY <2>4, <3>1 DEF CommandGrounded
    <3>3. (\A c \in cmd[q].now : Activated(c, cmd[q].outcome.as))'
            <=> \A c \in cmd[q].now : Activated(c, cmd[q].outcome.as)'
      BY <3>1 DEF Activated
    <3> QED  BY <2>3, <3>1, <3>2, <3>3 DEF CommandGrounded
  <2>6. ASSUME experiment' = experiment, CommandGrounded(p)'
        PROVE  GroundedInv'
    <3>1. ExperimentGrounded'
      BY <1>1, <2>3, <2>4, <2>6
    <3> QED  BY <2>6, <2>5, <3>1 DEF GroundedInv
  <2>7. ASSUME experiment' = experiment, cmd'[p].pc \notin Inserting
         PROVE  GroundedInv'
    BY <2>6, <2>7 DEF CommandGrounded, Inserting
  <2>8. CASE Creates(p)
    <3>1. cmd'[p].pc \in {"idle", "create"}
          \/ \E c : cmd'[p].pc = "initiative" /\ cmd'[p].now = {c} /\ venture' = venture \cup {c}
      BY <2>1, <2>2, <2>8, IdleTyped DEF Creates, Cmd
    <3>2. CommandGrounded(p)'
      BY <3>1 DEF CommandGrounded, Inserting
    <3> QED  BY <2>6, <2>8, <3>2 DEF Creates
  <2>9. CASE CreatesInitiative(p)
    <3>1. cmd'[p].pc = "idle" \/ (cmd'[p].pc = "activate" /\ cmd'[p].now = cmd[p].now)
      BY <2>1, <2>2, <2>9, IdleTyped DEF CreatesInitiative, MovesTo, Cmd
    <3>2. cmd[p].now \subseteq venture
      BY <2>9 DEF CreatesInitiative, GroundedInv, CommandGrounded, Inserting
    <3>3. CommandGrounded(p)'
      BY <2>3, <3>1, <3>2 DEF CommandGrounded, Inserting
    <3> QED  BY <2>6, <2>9, <3>3 DEF CreatesInitiative
  <2>10. CASE Activates(p)
    <3>1. cmd[p].now \subseteq venture /\ \E c \in Candidate : cmd[p].now = {c}
      BY <2>10 DEF Activates, GroundedInv, CommandGrounded, CommandInv, Sound, Inserting
    <3>2. PICK i \in initiative :
            /\ OfCommand(cmd[p], i)
            /\ IF i.status = "closed" THEN Moves(p, Idle) /\ UNCHANGED initiative
               ELSE /\ MovesTo(p, "insert")
                    /\ initiative' = (initiative \ {i}) \cup {[i EXCEPT !.status = "active"]}
      BY <2>10 DEF Activates
    <3>3. CASE i.status = "closed"
      BY <2>2, <2>7, <2>10, <3>2, <3>3, IdleTyped DEF Activates, Inserting
    <3>4. CASE i.status # "closed"
      <4> DEFINE m == [i EXCEPT !.status = "active"]
      <4>1. m \in initiative' /\ m.cand = i.cand /\ m.review = i.review /\ m.status = "active"
        BY <3>2, <3>4 DEF TypeOK, Initiative
      <4>2. cmd'[p].pc = "insert" /\ cmd'[p].now = cmd[p].now /\ cmd'[p].outcome = cmd[p].outcome
        BY <2>1, <2>2, <3>2, <3>4 DEF MovesTo, Cmd
      <4> HIDE DEF m
      <4>3. \A c \in cmd'[p].now : \E j \in initiative' :
              j.cand = c /\ j.review = cmd'[p].outcome.as /\ j.status # "draft"
        BY <3>1, <3>2, <4>1, <4>2 DEF OfCommand
      <4>4. (\A c \in cmd[p].now : Activated(c, cmd[p].outcome.as))'
        BY <4>3 DEF Activated
      <4>5. CommandGrounded(p)'
        BY <2>3, <3>1, <4>2, <4>4 DEF CommandGrounded
      <4> QED  BY <2>6, <2>10, <4>5 DEF Activates
    <3> QED  BY <3>3, <3>4
  <2>11. CASE Inserts(p) /\ cmd[p].now \cap cmd[p].outcome.unfit = {}
    <3>1. cmd'[p].pc = "mark" /\ cmd'[p].now = cmd[p].now
      BY <2>1, <2>2, <2>11 DEF Inserts, MovesTo, Cmd
    <3>2. /\ cmd[p].now \subseteq venture
          /\ \A c \in cmd[p].now : Activated(c, cmd[p].outcome.as)
      BY <2>11 DEF Inserts, GroundedInv, CommandGrounded, Inserting
    <3>3. \A f \in experiment' : f \in experiment
                                 \/ (f.cand \in cmd[p].now /\ f.review = cmd[p].outcome.as)
      BY <2>11 DEF Inserts
    <3>4. ExperimentGrounded'
      BY <2>3, <2>4, <3>2, <3>3 DEF GroundedInv, ExperimentGrounded
    <3>5. CommandGrounded(p)'
      BY <2>3, <3>1, <3>2 DEF CommandGrounded
    <3> QED  BY <2>5, <3>4, <3>5 DEF GroundedInv
  <2>16. CASE Inserts(p) /\ cmd[p].now \cap cmd[p].outcome.unfit # {}
    <3>1. cmd'[p].pc = "idle" /\ experiment' = experiment
      BY <2>2, <2>16, IdleTyped DEF Inserts
    <3> QED  BY <2>7, <3>1 DEF Inserting
  <2>12. CASE Marks(p)
    <3>1. cmd'[p].pc = "create"
      BY <2>1, <2>2, <2>12 DEF Marks, Cmd
    <3> QED  BY <2>7, <2>12, <3>1 DEF Marks, Inserting
  <2>13. CASE Lists(p) \/ Loads(p) \/ Records(p)
    <3>1. ASSUME NEW outcome, Moves(p, Creating(outcome)) PROVE cmd'[p].pc = "create"
      <4>1. Creating(outcome).pc = "create"
        BY IdleTyped DEF Creating, Cmd
      <4> QED  BY <2>2, <3>1, <4>1
    <3>2. ASSUME Moves(p, [Idle EXCEPT !.pc = "load", !.batch = Eligible])
          PROVE  cmd'[p].pc = "load"
      BY <2>2, <3>2, IdleTyped DEF Cmd
    <3>3. ASSUME Moves(p, [cmd[p] EXCEPT !.pc = "ask", !.cap = Capacity])
          PROVE  cmd'[p].pc = "ask"
      BY <2>1, <2>2, <3>3 DEF Cmd
    <3>4. ASSUME Moves(p, Idle) PROVE cmd'[p].pc = "idle"
      BY <2>2, <3>4, IdleTyped
    <3>5. cmd'[p].pc \in {"load", "create", "idle", "ask"}
      <4>1. CASE Lists(p)
        BY <3>1, <3>2, <4>1 DEF Lists
      <4>2. CASE Loads(p)
        <5> DEFINE r == cmd[p].batch
        <5>1. \/ Moves(p, Creating(record[r].outcome))
              \/ Moves(p, Idle)
              \/ Moves(p, [cmd[p] EXCEPT !.pc = "ask", !.cap = Capacity])
          BY <4>2 DEF Loads, Moves
        <5> QED  BY <3>1, <3>3, <3>4, <5>1
      <4>3. CASE Records(p)
        BY <3>1, <4>3 DEF Records
      <4> QED  BY <2>13, <4>1, <4>2, <4>3
    <3> QED  BY <2>7, <2>13, <3>5 DEF Lists, Loads, Records, Inserting
  <2>14. CASE BoardAnswers(p) \/ Checks(p)
    <3>1. cmd'[p].pc \in {"check", "apply", "ask", "failed"}
      <4>1. CASE Rejected(p)
        <5>1. cmd'[p] = [Idle EXCEPT !.pc = IF cmd[p].again THEN "failed" ELSE "ask",
                                     !.batch = cmd[p].batch, !.again = TRUE, !.cap = cmd[p].cap]
          BY <2>2, <4>1 DEF Rejected
        <5> QED  BY <5>1, IdleTyped DEF Cmd
      <4> QED  BY <2>1, <2>2, <2>14, <4>1 DEF BoardAnswers, Checks, Cmd
    <3> QED  BY <2>7, <2>14, <3>1 DEF BoardAnswers, Checks, Inserting
  <2>15. CASE Applies(p) \/ ApplyFails(p) \/ Undoes(p) \/ RecordsFailure(p) \/ Stops(p)
    <3>1. cmd'[p].pc \in {"apply", "record", "undo", "idle"}
      <4>1. CASE Applies(p)
        BY <2>1, <2>2, <4>1 DEF Applies, Cmd
      <4>2. CASE ApplyFails(p)
        BY <2>1, <2>2, <4>2 DEF ApplyFails, Cmd
      <4>3. CASE Undoes(p)
        BY <2>1, <2>2, <4>3, IdleTyped DEF Undoes, Cmd
      <4>4. CASE RecordsFailure(p) \/ Stops(p)
        BY <2>2, <4>4, IdleTyped DEF RecordsFailure, Stops
      <4> QED  BY <2>15, <4>1, <4>2, <4>3, <4>4
    <3>2. experiment' = experiment
      BY <2>15 DEF Applies, ApplyFails, Undoes, RecordsFailure, Stops
    <3> QED  BY <2>7, <3>1, <3>2 DEF Inserting
  <2> QED
    BY <1>3, <2>8, <2>9, <2>10, <2>11, <2>12, <2>13, <2>14, <2>15, <2>16 DEF CommandStep
<1>4. ASSUME NEW i \in initiative, InitiativeActivates(i) \/ InitiativeCloses(i)
      PROVE  GroundedInv'
  <2>1. \A c, r : Activated(c, r) => Activated(c, r)'
    BY <1>4, ActivatedStays DEF InitiativeActivates, InitiativeCloses
  <2> QED  BY <1>2, <1>4, <2>1 DEF InitiativeActivates, InitiativeCloses
<1>5. ASSUME NEW e \in experiment, ExperimentEnds(e) PROVE GroundedInv'
  <2> DEFINE m == [e EXCEPT !.open = FALSE]
  <2>1. m.cand = e.cand /\ m.review = e.review
    BY DEF TypeOK, Experiment
  <2>2. \A f \in experiment' : f \in experiment \/ f = m
    BY <1>5 DEF ExperimentEnds
  <2> HIDE DEF m
  <2>3. \A c, r : Activated(c, r) => Activated(c, r)'
    BY <1>5 DEF ExperimentEnds, Activated
  <2> QED  BY <1>2, <1>5, <2>1, <2>2, <2>3 DEF ExperimentEnds
<1>6. CASE \/ \E c \in Candidate : Imports(c) \/ Edits(c) \/ Writes(c) \/ StartsBoard(c)
           \/ UNCHANGED vars
  <2>1. UNCHANGED <<venture, initiative, experiment, cmd>>
    BY <1>6 DEF Imports, Edits, Writes, StartsBoard, vars
  <2>2. \A c, r : Activated(c, r) => Activated(c, r)'
    BY <2>1 DEF Activated
  <2> QED  BY <1>2, <2>1, <2>2
<1> QED  BY <1>3, <1>4, <1>5, <1>6 DEF Next

(* Whatever was killed or raced, an experiment has its venture, and an     *)
(* initiative that was activated (_create_one).                            *)
THEOREM Grounded == Spec => []ExperimentGrounded
<1>1. Init => GroundedInv
  BY IdleTyped DEF Init, GroundedInv, CommandGrounded, ExperimentGrounded, Inserting
<1>2. /\ TypeOK /\ IsFiniteSet(experiment) /\ CommandInv
      /\ GroundedInv /\ [Next]_vars
      => GroundedInv'
  BY GroundedStep
<1>3. GroundedInv => ExperimentGrounded
  BY DEF GroundedInv
<1> QED  BY <1>1, <1>2, <1>3, TypeCorrect, PTL DEF Spec

-----------------------------------------------------------------------------
(* Commands that run one after the other: what a review decides is decided *)
(* once, and all of it or nothing.                                         *)

(* Candidates whose status the founder has changed count on neither side.   *)
Reviewed == {c \in Candidate \ steered : cand[c].status = "reviewed"}
Applied == (UNION applied) \ steered

(* A completed review has written its decisions, selects among what it     *)
(* compared, and compared what no other completed review did.              *)
RecordsDecided ==
  \A r \in Completed :
    /\ record[r].outcome.picked \subseteq r
    /\ r \ steered \subseteq Reviewed
    /\ \A s \in Completed : s # r => s \cap r \subseteq steered

ExperimentsDecided ==
  \A e \in experiment :
    /\ \E r \in Completed :
         record[r].outcome.as = e.review /\ e.cand \in record[r].outcome.picked
    /\ e.cand \notin steered => \A f \in experiment : f.cand = e.cand => f = e

(* The candidates that a command has written on and not restored. *)
Written(k) == (IF k.pc = "apply" THEN k.batch \ k.left ELSE k.left) \ steered

(* What a command knows: the review it asks for is not completed, what it  *)
(* writes on was ready and belongs to no completed review, and what it     *)
(* creates experiments for was selected by a completed one.                *)
Deciding == {"ask", "check", "apply", "undo", "record", "failed"}
Decided(k) ==
  /\ k.pc \in Deciding => k.batch \notin Completed
  /\ k.pc \in {"check", "apply", "record"} => k.outcome.picked \subseteq k.batch
  /\ k.pc \in {"apply", "undo"} =>
       /\ k.left \subseteq k.batch
       /\ \A c \in k.batch : k.old[c].status = "ready_for_board"
       /\ ~torn => Reviewed = Applied \cup Written(k) /\ k.batch \cap Applied = {}
  /\ k.pc \in {"apply", "undo", "record"} =>
       \A r \in Completed : r \cap k.batch \subseteq steered
  /\ k.pc = "apply" => (k.batch \ k.left) \ steered \subseteq Reviewed
  /\ k.pc = "record" => k.batch \ steered \subseteq Reviewed
  /\ k.pc \in {"create"} \cup Inserting =>
       /\ \E r \in Completed : record[r].outcome = k.outcome
       /\ k.left \cup k.now \subseteq k.outcome.picked

DecidedInv ==
  ~overlap =>
    /\ RecordsDecided /\ ExperimentsDecided
    /\ \A p \in Proc : Decided(cmd[p])
    /\ AllOrNone

(* AllOrNone says it of the same two sets. *)
LEMMA AllOrNoneSets ==
  AllOrNone <=>
    ((/\ ~torn /\ ~overlap
      /\ \A p \in Proc : cmd[p].pc \notin {"apply", "undo"})
       => Reviewed = Applied)
<1>1. {c \in Candidate : cand[c].status = "reviewed"} \ steered = Reviewed
  BY DEF Reviewed
<1> QED  BY <1>1 DEF AllOrNone, Applied

LEMMA AllOrNoneNext ==
  AllOrNone' <=>
    ((/\ ~torn' /\ ~overlap'
      /\ \A p \in Proc : cmd'[p].pc \notin {"apply", "undo"})
       => Reviewed' = Applied')
<1>1. {c \in Candidate : cand'[c].status = "reviewed"} \ steered' = Reviewed'
  BY DEF Reviewed
<1> QED  BY <1>1 DEF AllOrNone, Applied

(* The states that several steps lead to. *)
LEMMA CreatingFields ==
  ASSUME NEW outcome \in Outcome
  PROVE  LET x == Creating(outcome) IN
         x.pc = "create" /\ x.outcome = outcome /\ x.left = outcome.picked /\ x.now = {}
BY IdleTyped DEF Creating, Cmd

LEMMA RejectedFields ==
  ASSUME TypeOK, NEW p \in Proc, Rejected(p)
  PROVE  cmd'[p].pc \in {"ask", "failed"} /\ cmd'[p].batch = cmd[p].batch
BY IdleTyped DEF Rejected, Moves, TypeOK, Cmd

LEMMA IdleDecided == Decided(Idle)
BY IdleTyped DEF Decided, Deciding, Inserting

(* Without overlap the other processes are idle while one moves. *)
LEMMA Alone ==
  ASSUME TypeOK, CommandInv, NEW p \in Proc,
         CommandStep(p) \/ ApplyFails(p) \/ Stops(p), ~overlap'
  PROVE  /\ ~overlap /\ (~torn' => ~torn)
         /\ \A q \in Proc \ {p} : cmd[q].pc = "idle" /\ cmd'[q] = cmd[q]
         /\ \A x : Moves(p, x) => cmd'[p] = x
<1> USE DEF history, founder
<1>1. ~overlap /\ (~torn' => ~torn)
  BY DEF CommandStep, Lists, Loads, BoardAnswers, Checks, Applies, ApplyFails, Undoes,
     Records, RecordsFailure, Creates, CreatesInitiative, Activates, Inserts, Marks, Stops, TypeOK
<1>2. \A q \in Proc \ {p} : cmd[q].pc = "idle"
  <2>1. CASE Lists(p)
    BY <2>1 DEF Lists
  <2>2. CASE ~Lists(p)
    <3>1. cmd[p].pc # "idle"
      BY <2>2 DEF CommandStep, Loads, BoardAnswers, Checks, Applies, ApplyFails, Undoes, Records,
         RecordsFailure, Creates, CreatesInitiative, Activates, Inserts, Marks, Stops
    <3> QED  BY <1>1, <3>1 DEF CommandInv
  <2> QED  BY <2>1, <2>2
<1>3. \E x : Moves(p, x)
  BY DEF CommandStep, Lists, Loads, BoardAnswers, Rejected, Checks, Applies,
     ApplyFails, Undoes, Records, RecordsFailure, Creates, CreatesInitiative,
     Activates, Inserts, Marks, Stops, MovesTo
<1> QED  BY <1>1, <1>2, <1>3 DEF Moves, TypeOK

(* What a step of one command must show. *)
LEMMA OneKeeps ==
  ASSUME NEW p \in Proc, \A q \in Proc \ {p} : cmd[q].pc = "idle" /\ cmd'[q] = cmd[q],
         RecordsDecided', ExperimentsDecided', NEW x, cmd'[p] = x, Decided(x)',
         ~torn' /\ x.pc \notin {"apply", "undo"} => Reviewed' = Applied'
  PROVE  DecidedInv'
<1>1. \A q \in Proc : Decided(cmd[q])'
  <2>1. \A q \in Proc \ {p} : cmd'[q].pc = "idle"
    OBVIOUS
  <2>2. \A q \in Proc \ {p} : Decided(cmd[q])'
    BY <2>1 DEF Decided, Deciding, Inserting
  <2>3. Decided(cmd[p])'
    BY DEF Decided
  <2> QED  BY <2>2, <2>3
<1>2. AllOrNone'
  BY AllOrNoneNext
<1> QED  BY <1>1, <1>2 DEF DecidedInv

(* A step of a command that decides nothing. *)
LEMMA QuietKeeps ==
  ASSUME DecidedInv, ~overlap, NEW p \in Proc,
         \A q \in Proc \ {p} : cmd[q].pc = "idle" /\ cmd'[q] = cmd[q],
         UNCHANGED <<record, experiment, applied, torn, steered>>, Reviewed' = Reviewed,
         Decided(cmd[p]) => Decided(cmd'[p]),
         cmd[p].pc \in {"apply", "undo"} => cmd'[p].pc \in {"apply", "undo"} \/ torn
  PROVE  DecidedInv'
<1>1. PICK x : x = cmd'[p]
  OBVIOUS
<1>2. Completed' = Completed /\ Applied' = Applied
  BY DEF Completed, Applied
<1>3. RecordsDecided' /\ ExperimentsDecided'
  BY <1>2 DEF DecidedInv, RecordsDecided, ExperimentsDecided
<1>4. Decided(x)'
  <2>1. Decided(x)
    BY <1>1 DEF DecidedInv
  <2>2. Written(x)' = Written(x)
    BY DEF Written
  <2> QED  BY <1>2, <2>1, <2>2 DEF Decided
<1>5. ~torn' /\ x.pc \notin {"apply", "undo"} => Reviewed' = Applied'
  <2>1. ASSUME ~torn, x.pc \notin {"apply", "undo"} PROVE Reviewed = Applied
    BY <1>1, <2>1, AllOrNoneSets DEF DecidedInv
  <2> QED  BY <1>2, <2>1
<1> QED  BY <1>1, <1>3, <1>4, <1>5, OneKeeps

(* Statuses are kept by what writes a validation state. *)
LEMMA SameReviewed ==
  ASSUME TypeOK, UNCHANGED steered,
         \/ UNCHANGED cand
         \/ \E c \in Candidate, val \in {"not_selected", "queued", "validating"} :
              cand' = [cand EXCEPT ![c].val = val]
         \/ \E S \in SUBSET Candidate : cand' = [c \in Candidate |->
              IF c \in S THEN [cand[c] EXCEPT !.val = "validating"] ELSE cand[c]]
         \/ \E c \in Candidate : cand[c].status = "absent"
                                 /\ cand' = [cand EXCEPT ![c].status = "ready_for_board"]
  PROVE  Reviewed' = Reviewed
<1>1. \A c \in Candidate : cand'[c].status = "reviewed" <=> cand[c].status = "reviewed"
  BY DEF TypeOK, Cand
<1> QED  BY <1>1 DEF Reviewed

(* Listing, asking and checking. *)
LEMMA AskingKeeps ==
  ASSUME TypeOK, CommandInv, DecidedInv, NEW p \in Proc, ~overlap',
         Lists(p) \/ Loads(p) \/ BoardAnswers(p) \/ Checks(p)
  PROVE  DecidedInv'
<1> USE DEF history, founder
<1>1. /\ ~overlap
      /\ \A q \in Proc \ {p} : cmd[q].pc = "idle" /\ cmd'[q] = cmd[q]
      /\ \A x : Moves(p, x) => cmd'[p] = x
  BY Alone DEF CommandStep
<1>2. cmd[p] \in Cmd /\ cmd[p].pc \notin {"apply", "undo"} /\ cmd[p].batch \in Review
  BY DEF Lists, Loads, BoardAnswers, Checks, TypeOK, Cmd
<1>3. UNCHANGED <<record, experiment, applied, torn, steered, cand>>
  BY DEF Lists, Loads, BoardAnswers, Checks
<1>4. Decided(cmd[p])
  BY <1>1 DEF DecidedInv
<1>5. ASSUME NEW r \in Completed, Moves(p, Creating(record[r].outcome))
      PROVE  Decided(cmd'[p])
  <2>1. PICK x : x = Creating(record[r].outcome)
    OBVIOUS
  <2>2. /\ x.pc = "create" /\ x.outcome = record[r].outcome
        /\ x.left = x.outcome.picked /\ x.now = {}
    BY <2>1, RecordTyped, CreatingFields
  <2>3. Decided(x)
    BY <2>2 DEF Decided, Deciding, Inserting
  <2> QED  BY <1>1, <1>5, <2>1, <2>3
<1>6. ASSUME Moves(p, Idle) PROVE Decided(cmd'[p])
  BY <1>1, <1>6, IdleDecided
<1>7. ASSUME Rejected(p), cmd[p].pc \in {"ask", "check"} PROVE Decided(cmd'[p])
  BY <1>4, <1>7, RejectedFields DEF Decided, Deciding, Inserting
<1>8. Decided(cmd'[p])
  <2>1. CASE Lists(p)
    <3>1. ASSUME Moves(p, [Idle EXCEPT !.pc = "load", !.batch = Eligible])
          PROVE  Decided(cmd'[p])
      <4>1. cmd'[p].pc = "load"
        BY <1>1, <3>1, IdleTyped DEF Cmd
      <4> QED  BY <4>1 DEF Decided, Deciding, Inserting
    <3> QED  BY <1>5, <2>1, <3>1 DEF Lists
  <2>2. CASE Loads(p)
    <3> DEFINE r == cmd[p].batch
    <3>1. CASE r \in Completed
      <4>1. Moves(p, Creating(record[r].outcome)) \/ Moves(p, Idle)
        BY <2>2, <3>1 DEF Loads, Moves
      <4> QED  BY <1>5, <1>6, <3>1, <4>1
    <3>2. CASE r \notin Completed
      <4>1. cmd'[p].pc = "ask" /\ cmd'[p].batch = r
        BY <1>1, <1>2, <2>2, <3>2 DEF Loads, Cmd
      <4> QED  BY <3>2, <4>1 DEF Decided, Deciding, Inserting
    <3> QED  BY <3>1, <3>2
  <2>3. CASE BoardAnswers(p)
    <3>1. ASSUME NEW outcome \in Outcome, outcome.picked \subseteq cmd[p].batch,
                 Moves(p, [cmd[p] EXCEPT !.pc = "check", !.outcome = outcome])
          PROVE  Decided(cmd'[p])
      <4>1. cmd'[p].pc = "check" /\ cmd'[p].batch = cmd[p].batch /\ cmd'[p].outcome = outcome
        BY <1>1, <1>2, <3>1 DEF Cmd
      <4> QED  BY <1>4, <2>3, <3>1, <4>1 DEF BoardAnswers, Decided, Deciding, Inserting
    <3>2. cmd[p].pc = "ask"
      BY <2>3 DEF BoardAnswers
    <3> QED  BY <1>2, <1>7, <2>3, <3>1, <3>2, Answered
  <2>4. CASE Checks(p)
    <3> DEFINE r == cmd[p].batch
    <3>1. ASSUME \A c \in r : Ready(c),
                 Moves(p, [cmd[p] EXCEPT !.pc = "apply", !.left = r, !.old = cand])
          PROVE  Decided(cmd'[p])
      <4>1. /\ cmd'[p].pc = "apply" /\ cmd'[p].batch = r /\ cmd'[p].left = r
            /\ cmd'[p].outcome = cmd[p].outcome /\ cmd'[p].old = cand
        BY <1>1, <1>2, <3>1 DEF Cmd
      <4>2. r \cap Reviewed = {} /\ \A c \in r : cand[c].status = "ready_for_board"
        BY <3>1 DEF Ready, Reviewed
      <4>3. ~torn => Reviewed = Applied
        <5>1. \A q \in Proc : cmd[q].pc \notin {"apply", "undo"}
          BY <1>1, <1>2
        <5> QED  BY <1>1, <5>1, AllOrNoneSets DEF DecidedInv
      <4>4. \A s \in Completed : s \cap r \subseteq steered
        BY <1>1, <4>2 DEF DecidedInv, RecordsDecided
      <4>5. r \notin Completed /\ cmd[p].outcome.picked \subseteq r
        BY <1>4, <2>4 DEF Checks, Decided, Deciding
      <4>6. Written(cmd'[p]) = {}
        BY <4>1 DEF Written
      <4> HIDE DEF r
      <4>7. cmd'[p].pc \in {"apply", "undo"} =>
              /\ cmd'[p].left \subseteq cmd'[p].batch
              /\ \A c \in cmd'[p].batch : cmd'[p].old[c].status = "ready_for_board"
              /\ ~torn => /\ Reviewed = Applied \cup Written(cmd'[p])
                          /\ cmd'[p].batch \cap Applied = {}
        <5>1. cmd'[p].left \subseteq cmd'[p].batch
          BY <4>1
        <5>2. \A c \in cmd'[p].batch : cmd'[p].old[c].status = "ready_for_board"
          BY <4>1, <4>2
        <5>3. ~torn => /\ Reviewed = Applied \cup Written(cmd'[p])
                       /\ r \cap Applied = {}
          BY <4>2, <4>3, <4>6
        <5> QED  BY <4>1, <5>1, <5>2, <5>3
      <4> QED  BY <4>1, <4>4, <4>5, <4>7 DEF Decided, Deciding, Inserting
    <3> QED  BY <1>7, <2>4, <3>1 DEF Checks
  <2> QED  BY <2>1, <2>2, <2>3, <2>4
<1>9. Reviewed' = Reviewed
  BY <1>3, SameReviewed
<1> QED  BY <1>1, <1>2, <1>3, <1>8, <1>9, QuietKeeps

(* Creating experiments, but for the insert. *)
LEMMA CreatingKeeps ==
  ASSUME TypeOK, CommandInv, DecidedInv, NEW p \in Proc, ~overlap',
         Creates(p) \/ CreatesInitiative(p) \/ Activates(p) \/ Marks(p)
  PROVE  DecidedInv'
<1> USE DEF history, founder
<1>1. /\ ~overlap
      /\ \A q \in Proc \ {p} : cmd[q].pc = "idle" /\ cmd'[q] = cmd[q]
      /\ \A x : Moves(p, x) => cmd'[p] = x
  BY Alone DEF CommandStep
<1>2. cmd[p] \in Cmd /\ cmd[p].pc \in {"create"} \cup Inserting /\ cmd[p].now \subseteq Candidate
  BY DEF Creates, CreatesInitiative, Activates, Marks, TypeOK, Cmd, Inserting
<1>3. UNCHANGED <<record, experiment, applied, torn, steered>>
  BY DEF Creates, CreatesInitiative, Activates, Marks
<1>4. /\ \E r \in Completed : record[r].outcome = cmd[p].outcome
      /\ cmd[p].left \cup cmd[p].now \subseteq cmd[p].outcome.picked
  BY <1>1, <1>2 DEF DecidedInv, Decided
<1>5. ASSUME cmd'[p].pc \in {"create"} \cup Inserting, cmd'[p].outcome = cmd[p].outcome,
             cmd'[p].left \subseteq cmd[p].left,
             cmd'[p].now \subseteq cmd[p].left \cup cmd[p].now
      PROVE  Decided(cmd'[p])
  <2>1. /\ \E r \in Completed : record[r].outcome = cmd'[p].outcome
        /\ cmd'[p].left \cup cmd'[p].now \subseteq cmd'[p].outcome.picked
    BY <1>4, <1>5
  <2> QED  BY <1>5, <2>1 DEF Decided, Deciding, Inserting
<1>6. Decided(cmd'[p])
  <2>1. CASE Moves(p, Idle)
    BY <1>1, <2>1, IdleDecided
  <2>2. CASE Creates(p) /\ ~Moves(p, Idle)
    <3>1. PICK c \in cmd[p].left :
            \/ Moves(p, [cmd[p] EXCEPT !.left = @ \ {c}])
            \/ Moves(p, [cmd[p] EXCEPT !.left = @ \ {c}, !.now = {c}, !.pc = "initiative"])
      BY <2>2 DEF Creates
    <3>2. /\ cmd'[p].pc \in {"create"} \cup Inserting /\ cmd'[p].outcome = cmd[p].outcome
          /\ cmd'[p].left \subseteq cmd[p].left
          /\ cmd'[p].now \subseteq cmd[p].left \cup cmd[p].now
      <4>1. CASE Moves(p, [cmd[p] EXCEPT !.left = @ \ {c}])
        <5>1. /\ cmd'[p].pc = cmd[p].pc /\ cmd'[p].outcome = cmd[p].outcome
              /\ cmd'[p].left = cmd[p].left \ {c} /\ cmd'[p].now = cmd[p].now
          BY <1>1, <1>2, <4>1 DEF Cmd
        <5> QED  BY <1>2, <5>1
      <4>2. CASE Moves(p, [cmd[p] EXCEPT !.left = @ \ {c}, !.now = {c}, !.pc = "initiative"])
        <5>1. /\ cmd'[p].pc = "initiative" /\ cmd'[p].outcome = cmd[p].outcome
              /\ cmd'[p].left = cmd[p].left \ {c} /\ cmd'[p].now = {c}
          <6>1. PICK k : k = cmd[p]
            OBVIOUS
          <6>2. PICK x : x = [k EXCEPT !.left = @ \ {c}, !.now = {c}, !.pc = "initiative"]
            OBVIOUS
          <6>3. cmd'[p] = x /\ k \in Cmd
            BY <1>1, <1>2, <4>2, <6>1, <6>2
          <6>4. x.pc = "initiative" /\ x.outcome = k.outcome /\ x.left = k.left \ {c} /\ x.now = {c}
            BY <6>2, <6>3 DEF Cmd
          <6> QED  BY <6>1, <6>3, <6>4
        <5> QED  BY <5>1 DEF Inserting
      <4> QED  BY <3>1, <4>1, <4>2
    <3> QED  BY <1>5, <3>2
  <2>3. CASE (CreatesInitiative(p) \/ Activates(p)) /\ ~Moves(p, Idle)
    <3>1. PICK pc \in {"activate", "insert"} : Moves(p, [cmd[p] EXCEPT !.pc = pc])
      BY <2>3 DEF CreatesInitiative, Activates, MovesTo, Moves
    <3>2. /\ cmd'[p].pc = pc /\ cmd'[p].outcome = cmd[p].outcome
          /\ cmd'[p].left = cmd[p].left /\ cmd'[p].now = cmd[p].now
      BY <1>1, <1>2, <3>1 DEF Cmd
    <3> QED  BY <1>5, <3>2 DEF Inserting
  <2>4. CASE Marks(p)
    <3>1. /\ cmd'[p].pc = "create" /\ cmd'[p].outcome = cmd[p].outcome
          /\ cmd'[p].left = cmd[p].left /\ cmd'[p].now = {}
      BY <1>1, <1>2, <2>4 DEF Marks, Cmd
    <3> QED  BY <1>5, <3>1 DEF Inserting
  <2> QED  BY <2>1, <2>2, <2>3, <2>4
<1>7. Reviewed' = Reviewed
  <2>1. CASE Creates(p)
    <3>1. cmd[p].left \subseteq Candidate
      BY <1>2 DEF Cmd
    <3>2. UNCHANGED cand \/ \E c \in Candidate : cand' = [cand EXCEPT ![c].val = "queued"]
      BY <2>1, <3>1 DEF Creates
    <3> QED  BY <1>3, <3>2, SameReviewed
  <2>2. CASE Marks(p)
    <3>1. \E S \in SUBSET Candidate : cand' = [c \in Candidate |->
            IF c \in S THEN [cand[c] EXCEPT !.val = "validating"] ELSE cand[c]]
      BY <1>2, <2>2 DEF Marks
    <3> QED  BY <1>3, <3>1, SameReviewed
  <2>3. CASE CreatesInitiative(p) \/ Activates(p)
    BY <1>3, <2>3, SameReviewed DEF CreatesInitiative, Activates
  <2> QED  BY <2>1, <2>2, <2>3
<1>8. cmd[p].pc \notin {"apply", "undo"}
  BY <1>2 DEF Inserting
<1> QED  BY <1>1, <1>3, <1>6, <1>7, <1>8, QuietKeeps

(* What the sets of written candidates come to. *)
LEMMA UnionOne == \A S, B : UNION (S \cup {B}) = (UNION S) \cup B
OBVIOUS

LEMMA WrittenSets ==
  ASSUME NEW U, NEW S, NEW D
  PROVE  /\ (U \cup S) \cup D = U \cup (S \cup D)
         /\ U \cap D = {} => (U \cup S) \ D = U \cup (S \ D)
OBVIOUS

(* The writing of the decisions, and its undoing. *)
LEMMA WritingKeeps ==
  ASSUME TypeOK, CommandInv, DecidedInv, NEW p \in Proc, ~overlap',
         Applies(p) \/ ApplyFails(p) \/ Undoes(p)
  PROVE  DecidedInv'
<1> USE DEF history, founder
<1>1. /\ ~overlap /\ (~torn' => ~torn)
      /\ \A q \in Proc \ {p} : cmd[q].pc = "idle" /\ cmd'[q] = cmd[q]
      /\ \A x : Moves(p, x) => cmd'[p] = x
  BY Alone DEF CommandStep
<1>2. PICK k : k = cmd[p]
  OBVIOUS
<1>3. PICK x : x = cmd'[p]
  OBVIOUS
<1>4. k \in Cmd /\ k.pc \in {"apply", "undo"} /\ k.batch \in Review
  BY <1>2 DEF Applies, ApplyFails, Undoes, TypeOK, Cmd
<1>5. Decided(k) /\ RecordsDecided /\ ExperimentsDecided
  BY <1>1, <1>2 DEF DecidedInv
<1>6. /\ k.batch \notin Completed
      /\ k.pc = "apply" => /\ k.outcome.picked \subseteq k.batch
                           /\ (k.batch \ k.left) \ steered \subseteq Reviewed
      /\ k.left \subseteq k.batch
      /\ \A c \in k.batch : k.old[c].status = "ready_for_board"
      /\ ~torn => Reviewed = Applied \cup Written(k) /\ k.batch \cap Applied = {}
      /\ \A r \in Completed : r \cap k.batch \subseteq steered
  BY <1>4, <1>5 DEF Decided, Deciding
<1>7. UNCHANGED <<record, experiment, steered>> /\ Completed' = Completed
      /\ Written(x)' = Written(x)
  BY DEF Applies, ApplyFails, Undoes, Completed, Written
<1>8. ExperimentsDecided'
  BY <1>5, <1>7 DEF ExperimentsDecided
<1>9. ASSUME \A r \in Completed : r \ steered \subseteq Reviewed => r \ steered \subseteq Reviewed'
      PROVE  RecordsDecided'
  BY <1>5, <1>7, <1>9 DEF RecordsDecided
<1>10. ASSUME NEW c \in Candidate, Update(c, Verdict(k, c))
       PROVE  Reviewed' = Reviewed \cup ({c} \ steered)
  <2>1. \A d \in Candidate : cand'[d].status = IF d = c THEN "reviewed" ELSE cand[d].status
    BY <1>10 DEF Update, TypeOK, Cand
  <2> QED  BY <1>7, <2>1 DEF Reviewed
<1>11. CASE Applies(p)
  <2>1. PICK c \in k.left :
          /\ Update(c, Verdict(k, c))
          /\ Moves(p, [k EXCEPT !.left = @ \ {c},
                                !.pc = IF k.left = {c} THEN "record" ELSE "apply"])
          /\ applied' = IF k.left = {c} THEN applied \cup {k.batch} ELSE applied
    BY <1>2, <1>11 DEF Applies
  <2>2. /\ x.pc = (IF k.left = {c} THEN "record" ELSE "apply") /\ x.left = k.left \ {c}
        /\ x.batch = k.batch /\ x.outcome = k.outcome /\ x.old = k.old
    BY <1>1, <1>3, <1>4, <2>1 DEF Cmd
  <2>3. c \in k.batch /\ c \in Candidate /\ k.pc = "apply" /\ torn' = torn
    BY <1>2, <1>4, <1>6, <1>11 DEF Review, Applies
  <2>4. Reviewed' = Reviewed \cup ({c} \ steered)
    BY <1>10, <2>1, <2>3
  <2>5. RecordsDecided'
    BY <1>9, <2>4
  <2>6. (k.batch \ x.left) \ steered \subseteq Reviewed'
    BY <1>6, <2>2, <2>3, <2>4
  <2>7. ~torn => Reviewed' = Applied \cup ((k.batch \ x.left) \ steered)
    <3>1. ~torn => Reviewed = Applied \cup ((k.batch \ k.left) \ steered)
      BY <1>6, <2>3 DEF Written
    <3>2. c \in k.left /\ k.left \subseteq k.batch /\ x.left = k.left \ {c}
      BY <1>6, <2>1, <2>2
    <3>3. ((k.batch \ k.left) \ steered) \cup ({c} \ steered) = (k.batch \ x.left) \ steered
      BY <3>2
    <3>4. ASSUME ~torn PROVE Reviewed' = Applied \cup ((k.batch \ x.left) \ steered)
      <4>1. Reviewed' = (Applied \cup ((k.batch \ k.left) \ steered)) \cup ({c} \ steered)
        BY <2>4, <3>1, <3>4
      <4>2. @ = Applied \cup (((k.batch \ k.left) \ steered) \cup ({c} \ steered))
        BY WrittenSets
      <4> QED  BY <3>3, <4>1, <4>2
    <3> QED  BY <3>4
  <2>8. CASE k.left = {c}
    <3>1. x.pc = "record" /\ x.left = {} /\ k.batch \ steered \subseteq Reviewed'
      BY <2>2, <2>6, <2>8
    <3>2. Decided(x)'
      BY <1>6, <1>7, <2>2, <2>3, <3>1 DEF Decided, Deciding, Inserting
    <3>3. ~torn' => Reviewed' = Applied'
      <4>1. Applied' = Applied \cup (k.batch \ steered)
        <5>1. applied' = applied \cup {k.batch}
          BY <2>1, <2>8
        <5>2. UNION (applied \cup {k.batch}) = (UNION applied) \cup k.batch
          BY UnionOne
        <5>3. Applied' = ((UNION applied) \cup k.batch) \ steered
          BY <1>7, <5>1, <5>2 DEF Applied
        <5> QED  BY <5>3 DEF Applied
      <4> QED  BY <2>3, <2>7, <3>1, <4>1
    <3> QED  BY <1>1, <1>3, <1>8, <2>5, <3>2, <3>3, OneKeeps
  <2>9. CASE k.left # {c}
    <3>1. x.pc = "apply" /\ Applied' = Applied
      BY <1>7, <2>1, <2>2, <2>9 DEF Applied
    <3>2. /\ ~torn' => Reviewed' = Applied' \cup Written(x)'
          /\ ~torn' => x.batch \cap Applied' = {}
      BY <1>6, <1>7, <2>2, <2>3, <2>7, <3>1 DEF Written
    <3>3. x.left \subseteq x.batch
      BY <1>6, <2>2
    <3>4. Decided(x)'
      BY <1>6, <1>7, <2>2, <2>3, <2>6, <3>1, <3>2, <3>3 DEF Decided, Deciding, Inserting
    <3> QED  BY <1>1, <1>3, <1>8, <2>5, <3>1, <3>4, OneKeeps
  <2> QED  BY <2>8, <2>9
<1>12. CASE ApplyFails(p)
  <2>1. /\ x.pc = "undo" /\ x.left = k.batch \ k.left
        /\ x.batch = k.batch /\ x.outcome = k.outcome /\ x.old = k.old
    BY <1>1, <1>2, <1>3, <1>4, <1>12 DEF ApplyFails, Cmd
  <2>2. /\ k.pc = "apply" /\ Applied' = Applied
        /\ \/ UNCHANGED <<cand, torn>>
           \/ torn' /\ \E c \in k.left : Update(c, Verdict(k, c))
    <3>1. k.pc = "apply" /\ applied' = applied
      BY <1>2, <1>12 DEF ApplyFails
    <3>2. \/ UNCHANGED <<cand, torn>>
          \/ \E c \in k.left : Update(c, Verdict(k, c)) /\ torn' = TRUE
      BY <1>2, <1>12 DEF ApplyFails
    <3> QED  BY <1>7, <3>1, <3>2 DEF Applied
  <2>3. Reviewed \subseteq Reviewed'
    <3>1. CASE UNCHANGED cand
      BY <1>7, <3>1 DEF Reviewed
    <3>2. CASE \E c \in k.left : Update(c, Verdict(k, c))
      BY <1>4, <1>10, <3>2 DEF Cmd
    <3> QED  BY <2>2, <3>1, <3>2
  <2>4. RecordsDecided'
    BY <1>9, <2>3
  <2>5. /\ ~torn' => Reviewed' = Applied' \cup Written(x)'
        /\ ~torn' => k.batch \cap Applied' = {}
    <3>1. ASSUME ~torn' PROVE Reviewed' = Reviewed
      BY <1>7, <2>2, <3>1 DEF Reviewed
    <3>2. Written(x) = Written(k)
      BY <2>1, <2>2 DEF Written
    <3> QED  BY <1>1, <1>6, <1>7, <2>2, <3>1, <3>2
  <2>6. Decided(x)'
    BY <1>6, <1>7, <2>1, <2>5 DEF Decided, Deciding, Inserting
  <2> QED  BY <1>1, <1>3, <1>8, <2>1, <2>4, <2>6, OneKeeps
<1>13. CASE Undoes(p)
  <2>1. k.pc = "undo" /\ torn' = torn /\ Applied' = Applied
    BY <1>2, <1>7, <1>13 DEF Undoes, Applied
  <2>2. CASE k.left = {} /\ Moves(p, Idle) /\ UNCHANGED cand
    <3>1. x = Idle /\ Reviewed' = Reviewed
      BY <1>1, <1>3, <1>7, <2>2 DEF Reviewed
    <3>2. RecordsDecided'
      BY <1>9, <3>1
    <3>3. Decided(x)'
      BY <3>1, IdleTyped DEF Decided, Deciding, Inserting
    <3>4. ~torn' => Reviewed' = Applied'
      BY <1>6, <2>1, <2>2, <3>1 DEF Written
    <3> QED  BY <1>1, <1>3, <1>8, <3>2, <3>3, <3>4, OneKeeps
  <2>3. ASSUME NEW c \in k.left, cand' = [cand EXCEPT ![c] = k.old[c]],
               Moves(p, [k EXCEPT !.left = @ \ {c}])
        PROVE  DecidedInv'
    <3>1. /\ x.pc = "undo" /\ x.left = k.left \ {c}
          /\ x.batch = k.batch /\ x.outcome = k.outcome /\ x.old = k.old
      BY <1>1, <1>3, <1>4, <2>1, <2>3 DEF Cmd
    <3>2. c \in k.batch /\ c \in Candidate /\ k.old[c].status = "ready_for_board"
      BY <1>4, <1>6 DEF Review
    <3>3. Reviewed' = Reviewed \ {c}
      <4>1. \A d \in Candidate : cand'[d] = IF d = c THEN k.old[c] ELSE cand[d]
        BY <2>3 DEF TypeOK
      <4> QED  BY <1>7, <3>2, <4>1 DEF Reviewed
    <3>4. RecordsDecided'
      BY <1>6, <1>9, <3>2, <3>3
    <3>5. /\ ~torn' => Reviewed' = Applied' \cup Written(x)'
          /\ ~torn' => k.batch \cap Applied' = {}
      <4>1. Written(x) = Written(k) \ {c}
        BY <2>1, <3>1 DEF Written
      <4>2. ~torn => Applied \cap {c} = {}
        BY <1>6, <3>2
      <4>3. ASSUME ~torn PROVE Reviewed' = Applied \cup Written(x)
        <5>1. Reviewed' = (Applied \cup Written(k)) \ {c}
          BY <1>6, <3>3, <4>3
        <5>2. (Applied \cup Written(k)) \ {c} = Applied \cup (Written(k) \ {c})
          BY <4>2, <4>3, WrittenSets
        <5> QED  BY <4>1, <5>1, <5>2
      <4> QED  BY <1>6, <1>7, <2>1, <4>3
    <3>6. x.left \subseteq x.batch
      BY <1>6, <3>1
    <3>7. Decided(x)'
      BY <1>6, <1>7, <3>1, <3>5, <3>6 DEF Decided, Deciding, Inserting
    <3> QED  BY <1>1, <1>3, <1>8, <3>1, <3>4, <3>7, OneKeeps
  <2> QED  BY <1>2, <1>13, <2>2, <2>3 DEF Undoes
<1> QED  BY <1>11, <1>12, <1>13

(* The review file: written for a review that no record has decided. *)
LEMMA RecordingKeeps ==
  ASSUME TypeOK, CommandInv, DecidedInv, NEW p \in Proc, ~overlap',
         Records(p) \/ RecordsFailure(p)
  PROVE  DecidedInv'
<1> USE DEF history, founder
<1>1. /\ ~overlap
      /\ \A q \in Proc \ {p} : cmd[q].pc = "idle" /\ cmd'[q] = cmd[q]
      /\ \A x : Moves(p, x) => cmd'[p] = x
  BY Alone DEF CommandStep
<1>2. PICK k : k = cmd[p]
  OBVIOUS
<1>3. PICK x : x = cmd'[p]
  OBVIOUS
<1>4. k \in Cmd /\ k.batch \in Review /\ k.outcome \in Outcome
  BY <1>2 DEF TypeOK, Cmd
<1>5. Decided(k) /\ RecordsDecided /\ ExperimentsDecided
  BY <1>1, <1>2 DEF DecidedInv
<1>6. k.pc \in {"record", "failed"} /\ k.batch \notin Completed
  BY <1>2, <1>5 DEF Records, RecordsFailure, Decided, Deciding
<1>7. /\ UNCHANGED <<cand, experiment, applied, torn, steered>>
      /\ Reviewed' = Reviewed /\ Applied' = Applied
  BY DEF Records, RecordsFailure, Reviewed, Applied
<1>8. \A r \in Completed : r \in Completed' /\ record'[r] = record[r]
  BY <1>2, <1>6 DEF Records, RecordsFailure, Completed, TypeOK
<1>9. ExperimentsDecided'
  BY <1>5, <1>7, <1>8 DEF ExperimentsDecided
<1>10. ~torn' => Reviewed' = Applied'
  <2>1. \A q \in Proc : cmd[q].pc \notin {"apply", "undo"}
    BY <1>1, <1>2, <1>6
  <2> QED  BY <1>1, <1>7, <2>1, AllOrNoneSets DEF DecidedInv
<1>11. CASE Records(p)
  <2>1. /\ record' = [record EXCEPT ![k.batch] =
             [status |-> "completed", outcome |-> k.outcome]]
        /\ Moves(p, Creating(k.outcome)) /\ k.pc = "record"
    BY <1>2, <1>11 DEF Records
  <2>2. record'[k.batch].outcome = k.outcome /\ record'[k.batch].status = "completed"
    BY <1>4, <2>1 DEF TypeOK
  <2>3. /\ k.outcome.picked \subseteq k.batch /\ k.batch \ steered \subseteq Reviewed
        /\ \A r \in Completed : r \cap k.batch \subseteq steered
    BY <1>5, <2>1 DEF Decided
  <2>4. Completed' = Completed \cup {k.batch}
    BY <1>4, <2>1, <2>2 DEF Completed, TypeOK
  <2>5. RecordsDecided'
    BY <1>5, <1>7, <1>8, <2>2, <2>3, <2>4 DEF RecordsDecided
  <2>6. /\ x.pc = "create" /\ x.outcome = k.outcome
        /\ x.left = k.outcome.picked /\ x.now = {}
    BY <1>1, <1>3, <1>4, <2>1, CreatingFields
  <2>7. Decided(x)'
    BY <2>2, <2>4, <2>6 DEF Decided, Deciding, Inserting
  <2> QED  BY <1>1, <1>3, <1>9, <1>10, <2>5, <2>7, OneKeeps
<1>12. CASE RecordsFailure(p)
  <2>1. x = Idle /\ record' = [record EXCEPT ![k.batch] = [status |-> "failed"]]
    BY <1>1, <1>2, <1>3, <1>12 DEF RecordsFailure
  <2>2. Completed' = Completed
    BY <1>4, <1>6, <1>8, <2>1 DEF Completed, TypeOK
  <2>3. RecordsDecided'
    BY <1>5, <1>7, <1>8, <2>2 DEF RecordsDecided
  <2>4. Decided(x)'
    BY <2>1, IdleTyped DEF Decided, Deciding, Inserting
  <2> QED  BY <1>1, <1>3, <1>9, <1>10, <2>3, <2>4, OneKeeps
<1> QED  BY <1>11, <1>12

(* The insert: its candidate was selected by the review that the command   *)
(* works on, and unless the founder steered it, by no other.               *)
LEMMA InsertKeeps ==
  ASSUME TypeOK, CommandInv, DecidedInv, NEW p \in Proc, ~overlap', Inserts(p)
  PROVE  DecidedInv'
<1> USE DEF history, founder
<1>1. /\ ~overlap
      /\ \A q \in Proc \ {p} : cmd[q].pc = "idle" /\ cmd'[q] = cmd[q]
      /\ \A x : Moves(p, x) => cmd'[p] = x
  BY Alone DEF CommandStep
<1>2. PICK k : k = cmd[p]
  OBVIOUS
<1>3. PICK x : x = cmd'[p]
  OBVIOUS
<1>4. k \in Cmd /\ k.pc = "insert"
  BY <1>2 DEF TypeOK, Inserts
<1>5. RecordsDecided /\ ExperimentsDecided /\ k.left \cup k.now \subseteq k.outcome.picked
  BY <1>1, <1>2, <1>4 DEF DecidedInv, Decided, Inserting
<1>6. PICK r \in Completed : record[r].outcome = k.outcome
  BY <1>1, <1>2, <1>4 DEF DecidedInv, Decided, Inserting
<1>7. /\ UNCHANGED <<cand, record, applied, torn, steered>>
      /\ Reviewed' = Reviewed /\ Completed' = Completed /\ Applied' = Applied
  BY DEF Inserts, Reviewed, Completed, Applied
<1>8. Decided(x)'
  <2>1. CASE k.now \cap k.outcome.unfit = {}
    <3>1. x.pc = "mark" /\ x.outcome = k.outcome /\ x.left = k.left /\ x.now = k.now
      BY <1>1, <1>2, <1>3, <1>4, <2>1 DEF Inserts, MovesTo, Cmd
    <3> QED  BY <1>5, <1>6, <1>7, <3>1 DEF Decided, Deciding, Inserting
  <2>2. CASE k.now \cap k.outcome.unfit # {}
    <3>1. x = Idle
      BY <1>1, <1>2, <1>3, <2>2 DEF Inserts
    <3> QED  BY <3>1, IdleTyped DEF Decided, Deciding, Inserting
  <2> QED  BY <2>1, <2>2
<1>9. RecordsDecided'
  BY <1>5, <1>7 DEF RecordsDecided
<1>10. ExperimentsDecided'
  <2>1. PICK c \in Candidate : k.now = {c}
    BY <1>2, <1>4 DEF CommandInv, Sound, Inserting
  <2> DEFINE new == [cand |-> c, review |-> k.outcome.as, open |-> TRUE]
  <2>2. experiment' = experiment
        \/ (~HasExperiment(c, k.outcome.as) /\ experiment' = experiment \cup {new})
    BY <1>2, <2>1 DEF Inserts
  <2>3. CASE experiment' = experiment
    BY <1>5, <1>7, <2>3 DEF ExperimentsDecided
  <2>4. CASE ~HasExperiment(c, k.outcome.as) /\ experiment' = experiment \cup {new}
    <3>1. new.cand = c /\ new.review = k.outcome.as
      OBVIOUS
    <3>2. c \in record[r].outcome.picked /\ c \in r /\ record[r].outcome.as = k.outcome.as
      BY <1>5, <1>6, <2>1 DEF RecordsDecided
    <3>3. c \notin steered => \A f \in experiment : f.cand # c
      <4>1. ASSUME c \notin steered, NEW f \in experiment, f.cand = c PROVE FALSE
        <5>1. PICK s \in Completed : record[s].outcome.as = f.review /\ c \in s
          BY <1>5, <4>1 DEF ExperimentsDecided, RecordsDecided
        <5>2. s = r
          BY <1>5, <1>6, <3>2, <4>1, <5>1 DEF RecordsDecided
        <5> QED  BY <2>4, <3>2, <4>1, <5>1, <5>2 DEF HasExperiment
      <4> QED  BY <4>1
    <3> HIDE DEF new
    <3>4. \A e \in experiment' : \E s \in Completed :
            record[s].outcome.as = e.review /\ e.cand \in record[s].outcome.picked
      BY <1>5, <1>6, <2>4, <3>1, <3>2 DEF ExperimentsDecided
    <3>5. \A e \in experiment' : e.cand \notin steered =>
            \A f \in experiment' : f.cand = e.cand => f = e
      BY <1>5, <2>4, <3>1, <3>3 DEF ExperimentsDecided
    <3> QED  BY <1>7, <3>4, <3>5 DEF ExperimentsDecided
  <2> QED  BY <2>2, <2>3, <2>4
<1>11. ~torn' => Reviewed' = Applied'
  <2>1. \A q \in Proc : cmd[q].pc \notin {"apply", "undo"}
    BY <1>1, <1>2, <1>4
  <2> QED  BY <1>1, <1>7, <2>1, AllOrNoneSets DEF DecidedInv
<1> QED  BY <1>1, <1>3, <1>8, <1>9, <1>10, <1>11, OneKeeps

(* A command that is killed leaves what was decided. *)
LEMMA StopKeeps ==
  ASSUME TypeOK, CommandInv, DecidedInv, NEW p \in Proc, ~overlap', Stops(p)
  PROVE  DecidedInv'
<1> USE DEF history, founder
<1>1. /\ ~overlap /\ (~torn' => ~torn)
      /\ \A q \in Proc \ {p} : cmd[q].pc = "idle" /\ cmd'[q] = cmd[q]
      /\ \A x : Moves(p, x) => cmd'[p] = x
  BY Alone
<1>2. /\ UNCHANGED <<cand, record, experiment, applied, steered>>
      /\ Reviewed' = Reviewed /\ Completed' = Completed /\ Applied' = Applied
      /\ ~torn' => cmd[p].pc \notin {"apply", "undo"}
      /\ cmd'[p] = Idle
  BY <1>1 DEF Stops, Reviewed, Completed, Applied
<1>3. RecordsDecided' /\ ExperimentsDecided'
  BY <1>1, <1>2 DEF DecidedInv, RecordsDecided, ExperimentsDecided
<1>4. PICK x : x = Idle
  OBVIOUS
<1>5. Decided(x)'
  BY <1>4, IdleTyped DEF Decided, Deciding, Inserting
<1>6. ~torn' => Reviewed' = Applied'
  <2>1. ASSUME ~torn' PROVE \A q \in Proc : cmd[q].pc \notin {"apply", "undo"}
    BY <1>1, <1>2, <2>1
  <2> QED  BY <1>1, <1>2, <2>1, AllOrNoneSets DEF DecidedInv
<1> QED  BY <1>1, <1>2, <1>3, <1>4, <1>5, <1>6, OneKeeps

(* A command of the founder changes the status of one candidate at most,   *)
(* which is steered then.                                                  *)
LEMMA FounderReviewed ==
  ASSUME TypeOK, NEW c \in Candidate, NEW new, Replaces(c, new)
  PROVE  steered \subseteq steered' /\ Reviewed' = Reviewed \ steered'
<1>1. \A d \in Candidate : cand'[d] = IF d = c THEN new ELSE cand[d]
  BY DEF Replaces, TypeOK
<1>2. CASE new.status = cand[c].status
  <2>1. steered' = steered
    BY <1>2 DEF Replaces
  <2>2. \A d \in Candidate : cand'[d].status = cand[d].status
    BY <1>1, <1>2
  <2> QED  BY <2>1, <2>2 DEF Reviewed
<1>3. CASE new.status # cand[c].status
  <2>1. steered' = steered \cup {c}
    BY <1>3 DEF Replaces
  <2>2. \A d \in Candidate \ steered' : cand'[d] = cand[d]
    BY <1>1, <2>1
  <2> QED  BY <2>1, <2>2 DEF Reviewed
<1> QED  BY <1>2, <1>3

(* What was decided of the candidates that nobody has steered stands when  *)
(* one more is.                                                            *)
LEMMA SteeringKeeps ==
  ASSUME DecidedInv, UNCHANGED <<record, experiment, cmd, applied, torn, overlap>>,
         steered \subseteq steered', Reviewed' = Reviewed \ steered'
  PROVE  DecidedInv'
<1>1. Completed' = Completed /\ Applied' = Applied \ steered'
  BY DEF Completed, Applied
<1>2. \A k : Written(k)' = Written(k) \ steered'
  BY DEF Written
<1>3. RecordsDecided => RecordsDecided'
  BY <1>1 DEF RecordsDecided
<1>4. ExperimentsDecided => ExperimentsDecided'
  BY <1>1 DEF ExperimentsDecided
<1>5. ASSUME NEW k, Decided(k) PROVE Decided(k)'
  <2>1. ~torn /\ k.pc \in {"apply", "undo"} =>
          Reviewed' = Applied' \cup Written(k)' /\ k.batch \cap Applied' = {}
    BY <1>1, <1>2, <1>5 DEF Decided
  <2>2. k.pc \in {"apply", "undo", "record"} =>
          \A r \in Completed : r \cap k.batch \subseteq steered'
    BY <1>5 DEF Decided
  <2>3. /\ k.pc = "apply" => (k.batch \ k.left) \ steered' \subseteq Reviewed'
        /\ k.pc = "record" => k.batch \ steered' \subseteq Reviewed'
    BY <1>5 DEF Decided
  <2> QED  BY <1>1, <1>5, <2>1, <2>2, <2>3 DEF Decided
<1>6. \A p \in Proc : Decided(cmd[p]) => Decided(cmd[p])'
  <2>1. ASSUME NEW p \in Proc, Decided(cmd[p]) PROVE Decided(cmd[p])'
    <3>1. PICK k : k = cmd[p]
      OBVIOUS
    <3>2. Decided(k)'
      BY <1>5, <2>1, <3>1
    <3> QED  BY <3>1, <3>2 DEF Decided
  <2> QED  BY <2>1
<1>7. AllOrNone => AllOrNone'
  BY <1>1, AllOrNoneSets, AllOrNoneNext
<1> QED  BY <1>3, <1>4, <1>6, <1>7 DEF DecidedInv

(* What happens beside the commands. *)
LEMMA OthersKeep ==
  ASSUME TypeOK, DecidedInv,
         \/ \E c \in Candidate : Imports(c) \/ Edits(c) \/ Writes(c) \/ StartsBoard(c)
         \/ \E i \in initiative : InitiativeActivates(i) \/ InitiativeCloses(i)
         \/ \E e \in experiment : ExperimentEnds(e)
         \/ UNCHANGED vars
  PROVE  DecidedInv'
<1> USE DEF history, founder
<1>1. /\ UNCHANGED <<record, cmd, applied, torn, overlap>> /\ Completed' = Completed
  BY DEF Imports, Edits, Writes, StartsBoard, InitiativeActivates, InitiativeCloses,
     ExperimentEnds, vars, Completed
<1>2. steered \subseteq steered' /\ Reviewed' = Reviewed \ steered'
  <2>1. CASE \E c \in Candidate : \E new : Replaces(c, new)
    BY <2>1, FounderReviewed
  <2>2. \/ \E c \in Candidate : \E new : Replaces(c, new)
        \/ /\ UNCHANGED steered
           /\ \/ UNCHANGED cand
              \/ \E c \in Candidate : cand[c].status = "absent"
                                      /\ cand' = [cand EXCEPT ![c].status = "ready_for_board"]
    BY DEF Imports, Edits, Writes, StartsBoard, InitiativeActivates, InitiativeCloses,
       ExperimentEnds, vars
  <2>3. Reviewed \cap steered = {}
    BY DEF Reviewed
  <2> QED  BY <2>1, <2>2, <2>3, SameReviewed
<1>3. CASE UNCHANGED experiment
  BY <1>1, <1>2, <1>3, SteeringKeeps
<1>4. ASSUME NEW e \in experiment, ExperimentEnds(e) PROVE DecidedInv'
  <2> DEFINE m == [e EXCEPT !.open = FALSE]
  <2>1. m.cand = e.cand /\ m.review = e.review
    BY DEF TypeOK, Experiment
  <2>2. experiment' = (experiment \ {e}) \cup {m} /\ UNCHANGED <<cand, steered>>
    BY <1>4 DEF ExperimentEnds
  <2> HIDE DEF m
  <2>3. ExperimentsDecided => ExperimentsDecided'
    BY <1>1, <2>1, <2>2 DEF ExperimentsDecided
  <2>4. Reviewed' = Reviewed /\ Applied' = Applied /\ \A k : Written(k)' = Written(k)
    BY <1>1, <2>2 DEF Reviewed, Applied, Written
  <2>5. RecordsDecided => RecordsDecided'
    BY <1>1, <2>2, <2>4 DEF RecordsDecided
  <2>6. \A p \in Proc : Decided(cmd[p]) => Decided(cmd[p])'
    BY <1>1, <2>2, <2>4 DEF Decided, Written
  <2>7. AllOrNone => AllOrNone'
    BY <1>1, <2>4, AllOrNoneSets, AllOrNoneNext
  <2> QED  BY <1>1, <2>3, <2>5, <2>6, <2>7 DEF DecidedInv
<1> QED
  BY <1>3, <1>4 DEF Imports, Edits, Writes, StartsBoard, InitiativeActivates,
     InitiativeCloses, vars

LEMMA DecidedInvariant == Spec => []DecidedInv
<1>1. Init => DecidedInv
  <2> SUFFICES ASSUME Init PROVE DecidedInv
    OBVIOUS
  <2>1. Completed = {} /\ experiment = {} /\ Reviewed = {} /\ Applied = {}
    BY DEF Init, Completed, Reviewed, Applied, Absent
  <2>2. \A p \in Proc : Decided(cmd[p])
    BY IdleDecided DEF Init
  <2>3. AllOrNone
    BY <2>1, AllOrNoneSets
  <2> QED  BY <2>1, <2>2, <2>3 DEF DecidedInv, RecordsDecided, ExperimentsDecided
<1>2. TypeOK /\ CommandInv /\ DecidedInv /\ [Next]_vars => DecidedInv'
  <2> SUFFICES ASSUME TypeOK, CommandInv, DecidedInv, [Next]_vars PROVE DecidedInv'
    OBVIOUS
  <2>1. ASSUME NEW p \in Proc, CommandStep(p) \/ ApplyFails(p) \/ Stops(p)
        PROVE  DecidedInv'
    <3>1. CASE overlap'
      BY <3>1 DEF DecidedInv
    <3>2. CASE ~overlap'
      BY <2>1, <3>2, AskingKeeps, CreatingKeeps, WritingKeeps, RecordingKeeps,
         InsertKeeps, StopKeeps DEF CommandStep
    <3> QED  BY <3>1, <3>2
  <2> QED  BY <2>1, OthersKeep DEF Next
<1> QED  BY <1>1, <1>2, TypeCorrect, PTL DEF Spec

(* Between commands the reviewed candidates are those of the reviews whose *)
(* decisions were all written, for the candidates whose status the founder *)
(* leaves alone: a failed write is undone completely (_apply_atomically),  *)
(* whatever the founder does to other candidates meanwhile.                *)
THEOREM WholeReviews == Spec => []AllOrNone
<1>1. DecidedInv => AllOrNone
  BY DEF DecidedInv, AllOrNone
<1> QED  BY <1>1, DecidedInvariant, PTL

(* An experiment was selected by a completed review, under the id that the *)
(* result carries, and a candidate whose status the founder leaves alone   *)
(* has at most one, however often commands are killed and repeated.        *)
THEOREM OneExperiment == Spec => []ExperimentDecided
<1>1. DecidedInv => ExperimentDecided
  BY DEF DecidedInv, ExperimentsDecided, ExperimentDecided
<1> QED  BY <1>1, DecidedInvariant, PTL
=============================================================================
