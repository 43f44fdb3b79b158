---------------------------- MODULE AgentRun_proofs ----------------------------
(***************************************************************************)
(* The budgets of the agent loops of a run, and that a completed run is    *)
(* quiet, for every plan, chunk size and budget.                           *)
(***************************************************************************)
EXTENDS AgentRun, FiniteSetTheorems, TLAPS

(* A loop passes the turn cap only by a terminal call, because the call    *)
(* that is not terminal was made below both caps.                          *)
BudgetInv(l) ==
  /\ loop[l].turns > MaxTurns => loop[l].terminal /\ loop[l].pc = "returned"
  /\ loop[l].pc = "call" /\ ~loop[l].terminal =>
       loop[l].turns < MaxTurns /\ loop[l].used < MaxToolCalls

(* What runs is of the chunk, or is the synthesis after every sub-agent    *)
(* has returned.                                                           *)
PhaseInv ==
  /\ Cardinality(chunk) <= Chunk
  /\ phase # "synth" => \A l \in Loop : Active(l) => l \in chunk
  /\ phase = "gather" =>
       \A l \in Subtask : l \in waiting \/ l \in chunk \/ loop[l].pc = "returned"
  /\ phase \in {"attach", "synth"} => \A l \in Subtask : loop[l].pc = "returned"
  /\ CompletedIsQuiet

AgentInv == TypeOK /\ PhaseInv /\ \A l \in Loop : BudgetInv(l)

LEMMA AgentInvInit == Init => AgentInv
<1> SUFFICES ASSUME Init PROVE AgentInv
  OBVIOUS
<1> USE AgentAssumption
<1>1. NewLoop \in LoopState
  BY DEF NewLoop, LoopState, LoopPC
<1>2. TypeOK
  BY <1>1 DEF Init, TypeOK, Phase
<1>3. Cardinality({}) = 0
  BY FS_EmptySet
<1>4. PhaseInv
  BY <1>3 DEF Init, PhaseInv, CompletedIsQuiet, Active, NewLoop
<1>5. \A l \in Loop : BudgetInv(l)
  BY DEF Init, BudgetInv, NewLoop
<1> QED  BY <1>2, <1>4, <1>5 DEF AgentInv

(* What the steps of a loop write to its state. *)
LEMMA PcSet ==
  ASSUME NEW s \in LoopState, NEW p \in LoopPC
  PROVE  /\ [s EXCEPT !.pc = p] \in LoopState
         /\ [s EXCEPT !.pc = p].pc = p
         /\ [s EXCEPT !.pc = p].turns = s.turns
BY DEF LoopState

LEMMA LateSet ==
  ASSUME NEW s \in LoopState
  PROVE  /\ [s EXCEPT !.late = TRUE] \in LoopState
         /\ [s EXCEPT !.late = TRUE].pc = s.pc
         /\ [s EXCEPT !.late = TRUE].turns = s.turns
         /\ [s EXCEPT !.late = TRUE].used = s.used
         /\ [s EXCEPT !.late = TRUE].terminal = s.terminal
BY DEF LoopState

AfterCall(s, b) == [s EXCEPT !.pc = "call", !.terminal = b]
AfterAnswer(s, t, p, n) == [s EXCEPT !.turns = t, !.pc = p, !.pending = n]

LEMMA CallSet ==
  ASSUME NEW s \in LoopState, NEW b \in BOOLEAN
  PROVE  /\ AfterCall(s, b) \in LoopState
         /\ AfterCall(s, b).pc = "call" /\ AfterCall(s, b).terminal = b
         /\ AfterCall(s, b).turns = s.turns /\ AfterCall(s, b).used = s.used
BY DEF AfterCall, LoopState, LoopPC

LEMMA AnswerSet ==
  ASSUME NEW s \in LoopState, NEW t \in 0..(MaxTurns + 1), NEW p \in LoopPC,
         NEW n \in 0..MaxBatch
  PROVE  /\ AfterAnswer(s, t, p, n) \in LoopState
         /\ AfterAnswer(s, t, p, n).pc = p /\ AfterAnswer(s, t, p, n).turns = t
         /\ AfterAnswer(s, t, p, n).terminal = s.terminal
BY DEF AfterAnswer, LoopState

LEMMA ToolSet ==
  ASSUME NEW s \in LoopState, NEW u \in 0..MaxToolCalls, NEW n \in 0..MaxBatch
  PROVE  /\ [s EXCEPT !.used = u, !.pending = n] \in LoopState
         /\ [s EXCEPT !.used = u, !.pending = n].pc = s.pc
         /\ [s EXCEPT !.used = u, !.pending = n].turns = s.turns
BY DEF LoopState

(* A step of one loop. *)
LEMMA LoopKeeps ==
  ASSUME AgentInv, NEW l \in Loop, LoopStep(l) \/ WallPasses(l)
  PROVE  AgentInv'
<1> USE AgentAssumption
<1>1. Active(l) /\ UNCHANGED <<waiting, chunk, phase>>
  BY DEF LoopStep, WallPasses, Active, CallsModel, ModelAnswers, ModelRaises, ToolRuns,
         ToolRefused, NextTurn
<1>2. loop[l] \in LoopState /\ BudgetInv(l)
  BY DEF AgentInv, TypeOK
<1>3. \E s \in LoopState :
        /\ loop' = [loop EXCEPT ![l] = s]
        /\ s.turns > MaxTurns => s.terminal /\ s.pc = "returned"
        /\ s.pc = "call" /\ ~s.terminal => s.turns < MaxTurns /\ s.used < MaxToolCalls
  <2>1. CASE WallPasses(l)
    <3> DEFINE s == [loop[l] EXCEPT !.late = TRUE]
    <3>1. loop' = [loop EXCEPT ![l] = s]
      BY <2>1 DEF WallPasses, AgentInv, TypeOK
    <3>2. /\ s \in LoopState /\ s.pc = loop[l].pc /\ s.turns = loop[l].turns
          /\ s.used = loop[l].used /\ s.terminal = loop[l].terminal
      BY <1>2, LateSet
    <3> HIDE DEF s
    <3> QED  BY <1>2, <3>1, <3>2 DEF BudgetInv
  <2>2. CASE CallsModel(l)
    <3> DEFINE s == [loop[l] EXCEPT !.pc = "call", !.terminal = BudgetHit(l) \/ l \notin HasTools]
    <3>1. loop' = [loop EXCEPT ![l] = s] /\ loop[l].pc = "ask"
      BY <2>2 DEF CallsModel, AgentInv, TypeOK
    <3>2. BudgetHit(l) \in BOOLEAN /\ (BudgetHit(l) \/ l \notin HasTools) \in BOOLEAN
      BY <1>2 DEF BudgetHit, LoopState
    <3>3. /\ s \in LoopState /\ s.turns = loop[l].turns /\ s.used = loop[l].used
          /\ s.pc = "call" /\ s.terminal = (BudgetHit(l) \/ l \notin HasTools)
      <4> DEFINE b == BudgetHit(l) \/ l \notin HasTools
      <4>1. b \in BOOLEAN /\ s = AfterCall(loop[l], b)
        BY <3>2 DEF AfterCall
      <4> HIDE DEF s, b
      <4>2. /\ s \in LoopState /\ s.turns = loop[l].turns /\ s.used = loop[l].used
            /\ s.pc = "call" /\ s.terminal = b
        BY <1>2, <4>1, CallSet, Zenon
      <4> QED  BY <4>2, Zenon DEF b
    <3>4. /\ loop[l].turns \in Nat /\ loop[l].used \in 0..MaxToolCalls
          /\ ~(loop[l].turns > MaxTurns)
      BY <1>2, <3>1 DEF LoopState, BudgetInv
    <3>5. ~BudgetHit(l) => loop[l].turns < MaxTurns /\ loop[l].used < MaxToolCalls
      BY <3>4 DEF BudgetHit
    <3> HIDE DEF s
    <3>6. ~s.terminal => ~BudgetHit(l)
      BY <3>3, Zenon
    <3>7. ~(s.turns > MaxTurns) /\ (~s.terminal => s.turns < MaxTurns /\ s.used < MaxToolCalls)
      BY <3>3, <3>4, <3>5, <3>6
    <3> QED  BY <3>1, <3>3, <3>7, Zenon
  <2>3. CASE ModelAnswers(l)
    <3>1. PICK n \in 0..MaxBatch :
            loop' = [loop EXCEPT
              ![l].turns = IF @ > MaxTurns THEN @ ELSE @ + 1,
              ![l].pc = IF loop[l].terminal \/ n = 0 THEN "returned" ELSE "tools",
              ![l].pending = IF loop[l].terminal THEN 0 ELSE n]
      BY <2>3 DEF ModelAnswers
    <3> DEFINE s == [loop[l] EXCEPT
                       !.turns = IF @ > MaxTurns THEN @ ELSE @ + 1,
                       !.pc = IF loop[l].terminal \/ n = 0 THEN "returned" ELSE "tools",
                       !.pending = IF loop[l].terminal THEN 0 ELSE n]
    <3>2. loop' = [loop EXCEPT ![l] = s] /\ loop[l].pc = "call"
      BY <2>3, <3>1 DEF ModelAnswers, AgentInv, TypeOK
    <3>3. loop[l].turns \in 0..(MaxTurns + 1) /\ loop[l].turns <= MaxTurns
          /\ (~loop[l].terminal => loop[l].turns < MaxTurns)
      BY <1>2, <3>2 DEF LoopState, BudgetInv
    <3>4. /\ s \in LoopState /\ s.turns = loop[l].turns + 1 /\ s.terminal = loop[l].terminal
          /\ s.pc \in {"returned", "tools"} /\ (loop[l].terminal => s.pc = "returned")
      <4> DEFINE t == IF loop[l].turns > MaxTurns THEN loop[l].turns ELSE loop[l].turns + 1
                 p == IF loop[l].terminal \/ n = 0 THEN "returned" ELSE "tools"
                 k == IF loop[l].terminal THEN 0 ELSE n
      <4>1. t = loop[l].turns + 1 /\ t \in 0..(MaxTurns + 1)
        BY <3>3
      <4>2. p \in LoopPC /\ p \in {"returned", "tools"} /\ (loop[l].terminal => p = "returned")
        BY DEF LoopPC
      <4>3. k \in 0..MaxBatch
        OBVIOUS
      <4>4. s = AfterAnswer(loop[l], t, p, k)
        BY DEF AfterAnswer
      <4> HIDE DEF s, t, p, k
      <4>5. s \in LoopState /\ s.pc = p /\ s.turns = t /\ s.terminal = loop[l].terminal
        <5>1. loop[l] \in LoopState /\ t \in 0..(MaxTurns + 1) /\ p \in LoopPC
              /\ k \in 0..MaxBatch
          BY <1>2, <4>1, <4>2, <4>3
        <5> QED  BY <4>4, <5>1, AnswerSet
      <4> QED  BY <4>1, <4>2, <4>5, Zenon
    <3> HIDE DEF s
    <3>5. s.turns > MaxTurns => s.terminal /\ s.pc = "returned"
      <4>1. CASE loop[l].terminal
        BY <3>4, <4>1
      <4>2. CASE ~loop[l].terminal
        BY <3>3, <3>4, <4>2
      <4> QED  BY <4>1, <4>2
    <3>6. s.pc # "call"
      BY <3>4
    <3> QED  BY <3>2, <3>4, <3>5, <3>6, Zenon
  <2>4. CASE ModelRaises(l) \/ NextTurn(l)
    <3> DEFINE s == [loop[l] EXCEPT !.pc = IF ModelRaises(l) THEN "raised" ELSE "ask"]
    <3>1. loop' = [loop EXCEPT ![l] = s] /\ loop[l].pc \in {"call", "tools"}
      BY <2>4 DEF ModelRaises, NextTurn, AgentInv, TypeOK
    <3>2. s \in LoopState /\ s.turns = loop[l].turns /\ s.pc \in {"raised", "ask"}
      <4> DEFINE p == IF ModelRaises(l) THEN "raised" ELSE "ask"
      <4>1. p \in LoopPC /\ p \in {"raised", "ask"}
        BY DEF LoopPC
      <4>2. s = [loop[l] EXCEPT !.pc = p]
        OBVIOUS
      <4> HIDE DEF s, p
      <4> QED  BY <1>2, <4>1, <4>2, PcSet, ZenonT(30)
    <3> HIDE DEF s
    <3> QED  BY <1>2, <3>1, <3>2 DEF BudgetInv
  <2>5. CASE ToolRuns(l) \/ ToolRefused(l)
    <3> DEFINE s == [loop[l] EXCEPT !.used = IF ToolRuns(l) THEN @ + 1 ELSE @, !.pending = @ - 1]
    <3>1. /\ loop' = [loop EXCEPT ![l] = s] /\ loop[l].pc = "tools" /\ loop[l].pending > 0
          /\ ToolRuns(l) => loop[l].used < MaxToolCalls
      <4>1. CASE ToolRuns(l)
        BY <4>1 DEF ToolRuns, AgentInv, TypeOK
      <4>2. CASE ~ToolRuns(l)
        <5>1. loop[l].used = loop[l].used
          OBVIOUS
        <5>2. s = [loop[l] EXCEPT !.pending = @ - 1]
          BY <1>2, <4>2 DEF LoopState
        <5>3. loop' = [loop EXCEPT ![l].pending = @ - 1] /\ loop[l].pc = "tools"
              /\ loop[l].pending > 0
          BY <2>5, <4>2 DEF ToolRefused
        <5> QED  BY <4>2, <5>2, <5>3 DEF AgentInv, TypeOK
      <4> QED  BY <4>1, <4>2
    <3>2. s \in LoopState /\ s.turns = loop[l].turns /\ s.pc = "tools"
      <4> DEFINE u == IF ToolRuns(l) THEN loop[l].used + 1 ELSE loop[l].used
                 k == loop[l].pending - 1
      <4>1. loop[l].used \in 0..MaxToolCalls /\ loop[l].pending \in 0..MaxBatch
        BY <1>2 DEF LoopState
      <4>2. u \in 0..MaxToolCalls /\ k \in 0..MaxBatch
        BY <3>1, <4>1
      <4>3. s = [loop[l] EXCEPT !.used = u, !.pending = k]
        OBVIOUS
      <4> HIDE DEF s, u, k
      <4> QED  BY <1>2, <3>1, <4>2, <4>3, ToolSet, ZenonT(30)
    <3> HIDE DEF s
    <3> QED  BY <1>2, <3>1, <3>2 DEF BudgetInv
  <2> QED  BY <2>1, <2>2, <2>3, <2>4, <2>5 DEF LoopStep
<1>4. PICK s \in LoopState :
        /\ loop' = [loop EXCEPT ![l] = s]
        /\ s.turns > MaxTurns => s.terminal /\ s.pc = "returned"
        /\ s.pc = "call" /\ ~s.terminal => s.turns < MaxTurns /\ s.used < MaxToolCalls
  BY <1>3
<1>5. TypeOK'
  BY <1>1, <1>4 DEF AgentInv, TypeOK
<1>6. \A m \in Loop : m # l => loop'[m] = loop[m]
  BY <1>4 DEF AgentInv, TypeOK
<1>7. \A m \in Loop : BudgetInv(m)'
  BY <1>4, <1>6 DEF AgentInv, TypeOK, BudgetInv
<1>8. PhaseInv'
  BY <1>1, <1>6 DEF AgentInv, PhaseInv, CompletedIsQuiet, Active, Loop
<1> QED  BY <1>5, <1>7, <1>8 DEF AgentInv

(* A step of run_task. *)
LEMMA RunKeeps ==
  ASSUME AgentInv, RunStep
  PROVE  AgentInv'
<1> USE AgentAssumption
<1>1. [NewLoop EXCEPT !.pc = "ask"] \in LoopState
      /\ [NewLoop EXCEPT !.pc = "ask"].turns = 0 /\ [NewLoop EXCEPT !.pc = "ask"].pc = "ask"
  <2>1. NewLoop \in LoopState /\ NewLoop.turns = 0 /\ "ask" \in LoopPC
    BY DEF NewLoop, LoopState, LoopPC
  <2> QED  BY <2>1, PcSet
<1>2. CASE ChunkStarts
  <2>1. PICK c \in SUBSET waiting :
          /\ Cardinality(c) = (IF Cardinality(waiting) < Chunk
                               THEN Cardinality(waiting) ELSE Chunk)
          /\ chunk' = c /\ waiting' = waiting \ c
          /\ loop' = [l \in Loop |-> IF l \in c THEN [NewLoop EXCEPT !.pc = "ask"]
                                     ELSE loop[l]]
    BY <1>2 DEF ChunkStarts
  <2>2. IsFiniteSet(waiting) /\ Cardinality(waiting) \in Nat
    BY FS_Subset, FS_CardinalityType DEF AgentInv, TypeOK
  <2>3. Cardinality(chunk') <= Chunk
    BY <2>1, <2>2
  <2>4. TypeOK'
    BY <1>1, <1>2, <2>1 DEF ChunkStarts, AgentInv, TypeOK
  <2>5. \A l \in Loop : ~Active(l) /\ BudgetInv(l)
    BY <1>2 DEF ChunkStarts, AgentInv, PhaseInv
  <2>6. \A l \in Loop : BudgetInv(l)'
    BY <1>1, <2>1, <2>5 DEF BudgetInv
  <2>7. phase = "gather" /\ phase' = "gather" /\ chunk = {}
    BY <1>2 DEF ChunkStarts
  <2>8. PhaseInv'
    BY <2>1, <2>3, <2>5, <2>7 DEF AgentInv, PhaseInv, CompletedIsQuiet, Active, Loop
  <2> QED  BY <2>4, <2>6, <2>8 DEF AgentInv
<1>3. CASE ChunkReturns
  <2>1. Cardinality({}) = 0
    BY FS_EmptySet
  <2> QED  BY <1>3, <2>1 DEF ChunkReturns, AgentInv, TypeOK, PhaseInv, CompletedIsQuiet,
                             Active, BudgetInv
<1>4. CASE ChunkFails
  BY <1>4 DEF ChunkFails, AgentInv, TypeOK, PhaseInv, CompletedIsQuiet, Active, BudgetInv, Phase
<1>5. CASE OutputsAttached
  BY <1>5 DEF OutputsAttached, AgentInv, TypeOK, PhaseInv, CompletedIsQuiet, Active, BudgetInv, Phase
<1>6. CASE SynthesisStarts
  <2>1. /\ phase = "attach" /\ phase' = "synth" /\ UNCHANGED <<waiting, chunk>>
        /\ loop' = [loop EXCEPT ![Manager] = [NewLoop EXCEPT !.pc = "ask"]]
    BY <1>6 DEF SynthesisStarts
  <2>2. TypeOK'
    BY <1>1, <2>1 DEF AgentInv, TypeOK, Phase
  <2>3. \A l \in Subtask : loop'[l] = loop[l]
    BY <2>1 DEF AgentInv, TypeOK, Loop
  <2>4. \A l \in Loop : BudgetInv(l)'
    BY <1>1, <2>1 DEF AgentInv, TypeOK, BudgetInv
  <2>5. PhaseInv'
    BY <2>1, <2>3 DEF AgentInv, PhaseInv, CompletedIsQuiet
  <2> QED  BY <2>2, <2>4, <2>5 DEF AgentInv
<1>7. CASE SynthesisEnds
  <2>1. /\ phase = "synth" /\ phase' \in {"completed", "failed"}
        /\ loop[Manager].pc \in {"returned", "raised"}
        /\ phase' = "completed" => loop[Manager].pc = "returned"
        /\ UNCHANGED <<waiting, chunk, loop>>
    BY <1>7 DEF SynthesisEnds
  <2>2. \A l \in Loop : ~Active(l) /\ (l # Manager => loop[l].pc = "returned")
    BY <2>1 DEF AgentInv, PhaseInv, Active, Loop
  <2>3. TypeOK' /\ \A l \in Loop : BudgetInv(l)'
    BY <2>1 DEF AgentInv, TypeOK, BudgetInv, Phase
  <2>4. PhaseInv'
    BY <2>1, <2>2 DEF AgentInv, PhaseInv, CompletedIsQuiet, Active
  <2> QED  BY <2>3, <2>4 DEF AgentInv
<1> QED  BY <1>2, <1>3, <1>4, <1>5, <1>6, <1>7 DEF RunStep

LEMMA AgentStep == AgentInv /\ [Next]_vars => AgentInv'
<1>1. CASE UNCHANGED vars
  BY <1>1 DEF vars, AgentInv, TypeOK, PhaseInv, CompletedIsQuiet, Active, BudgetInv
<1>2. AgentInv /\ Next => AgentInv'
  BY LoopKeeps, RunKeeps DEF Next
<1> QED  BY <1>1, <1>2

(* The inductive invariant holds in every reachable state. *)
THEOREM AgentInvariant == Spec => []AgentInv
BY AgentInvInit, AgentStep, PTL DEF Spec

(* Every reachable state is typed. *)
THEOREM TypeCorrect == Spec => []TypeOK
<1>1. AgentInv => TypeOK
  BY DEF AgentInv
<1> QED  BY <1>1, AgentInvariant, PTL

(* A run completes only with every loop of its plan at its natural end.    *)
THEOREM QuietCompletion == Spec => []CompletedIsQuiet
<1>1. AgentInv => CompletedIsQuiet
  BY DEF AgentInv, PhaseInv
<1> QED  BY <1>1, AgentInvariant, PTL

(* At most max_parallel_subagents loops run, those a failed gather left    *)
(* behind included, and each passes the turn cap by its terminal call only. *)
THEOREM AgentLimits == Spec => []AgentBounds
<1>1. AgentInv => AgentBounds
  <2> SUFFICES ASSUME AgentInv PROVE AgentBounds
    OBVIOUS
  <2> USE AgentAssumption
  <2>1. Cardinality({l \in Loop : Active(l)}) <= Chunk
    <3> DEFINE A == {l \in Loop : Active(l)}
    <3>1. CASE phase # "synth"
      <4>1. A \subseteq chunk /\ Cardinality(chunk) <= Chunk /\ IsFiniteSet(chunk)
        BY <3>1, FS_Subset DEF AgentInv, PhaseInv, TypeOK
      <4> QED  BY <4>1, FS_Subset, FS_CardinalityType
    <3>2. CASE phase = "synth"
      <4>1. A \subseteq {Manager}
        BY <3>2 DEF AgentInv, PhaseInv, Active, Loop
      <4>2. IsFiniteSet({Manager}) /\ Cardinality({Manager}) = 1
        BY FS_Singleton
      <4>3. Cardinality(A) <= 1 /\ Cardinality(A) \in Nat
        BY <4>1, <4>2, FS_Subset, FS_CardinalityType
      <4> QED  BY <4>3
    <3> QED  BY <3>1, <3>2
  <2>2. ASSUME NEW l \in Loop
        PROVE  /\ loop[l].turns > MaxTurns => loop[l].terminal /\ loop[l].pc = "returned"
               /\ loop[l].used = MaxToolCalls /\ loop[l].pc = "call" => loop[l].terminal
    BY DEF AgentInv, BudgetInv
  <2> QED  BY <2>1, <2>2 DEF AgentBounds
<1> QED  BY <1>1, AgentInvariant, PTL
================================================================================
