------------------------------- MODULE AgentRun -------------------------------
(***************************************************************************)
(* The agents of one run_task invocation (execution/runner.py): its        *)
(* sub-agents, started in chunks by asyncio.gather, then the manager's     *)
(* synthesis, each in a bounded tool-use loop (_run_agent_loop).           *)
(* DelegatedTasks sees this whole as the steps between RunReloads and      *)
(* RunSynthesisReturns.                                                    *)
(*                                                                         *)
(* gather without return_exceptions propagates the first exception at once *)
(* and leaves the other sub-agents of the chunk running on the event loop. *)
(***************************************************************************)
EXTENDS Integers, FiniteSets

CONSTANTS
  Subtask,       \* the subtasks of the plan
  Manager,       \* the loop that writes the synthesis
  HasTools,      \* the loops whose allowed tools are registered
  Chunk,         \* min(agent.max_parallel_subagents, budget.max_parallel_subagents)
  MaxTurns,      \* budget.max_turns
  MaxToolCalls,  \* budget.max_tool_calls
  MaxBatch       \* bound: tool calls in one response

Loop == Subtask \cup {Manager}

ASSUME AgentAssumption ==
  /\ Manager \notin Subtask
  /\ IsFiniteSet(Subtask)
  /\ HasTools \subseteq Loop
  /\ Chunk \in Nat \ {0}
  /\ MaxTurns \in Nat /\ MaxToolCalls \in Nat /\ MaxBatch \in Nat \ {0}

VARIABLES
  waiting,   \* subtasks of the chunks not yet started
  chunk,     \* subtasks of the chunk being gathered
  phase,     \* where run_task is
  loop       \* the state of each agent loop

vars == <<waiting, chunk, phase, loop>>

Phase == {"gather", "attach", "synth", "completed", "failed"}

(* "call" is inside query_llm, "tools" inside execute_tool. *)
LoopPC == {"idle", "ask", "call", "tools", "returned", "raised"}
LoopState == [pc       : LoopPC,
              turns    : 0..(MaxTurns + 1),    \* LLM calls that returned, no further
              used     : 0..MaxToolCalls,      \* tool_calls_used
              pending  : 0..MaxBatch,          \* tool calls left to answer
              terminal : BOOLEAN,              \* no_more_tools of the call
              late     : BOOLEAN]              \* wall_seconds_max has passed
NewLoop == [pc |-> "idle", turns |-> 0, used |-> 0, pending |-> 0,
            terminal |-> FALSE, late |-> FALSE]

TypeOK ==
  /\ waiting \subseteq Subtask
  /\ chunk \subseteq Subtask
  /\ phase \in Phase
  /\ loop \in [Loop -> LoopState]

Active(l) == loop[l].pc \in {"ask", "call", "tools"}

Init ==
  /\ waiting = Subtask
  /\ chunk = {}
  /\ phase = "gather"
  /\ loop = [l \in Loop |-> NewLoop]

-----------------------------------------------------------------------------
(* _run_agent_loop.                                                        *)

(* The wall clock reaches the loop's limit. *)
WallPasses(l) ==
  /\ Active(l)
  /\ ~loop[l].late
  /\ loop' = [loop EXCEPT ![l].late = TRUE]
  /\ UNCHANGED <<waiting, chunk, phase>>

(* Slip: only the wall clock ends a loop. *)
BudgetHitWall(l) == loop[l].late

(* Slip: the turn cap is off by one. *)
BudgetHitLate(l) ==
  loop[l].turns > MaxTurns \/ loop[l].used >= MaxToolCalls \/ loop[l].late

BudgetHit(l) ==
  loop[l].turns >= MaxTurns \/ loop[l].used >= MaxToolCalls \/ loop[l].late

(* The bounds are read once per turn; query_llm is awaited. *)
CallsModel(l) ==
  /\ loop[l].pc = "ask"
  /\ loop' = [loop EXCEPT ![l].pc = "call",
                          ![l].terminal = BudgetHit(l) \/ l \notin HasTools]
  /\ UNCHANGED <<waiting, chunk, phase>>

(* A response: prose, tool calls, or prose forced by tool_choice="none". *)
ModelAnswers(l) ==
  /\ loop[l].pc = "call"
  /\ \E n \in 0..MaxBatch :
       loop' = [loop EXCEPT
         ![l].turns = IF @ > MaxTurns THEN @ ELSE @ + 1,
         ![l].pc = IF loop[l].terminal \/ n = 0 THEN "returned" ELSE "tools",
         ![l].pending = IF loop[l].terminal THEN 0 ELSE n]
  /\ UNCHANGED <<waiting, chunk, phase>>

ModelRaises(l) ==
  /\ loop[l].pc = "call"
  /\ loop' = [loop EXCEPT ![l].pc = "raised"]
  /\ UNCHANGED <<waiting, chunk, phase>>

(* Slip: a batch is answered whatever the cap. *)
ToolRunsUncapped(l) ==
  /\ loop[l].pc = "tools"
  /\ loop[l].pending > 0
  /\ loop' = [loop EXCEPT ![l].used = @ + 1, ![l].pending = @ - 1]
  /\ UNCHANGED <<waiting, chunk, phase>>

(* execute_tool never raises; it is awaited, one call after the other. *)
ToolRuns(l) ==
  /\ loop[l].pc = "tools"
  /\ loop[l].pending > 0
  /\ loop[l].used < MaxToolCalls
  /\ loop' = [loop EXCEPT ![l].used = @ + 1, ![l].pending = @ - 1]
  /\ UNCHANGED <<waiting, chunk, phase>>

(* Answered with a placeholder. *)
ToolRefused(l) ==
  /\ loop[l].pc = "tools"
  /\ loop[l].pending > 0
  /\ loop[l].used >= MaxToolCalls
  /\ loop' = [loop EXCEPT ![l].pending = @ - 1]
  /\ UNCHANGED <<waiting, chunk, phase>>

NextTurn(l) ==
  /\ loop[l].pc = "tools"
  /\ loop[l].pending = 0
  /\ loop' = [loop EXCEPT ![l].pc = "ask"]
  /\ UNCHANGED <<waiting, chunk, phase>>

LoopStep(l) ==
  \/ CallsModel(l) \/ ModelAnswers(l) \/ ModelRaises(l)
  \/ ToolRuns(l) \/ ToolRefused(l) \/ NextTurn(l)

-----------------------------------------------------------------------------
(* run_task.                                                               *)

(* The next slice of the plan is gathered: its loops start. *)
ChunkStarts ==
  /\ phase = "gather"
  /\ chunk = {}
  /\ waiting # {}
  /\ \E c \in SUBSET waiting :
       /\ Cardinality(c) = (IF Cardinality(waiting) < Chunk
                            THEN Cardinality(waiting) ELSE Chunk)
       /\ chunk' = c
       /\ waiting' = waiting \ c
       /\ loop' = [l \in Loop |-> IF l \in c THEN [NewLoop EXCEPT !.pc = "ask"]
                                  ELSE loop[l]]
  /\ UNCHANGED phase

(* Slip: the first sub-agent to return ends the chunk. *)
ChunkReturnsFirst ==
  /\ chunk # {}
  /\ phase = "gather"
  /\ \E l \in chunk : loop[l].pc = "returned"
  /\ chunk' = {}
  /\ UNCHANGED <<waiting, phase, loop>>

ChunkReturns ==
  /\ chunk # {}
  /\ phase = "gather"
  /\ \A l \in chunk : loop[l].pc = "returned"
  /\ chunk' = {}
  /\ UNCHANGED <<waiting, phase, loop>>

(* gather propagates the first exception; run_task blocks the task. *)
ChunkFails ==
  /\ phase = "gather"
  /\ \E l \in chunk : loop[l].pc = "raised"
  /\ phase' = "failed"
  /\ UNCHANGED <<waiting, chunk, loop>>

(* The outputs are written and attached, or an attachment fails. *)
OutputsAttached ==
  /\ phase = "gather"
  /\ chunk = {} /\ waiting = {}
  /\ phase' \in {"attach", "failed"}
  /\ UNCHANGED <<waiting, chunk, loop>>

SynthesisStarts ==
  /\ phase = "attach"
  /\ phase' = "synth"
  /\ loop' = [loop EXCEPT ![Manager] = [NewLoop EXCEPT !.pc = "ask"]]
  /\ UNCHANGED <<waiting, chunk>>

SynthesisEnds ==
  /\ phase = "synth"
  /\ \/ loop[Manager].pc = "returned" /\ phase' \in {"completed", "failed"}
     \/ loop[Manager].pc = "raised" /\ phase' = "failed"
  /\ UNCHANGED <<waiting, chunk, loop>>

RunStep ==
  \/ ChunkStarts \/ ChunkReturns \/ ChunkFails
  \/ OutputsAttached \/ SynthesisStarts \/ SynthesisEnds

Next == RunStep \/ \E l \in Loop : LoopStep(l) \/ WallPasses(l)

Spec == Init /\ [][Next]_vars

(* Provider calls and tools return or raise, and the event loop is fair. *)
FairSpec == Spec /\ WF_vars(RunStep) /\ \A l \in Loop : WF_vars(LoopStep(l))

-----------------------------------------------------------------------------
(* Properties.                                                             *)

(* A run completes only with every loop of the plan at its natural end:    *)
(* no sub-agent of a completed run is still spending.                      *)
CompletedIsQuiet ==
  phase = "completed" => \A l \in Loop : loop[l].pc = "returned"

(* The hard bounds of RunnerBudget.  A run talks to providers with at most *)
(* max_parallel_subagents loops, those that a failed gather left behind    *)
(* included.  A loop may pass the turn cap by the terminal call alone, and *)
(* that call can only end the loop.                                        *)
AgentBounds ==
  /\ Cardinality({l \in Loop : Active(l)}) <= Chunk
  /\ \A l \in Loop :
       /\ loop[l].turns > MaxTurns => loop[l].terminal /\ loop[l].pc = "returned"
       /\ loop[l].used = MaxToolCalls /\ loop[l].pc = "call" => loop[l].terminal

(* Every agent loop ends, those of a failed run included: no budget keeps  *)
(* asking for one more call (runner.py:7 "can NEVER infinite-loop").       *)
AgentsEnd ==
  /\ <>(phase \in {"completed", "failed"})
  /\ <>[](\A l \in Loop : ~Active(l))

=============================================================================
