------------------------------- MODULE MCTurns -------------------------------
(***************************************************************************)
(* The turn of a board member, a streamed message and a live research.     *)
(* The turn and the message each make their calls through LlmAccess. The   *)
(* three share no state, so a behaviour follows one of them and leaves the *)
(* others where they start.                                                *)
(***************************************************************************)
EXTENDS MemberTurn, MessageStream, LiveResearch

VARIABLE focus

MCKeys == {"zai", "moonshot", "deepseek", "dashscope", "gemini"}
MCSources == {<<>>, <<"academic">>, <<"major_news">>}
MCQuoted == {{}, {"SUPPORTED"}}

vars == <<focus, turnVars, llmVars, streamVars, researchVars>>

Init ==
  /\ focus \in {"turn", "message", "research"}
  /\ TurnInit /\ LlmInit /\ MessageInit /\ ResearchInit

OneTurn == focus = "turn" /\ TurnStep /\ UNCHANGED <<focus, streamVars, researchVars>>
OneMessage == focus = "message" /\ MessageStep /\ UNCHANGED <<focus, turnVars, researchVars>>
OneResearch ==
  focus = "research" /\ ResearchStep /\ UNCHANGED <<focus, turnVars, llmVars, streamVars>>

(* What no component has to do: the clock, one more delta, one more line.  *)
Environment ==
  \/ focus = "turn" /\ WallRunsOut /\ UNCHANGED <<focus, streamVars, researchVars>>
  \/ focus = "message" /\ WorkerSends /\ UNCHANGED <<focus, turnVars, researchVars>>
  \/ focus = "research" /\ FollowupTyped /\ UNCHANGED <<focus, turnVars, llmVars, streamVars>>

Next == OneTurn \/ OneMessage \/ OneResearch \/ Environment

(* Providers and tools answer or fail, and the event loop is fair. *)
Spec ==
  /\ Init /\ [][Next]_vars
  /\ WF_vars(OneTurn) /\ WF_vars(OneMessage) /\ WF_vars(OneResearch)

TypeOK == TurnTypeOK /\ LlmTypeOK /\ MessageTypeOK /\ ResearchTypeOK

(* A turn, a message and a research that is begun ends, whatever the       *)
(* providers answer: the retries, the fallbacks, the tool loop, the        *)
(* continuations and the follow-up rounds all run out.                     *)
TurnsEnd ==
  /\ focus = "turn" => <>(turn.pc \in {"complete", "aborted", "raised"})
  /\ focus = "message" => <>(msg.pc \in {"done", "failed"})
  /\ focus = "research" => <>(research.pc \in {"done", "failed"})
=============================================================================
