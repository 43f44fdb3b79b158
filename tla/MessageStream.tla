---------------------------- MODULE MessageStream ----------------------------
(***************************************************************************)
(* One streamed message of a live board meeting: query_llm_stream          *)
(* (board/llm.py) with its worker thread and its queue, the fallback to    *)
(* the simulated stream of a whole answer, and the two readers of the      *)
(* stream in deliberation/live.py: a member's message, which is continued  *)
(* when the provider cuts it, and the secretary's brief.                   *)
(*                                                                         *)
(* A text is the sequence of the attempts its deltas came from: attempt 2c *)
(* is the native stream of continuation c, attempt 2c + 1 the answer that  *)
(* replaced it.                                                            *)
(***************************************************************************)
EXTENDS LlmAccess, SequencesExt

CONSTANTS
  Speaker,          \* bound: the prefixes a message's model may have
  MaxDelta,         \* bound: deltas of one attempt
  MaxContinuations  \* AGENTIC_BOARD_LIVE_MAX_CONTINUATIONS

ASSUME StreamAssumption ==
  /\ Speaker \subseteq Prefix
  /\ MaxDelta \in Nat \ {0} /\ MaxContinuations \in Nat

(* A native stream needs its provider's key before anything is sent. *)
_stream_deepseek == "deepseek" \in Keys
_stream_kimi == "moonshot" \in Keys
_STREAM_HANDLERS(model) ==
  CASE model = "deepseek" -> _stream_deepseek
    [] model = "kimi"     -> _stream_kimi
    [] OTHER              -> FALSE

VARIABLES
  msg,       \* the message
  thread,    \* the worker of _stream_openai_compatible
  queue,     \* its asyncio.Queue
  shown      \* the text of the last event about the message

streamVars == <<msg, thread, queue, shown>>

Attempts == 0..(2 * MaxContinuations + 1)

MsgPC == {"off", "open", "native", "answer", "simulated", "ended", "done", "failed"}
MsgState == [pc       : MsgPC,
             kind     : {"member", "brief"},
             model    : Prefix,
             conts    : 0..MaxContinuations,   \* continuation_count
             existing : Seq(Attempts),         \* existing_content
             local    : Seq(Attempts),         \* local_content
             left     : 0..MaxDelta,           \* simulated deltas to come
             size     : 0..MaxDelta,           \* deltas of the whole answer
             cut      : BOOLEAN]               \* finish_reason says "length"

MessageTypeOK ==
  /\ msg \in MsgState
  /\ thread \in [at : {"off", "running", "ended"}, sent : 0..MaxDelta]
  /\ queue \in Seq({"delta", "done", "error"})
  /\ shown \in Seq(Attempts)

MessageInit ==
  /\ msg = [pc |-> "off", kind |-> "member", model |-> "kimi", conts |-> 0,
            existing |-> <<>>, local |-> <<>>, left |-> 0, size |-> 0, cut |-> FALSE]
  /\ thread = [at |-> "off", sent |-> 0]
  /\ queue = <<>>
  /\ shown = <<>>

Copies(a, n) == [i \in 1..n |-> a]
Native == 2 * msg.conts
Answer == 2 * msg.conts + 1

-----------------------------------------------------------------------------
(* The worker thread: it hands every chunk to the event loop in order.     *)

WorkerSends ==
  /\ thread.at = "running"
  /\ thread.sent < MaxDelta
  /\ thread' = [thread EXCEPT !.sent = @ + 1]
  /\ queue' = Append(queue, "delta")
  /\ UNCHANGED <<msg, shown, llmVars>>

WorkerEnds ==
  /\ thread.at = "running"
  /\ \E last \in {"done", "error"} : queue' = Append(queue, last)
  /\ thread' = [thread EXCEPT !.at = "ended"]
  /\ UNCHANGED <<msg, shown, llmVars>>

-----------------------------------------------------------------------------
(* query_llm_stream.                                                       *)

(* message_start or secretary_starting. *)
MessageStarts ==
  /\ msg.pc = "off"
  /\ \E k \in {"member", "brief"}, p \in Speaker :
       msg' = [msg EXCEPT !.pc = "open", !.kind = k, !.model = p]
  /\ UNCHANGED <<thread, queue, shown, llmVars>>

(* A provider with a stream handler and a key is streamed natively; the    *)
(* rest, and a handler that fails before it sends, are asked in one piece. *)
MessageOpens ==
  /\ msg.pc = "open"
  /\ IF _STREAM_HANDLERS(msg.model)
     THEN /\ msg' = [msg EXCEPT !.pc = "native"]
          /\ thread' = [at |-> "running", sent |-> 0]
          /\ UNCHANGED llmVars
     ELSE /\ msg' = [msg EXCEPT !.pc = "answer"]
          /\ LlmCall(msg.model, FALSE)
          /\ UNCHANGED thread
  /\ UNCHANGED <<queue, shown>>

(* What a reader makes of a delta of attempt a: a member's message takes   *)
(* the chunk's cumulative content, the brief appends the delta.            *)
AfterDelta(a, n) ==
  IF msg.kind = "member" THEN Copies(a, n) ELSE Append(msg.local, a)

NativeDelta ==
  /\ msg.pc = "native"
  /\ queue # <<>> /\ Head(queue) = "delta"
  /\ queue' = Tail(queue)
  /\ LET n == thread.sent - Cardinality({k \in 2..Len(queue) : queue[k] = "delta"})
     IN /\ msg' = [msg EXCEPT !.local = AfterDelta(Native, n)]
        /\ shown' = msg.existing \o AfterDelta(Native, n)
  /\ UNCHANGED <<thread, llmVars>>

(* Slip: the text collected so far is preferred to the final chunk's. *)
FinalKeepsLocal(a, n) == IF msg.local # <<>> THEN msg.local ELSE Copies(a, n)

(* local_content = chunk.content or local_content. *)
FinalText(a, n) == IF n > 0 THEN Copies(a, n) ELSE msg.local

NativeDone ==
  /\ msg.pc = "native"
  /\ queue # <<>> /\ Head(queue) = "done"
  /\ queue' = Tail(queue)
  /\ \E cut \in BOOLEAN :
       msg' = [msg EXCEPT !.pc = "ended", !.cut = cut,
                          !.local = FinalText(Native, thread.sent)]
  /\ UNCHANGED <<thread, shown, llmVars>>

(* The stream breaks, after any number of deltas: the whole request is     *)
(* repeated through query_llm.                                             *)
NativeFails ==
  /\ msg.pc = "native"
  /\ queue # <<>> /\ Head(queue) = "error"
  /\ queue' = Tail(queue)
  /\ msg' = [msg EXCEPT !.pc = "answer"]
  /\ LlmCall(msg.model, FALSE)
  /\ UNCHANGED <<thread, shown>>

StreamLlmWorks == msg.pc = "answer" /\ LlmStep /\ UNCHANGED streamVars

(* An empty answer has no deltas. *)
AnswerArrives ==
  /\ msg.pc = "answer"
  /\ llm = "answered"
  /\ \E n \in 0..MaxDelta : msg' = [msg EXCEPT !.pc = "simulated", !.left = n, !.size = n]
  /\ UNCHANGED <<thread, queue, shown, llmVars>>

SimulatedDelta ==
  /\ msg.pc = "simulated"
  /\ msg.left > 0
  /\ LET text == AfterDelta(Answer, msg.size - msg.left + 1)
     IN /\ msg' = [msg EXCEPT !.left = @ - 1, !.local = text]
        /\ shown' = msg.existing \o text
  /\ UNCHANGED <<thread, queue, llmVars>>

SimulatedDone ==
  /\ msg.pc = "simulated"
  /\ msg.left = 0
  /\ \E cut \in BOOLEAN :
       msg' = [msg EXCEPT !.pc = "ended", !.cut = cut,
                          !.local = FinalText(Answer, msg.size)]
  /\ UNCHANGED <<thread, queue, shown, llmVars>>

(* query_llm raises: a member's message takes the discussion with it, the  *)
(* brief is reported as secretary_failed.                                  *)
AnswerRaises ==
  /\ msg.pc = "answer"
  /\ llm = "raised"
  /\ msg' = [msg EXCEPT !.pc = "failed"]
  /\ UNCHANGED <<thread, queue, shown, llmVars>>

-----------------------------------------------------------------------------
(* _stream_member_message and _produce_live_secretary_brief.               *)

_needs_stream_continuation == msg.kind = "member" /\ msg.cut

MessageContinues ==
  /\ msg.pc = "ended"
  /\ _needs_stream_continuation
  /\ msg.conts < MaxContinuations
  /\ msg' = [msg EXCEPT !.pc = "open", !.conts = @ + 1,
                        !.existing = msg.existing \o msg.local, !.local = <<>>]
  /\ UNCHANGED <<thread, queue, shown, llmVars>>

(* message_done, secretary_done: the event carries the whole text. *)
MessageDone ==
  /\ msg.pc = "ended"
  /\ ~(_needs_stream_continuation /\ msg.conts < MaxContinuations)
  /\ msg' = [msg EXCEPT !.pc = "done"]
  /\ shown' = msg.existing \o msg.local
  /\ UNCHANGED <<thread, queue, llmVars>>

MessageStep ==
  \/ WorkerEnds \/ MessageStarts \/ MessageOpens \/ NativeDelta \/ NativeDone \/ NativeFails
  \/ StreamLlmWorks \/ AnswerArrives \/ SimulatedDelta \/ SimulatedDone
  \/ AnswerRaises \/ MessageContinues \/ MessageDone

-----------------------------------------------------------------------------
(* Properties.                                                             *)

(* Text t holds deltas of both attempts of some continuation, or has them  *)
(* out of order.                                                           *)
Mixed(t) ==
  \/ \E c \in 0..MaxContinuations : {2 * c, 2 * c + 1} \subseteq ToSet(t)
  \/ \E i, j \in DOMAIN t : i < j /\ t[i] > t[j]

(* A message that is over shows each part of its text from one attempt     *)
(* only, although a native stream may break after it showed a piece and be *)
(* repeated from the start; a member's message never shows anything else   *)
(* on the way there either.                                                *)
NoMixing == msg.kind = "member" \/ msg.pc = "done" => ~Mixed(shown)
=============================================================================
