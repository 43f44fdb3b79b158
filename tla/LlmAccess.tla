------------------------------ MODULE LlmAccess ------------------------------
(***************************************************************************)
(* One call of query_llm (board/llm.py): the primary provider with its     *)
(* retries, then the free fallbacks in their order, then the paid last     *)
(* resort.  Each provider's handler sends a request in a worker thread and *)
(* sorts what comes back into an answer, a transient failure it retries    *)
(* after a pause, or an exception that leaves query_llm at once.           *)
(***************************************************************************)
EXTENDS Integers, Sequences, FiniteSets

CONSTANTS
  Keys,        \* the handlers whose key variable is set in the environment
  QwenFree,    \* DASHSCOPE_REGION is one with a free quota
  Stubborn     \* prefixes whose provider may call tools it was not offered

(* _PROVIDERS: a handler per prefix; two prefixes share a handler twice. *)
Handler == [glm        |-> "zai",      zai      |-> "zai",
            kimi       |-> "moonshot", moonshot |-> "moonshot",
            deepseek   |-> "deepseek", qwen     |-> "dashscope",
            gemini     |-> "gemini",   openrouter |-> "openrouter"]
Prefix == DOMAIN Handler

ASSUME LlmAssumption ==
  /\ Keys \subseteq {Handler[p] : p \in Prefix}
  /\ QwenFree \in BOOLEAN
  /\ Stubborn \subseteq Prefix

PRIMARY_MAX_RETRIES  == 3
FALLBACK_MAX_RETRIES == 2
FREE_FALLBACKS       == <<"gemini", "glm", "qwen">>
PAID_LAST_RESORT     == "deepseek"

Chain == Append(FREE_FALLBACKS, PAID_LAST_RESORT)

VARIABLES
  request,   \* [prefix, tools]: the model asked for, whether tools are offered
  link,      \* 0: the primary is being asked; i: Chain[i] is
  attempt,   \* requests sent by the handler of that provider
  llm,       \* where query_llm is
  reply,     \* the answer: who gave it, whether it asks for tools
  refused    \* some provider refused the request for good (4xx)

llmVars == <<request, link, attempt, llm, reply, refused>>

LlmPC == {"idle", "send", "flight", "backoff", "answered", "raised"}

Asked == IF link = 0 THEN request.prefix ELSE Chain[link]
Retries == IF link = 0 THEN PRIMARY_MAX_RETRIES ELSE FALLBACK_MAX_RETRIES

LlmTypeOK ==
  /\ request \in [prefix : Prefix, tools : BOOLEAN]
  /\ link \in 0..Len(Chain)
  /\ attempt \in 0..Retries
  /\ llm \in LlmPC
  /\ reply \in [by : Prefix, calls : BOOLEAN]
  /\ refused \in BOOLEAN

LlmInit ==
  /\ request = [prefix |-> "gemini", tools |-> FALSE]
  /\ link = 0
  /\ attempt = 0
  /\ llm = "idle"
  /\ reply = [by |-> "gemini", calls |-> FALSE]
  /\ refused = FALSE

_qwen_region_is_free == QwenFree

(* _fallback_eligible compares prefixes: glm is eligible after zai. *)
_fallback_eligible(i, primary) ==
  /\ Chain[i] # primary
  /\ Handler[Chain[i]] \in Keys
  /\ Chain[i] = "qwen" => _qwen_region_is_free

(* Slip: the chain is walked from its start after every failure. *)
NextLinkRestarts(i, primary) ==
  LET rest == {j \in 1..Len(Chain) : _fallback_eligible(j, primary)}
  IN IF rest = {} THEN 0 ELSE CHOOSE j \in rest : \A k \in rest : j <= k

(* The next entry after link i that is eligible; 0 when there is none. *)
NextLink(i, primary) ==
  LET rest == {j \in (i + 1)..Len(Chain) : _fallback_eligible(j, primary)}
  IN IF rest = {} THEN 0 ELSE CHOOSE j \in rest : \A k \in rest : j <= k

-----------------------------------------------------------------------------
(* What a provider can do with one request. "transient" is a timeout, a    *)
(* lost connection, a 429 or a 5xx; "fatal" any other failure.             *)

(* Anything of unknown shape is not retried. *)
_is_retryable(outcome) == outcome = "transient"

_send_zai == {"answer", "transient", "fatal"}
_send_gemini == {"answer", "transient", "fatal"}
_send_openrouter == {"answer", "transient", "fatal"}
_send_deepseek == {"answer", "tool_calls", "transient", "fatal"}
_send_kimi == {"answer", "tool_calls", "transient", "fatal"}

(* DashScope gives an error status back as a response: the handler raises  *)
(* LLMProviderError for every status of 400 and above, and retries it.     *)
_send_qwen == {"answer", "transient", "fatal", "status"}

(* Only two handlers take tools, and only theirs read tool calls out of a   *)
(* response; they read them whether or not tools were sent.                *)
_dispatch_to_handler(prefix, tools) ==
  CASE Handler[prefix] = "zai"        -> _send_zai
    [] Handler[prefix] = "gemini"     -> _send_gemini
    [] Handler[prefix] = "openrouter" -> _send_openrouter
    [] Handler[prefix] = "dashscope"  -> _send_qwen
    [] Handler[prefix] = "deepseek"   ->
         IF tools \/ prefix \in Stubborn THEN _send_deepseek ELSE _send_deepseek \ {"tool_calls"}
    [] Handler[prefix] = "moonshot"   ->
         IF tools \/ prefix \in Stubborn THEN _send_kimi ELSE _send_kimi \ {"tool_calls"}

-----------------------------------------------------------------------------
(* query_llm.                                                              *)

LlmCall(prefix, tools) ==
  /\ request' = [prefix |-> prefix, tools |-> tools]
  /\ link' = 0
  /\ attempt' = 0
  /\ llm' = "send"
  /\ refused' = FALSE
  /\ UNCHANGED reply

(* No key for the primary: RuntimeError, before anything is sent. *)
LlmKeyMissing ==
  /\ llm = "send"
  /\ Handler[Asked] \notin Keys
  /\ llm' = "raised"
  /\ UNCHANGED <<request, link, attempt, reply, refused>>

LlmSend ==
  /\ llm = "send"
  /\ Handler[Asked] \in Keys
  /\ llm' = "flight"
  /\ attempt' = attempt + 1
  /\ UNCHANGED <<request, link, reply, refused>>

LlmAnswers ==
  /\ llm = "flight"
  /\ \E o \in _dispatch_to_handler(Asked, request.tools) \cap {"answer", "tool_calls"} :
       reply' = [by |-> Asked, calls |-> o = "tool_calls"]
  /\ llm' = "answered"
  /\ UNCHANGED <<request, link, attempt, refused>>

(* The handler gives up: LLMProviderError, and the chain goes on, or the   *)
(* primary's exception is raised again.                                    *)
HandlerExhausted ==
  /\ attempt = Retries
  /\ LET n == NextLink(link, request.prefix)
     IN IF n = 0 THEN llm' = "raised" /\ UNCHANGED <<link, attempt>>
        ELSE llm' = "send" /\ link' = n /\ attempt' = 0

LlmFails ==
  /\ llm = "flight"
  /\ \E o \in _dispatch_to_handler(Asked, request.tools) \ {"answer", "tool_calls"} :
       /\ refused' = (refused \/ (o = "fatal"))
       /\ \/ /\ _is_retryable(o) \/ o = "status"
             /\ \/ attempt < Retries /\ llm' = "backoff" /\ UNCHANGED <<link, attempt>>
                \/ HandlerExhausted
          \/ /\ ~(_is_retryable(o) \/ o = "status")
             /\ llm' = "raised"
             /\ UNCHANGED <<link, attempt>>
  /\ UNCHANGED <<request, reply>>

(* asyncio.sleep(backoff). *)
LlmBackoffOver ==
  /\ llm = "backoff"
  /\ llm' = "send"
  /\ UNCHANGED <<request, link, attempt, reply, refused>>

LlmStep == LlmKeyMissing \/ LlmSend \/ LlmAnswers \/ LlmFails \/ LlmBackoffOver

=============================================================================
