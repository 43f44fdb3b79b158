----------------------------- MODULE MemberTurn ------------------------------
(***************************************************************************)
(* One turn of a board member (agentic_member_turn): the model is asked    *)
(* with the tools its budget still allows, the tools it calls run together *)
(* and are answered, until it writes prose.  Every request is a call of    *)
(* query_llm, step by step (LlmAccess), and every tool a result of         *)
(* BoardTools.                                                             *)
(***************************************************************************)
EXTENDS LlmAccess, BoardTools

CONSTANTS
  Council,     \* bound: the providers a turn's model may have
  Mode,        \* bound: the budgets considered, of "fast", "standard", "deep"
  MaxBatch,    \* bound: tool calls in one response
  MaxUnasked,  \* bound: responses of a turn that may name any tool, offered or not
  RevisionCap  \* hardening.max_forced_revisions_per_member, read at entry

Unbidden == "unregistered"   \* a name that is not in TOOLS

ASSUME TurnAssumption ==
  /\ Council \subseteq Prefix /\ Council # {}
  /\ Mode \subseteq {"fast", "standard", "deep"} /\ Mode # {}
  /\ IsFiniteSet(Tool) /\ Unbidden \notin Tool
  /\ MaxBatch \in Nat \ {0} /\ MaxUnasked \in Nat /\ RevisionCap \in Nat
  /\ Quoted \subseteq SUBSET Verdict

(* ToolBudget.for_mode(mode, member_role="member"). *)
for_mode(mode) ==
  CASE mode = "fast"     -> [calls |-> 0, open_browser |-> 0, web_search |-> 0,
                             fetch_url |-> 0, ask |-> 0]
    [] mode = "standard" -> [calls |-> 3, open_browser |-> 1, web_search |-> 3,
                             fetch_url |-> 2, ask |-> 0]
    [] mode = "deep"     -> [calls |-> 8, open_browser |-> 3, web_search |-> 6,
                             fetch_url |-> 4, ask |-> 1]

VARIABLES
  turn,     \* the turn
  calls     \* the tool calls of the last response, until the next request

turnVars == <<turn, calls>>

TurnPC == {"off", "ready", "asking", "tools", "complete", "aborted", "raised"}
MAX_ITERS(mode) == IF for_mode(mode).calls + 4 > 12 THEN for_mode(mode).calls + 4 ELSE 12
Call == [tool   : Tool \cup {Unbidden},
         at     : {"none", "queued", "running", "done", "recorded"},
         result : Result]
NoCall == [tool |-> Unbidden, at |-> "none", result |-> Plain]

TurnState == [pc        : TurnPC,
              model     : Council,
              mode      : Mode,
              iter      : 0..17,            \* _iter
              used      : Nat,              \* budget.tool_calls_used
              sub       : [Tool -> Nat],    \* budget.sub_used
              offered   : [Tool -> Nat],    \* those of its charges the turn had offered
              unasked   : 0..MaxUnasked,    \* responses that named any tool they liked
              final     : BOOLEAN,          \* final_instruction_appended
              revisions : 0..RevisionCap,   \* forced_revisions_used
              late      : BOOLEAN]          \* wall_seconds_max has passed

TurnTypeOK ==
  /\ turn \in TurnState
  /\ calls \in [1..MaxBatch -> Call]

TurnInit ==
  /\ turn = [pc |-> "off", model |-> CHOOSE p \in Council : TRUE,
             mode |-> CHOOSE m \in Mode : TRUE, iter |-> 0, used |-> 0,
             sub |-> [t \in Tool |-> 0], offered |-> [t \in Tool |-> 0], unasked |-> 0, final |-> FALSE,
             revisions |-> 0, late |-> FALSE]
  /\ calls = [i \in 1..MaxBatch |-> NoCall]

Budget == for_mode(turn.mode)

(* ToolBudget.can_call: the total, then the tool's own cap if it has one. *)
can_call(t) ==
  /\ turn.used < Budget.calls
  /\ CASE t = "open_browser" -> turn.sub[t] < Budget.open_browser
       [] t = "web_search"   -> turn.sub[t] < Budget.web_search
       [] t = "fetch_url"    -> turn.sub[t] < Budget.fetch_url
       [] t = "ask_user_clarifying_question" -> turn.sub[t] < Budget.ask
       [] OTHER              -> TRUE

(* A member in fast mode is given no tools at all. *)
_budget_filtered_tools == {t \in Tool : turn.mode # "fast" /\ can_call(t)}

no_more_tools == _budget_filtered_tools = {} \/ turn.used >= Budget.calls \/ turn.late

(* The tools of the request that was answered: the budget is as it was. *)
Offered == IF request.tools THEN _budget_filtered_tools ELSE {}

-----------------------------------------------------------------------------
TurnStarts ==
  /\ turn.pc = "off"
  /\ \E p \in Council, m \in Mode :
       turn' = [turn EXCEPT !.pc = "ready", !.model = p, !.mode = m]
  /\ UNCHANGED <<calls, llmVars>>

WallRunsOut ==
  /\ turn.pc \in {"asking", "tools"}
  /\ ~turn.late
  /\ turn' = [turn EXCEPT !.late = TRUE]
  /\ UNCHANGED <<calls, llmVars>>

(* The iteration cap, for a provider that keeps calling tools unoffered. *)
TurnAborts ==
  /\ turn.pc = "ready"
  /\ turn.iter = MAX_ITERS(turn.mode)
  /\ turn' = [turn EXCEPT !.pc = "aborted"]
  /\ UNCHANGED <<calls, llmVars>>

(* The next request, after the instruction to write up if tools are out. *)
TurnAsks ==
  /\ turn.pc = "ready"
  /\ turn.iter < MAX_ITERS(turn.mode)
  /\ turn' = [turn EXCEPT !.pc = "asking", !.iter = @ + 1,
                          !.final = @ \/ (no_more_tools /\ turn.used > 0)]
  /\ LlmCall(turn.model, ~no_more_tools)
  /\ calls' = [i \in 1..MaxBatch |-> NoCall]

LlmWorks == turn.pc = "asking" /\ LlmStep /\ UNCHANGED turnVars

(* query_llm raised: the exception leaves the turn, without an event. *)
TurnRaises ==
  /\ turn.pc = "asking"
  /\ llm = "raised"
  /\ turn' = [turn EXCEPT !.pc = "raised"]
  /\ UNCHANGED <<calls, llmVars>>

TurnCompletes ==
  /\ turn.pc = "asking"
  /\ llm = "answered"
  /\ ~reply.calls
  /\ turn' = [turn EXCEPT !.pc = "complete"]
  /\ UNCHANGED <<calls, llmVars>>

(* The calls of a response: all of them are started. *)
Called(batch) ==
  /\ turn.pc = "asking"
  /\ llm = "answered"
  /\ reply.calls
  /\ calls' = [i \in 1..MaxBatch |-> IF i \in DOMAIN batch
                 THEN [NoCall EXCEPT !.tool = batch[i], !.at = "queued"] ELSE NoCall]
  /\ UNCHANGED llmVars

Batches(tools) == UNION {[1..n -> tools] : n \in 1..MaxBatch}

ToolsCalled ==
  /\ \E batch \in Batches(Offered) : Called(batch)
  /\ turn' = [turn EXCEPT !.pc = "tools"]

(* It names tools nobody offered, registered or not: nothing refuses them. *)
(* Past the bound on such responses it names one unregistered tool.        *)
ToolsCalledUnasked ==
  /\ \/ /\ turn.unasked < MaxUnasked
        /\ \E batch \in Batches(Tool \cup {Unbidden}) : Called(batch)
        /\ turn' = [turn EXCEPT !.pc = "tools", !.unasked = @ + 1]
     \/ /\ turn.unasked = MaxUnasked
        /\ Called(<<Unbidden>>)
        /\ turn' = [turn EXCEPT !.pc = "tools"]

(* One browser at a time (_BROWSER_SEMAPHORE); the other tools run freely. *)
ToolStarts(i) ==
  /\ turn.pc = "tools"
  /\ calls[i].at = "queued"
  /\ calls[i].tool = "open_browser" =>
       \A j \in 1..MaxBatch : ~(calls[j].tool = "open_browser" /\ calls[j].at = "running")
  /\ calls' = [calls EXCEPT ![i].at = "running"]
  /\ UNCHANGED <<turn, llmVars>>

ToolReturns(i) ==
  /\ turn.pc = "tools"
  /\ calls[i].at = "running"
  /\ \E r \in execute_tool(calls[i].tool) :
       calls' = [calls EXCEPT ![i].at = "done", ![i].result = r]
  /\ UNCHANGED <<turn, llmVars>>

InBatch == {i \in 1..MaxBatch : calls[i].at # "none"}

(* Slip: a batch is spent as one call. *)
SpendOnce(used) == used + 1

spend(used) == used + Cardinality(InBatch)

(* Slip: contradictions beyond the cap still force a revision. *)
ForcedUncapped(used, n) == used + n

ForcedRevisions(used, n) == IF used + n > RevisionCap THEN RevisionCap ELSE used + n

(* How many calls of the batch name each of these tools. *)
Calling(tools) == [t \in Tool |-> Cardinality({i \in InBatch : calls[i].tool = t /\ t \in tools})]

(* The whole batch is back: it is spent, whatever it called, contradictions *)
(* force revisions up to the cap, and each call leaves a record.            *)
BatchRecorded ==
  /\ turn.pc = "tools"
  /\ \A i \in InBatch : calls[i].at = "done"
  /\ LET forced == Cardinality({i \in InBatch : triggers_revision(calls[i].result)})
     IN turn' = [turn EXCEPT
          !.pc = "ready",
          !.used = spend(@),
          !.sub = [t \in Tool |-> @[t] + Calling(Tool)[t]],
          !.offered = [t \in Tool |-> @[t] + Calling(Offered)[t]],
          !.revisions = ForcedRevisions(@, forced)]
  /\ calls' = [i \in 1..MaxBatch |-> IF i \in InBatch
                 THEN [calls[i] EXCEPT !.at = "recorded"] ELSE calls[i]]
  /\ UNCHANGED llmVars

TurnStep ==
  \/ TurnStarts \/ TurnAborts \/ TurnAsks \/ LlmWorks \/ TurnRaises \/ TurnCompletes
  \/ ToolsCalled \/ ToolsCalledUnasked \/ BatchRecorded
  \/ \E i \in 1..MaxBatch : ToolStarts(i) \/ ToolReturns(i)

-----------------------------------------------------------------------------
(* Properties.                                                             *)

(* The charged calls of each tool that was offered, by their number. *)
Granted == UNION {{t} \X (1..turn.offered[t]) : t \in Tool}

(* What a turn may run: the budget is read before a batch and charged      *)
(* after it, so of the calls it offered the last batch may pass the total, *)
(* and a tool's own cap, by all but one of its calls. Calls nobody offered *)
(* come on top, as long as the iterations last. And a turn whose budget is *)
(* gone was told to write up before its prose.                             *)
TurnBounds ==
  /\ Cardinality(Granted) <= Budget.calls + (MaxBatch - 1)
  /\ "open_browser" \in Tool =>
       turn.offered["open_browser"] <= Budget.open_browser + (MaxBatch - 1)
  /\ turn.used <= MAX_ITERS(turn.mode) * MaxBatch
  /\ turn.pc = "complete" /\ turn.used > 0 /\ turn.used >= Budget.calls => turn.final

(* No record on the session says SUPPORTED of a claim whose sources fall   *)
(* short of the authority threshold, whatever the judge wrote, unless the  *)
(* claim itself quotes that verdict: where there was nothing to judge, the *)
(* record reads its verdict out of a text that begins with the claim.      *)
SupportedIsBacked ==
  \A i \in 1..MaxBatch :
    LET r == calls[i].result
    IN calls[i].at = "recorded" /\ _make_tool_call_record(r) = "SUPPORTED"
         => r.backed \/ (r.summary = "none" /\ "SUPPORTED" \in r.quoted)
=============================================================================
