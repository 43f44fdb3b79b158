------------------------------- MODULE HookGate -------------------------------
(***************************************************************************)
(* The pre-hook gate of one (session, tool) pair: dispatch_pre_hooks with  *)
(* a bundled counting hook (rate_limit_delegated_tasks for delegated_task, *)
(* cap_web_search_per_session for web_search) and the hook_events ledger   *)
(* the hook counts.  A gate site first dispatches the hooks, which count   *)
(* the window in one connection, and then inserts its verdict in another   *)
(* (tasks.py _hook_gate_sync, web_search.py web_search).                   *)
(***************************************************************************)
EXTENDS Integers, FiniteSets

CONSTANTS
  Proc,      \* processes with a gate site
  EventId,   \* ids of hook_events rows
  Limit,     \* operations per window
  Window     \* length of the window, in clock units

ASSUME GateAssumption ==
  /\ IsFiniteSet(EventId)
  /\ IsFiniteSet(Proc) /\ Proc # {}
  /\ Limit \in Nat \ {0}
  /\ Window \in Nat

VARIABLES
  events,   \* the hook_events rows of this session and tool
  verdict   \* what each process is about to record

vars == <<events, verdict>>

(* Ages past Window are forgotten: no count sees them. *)
Event == [action : {"allow", "deny"}, age : 0..Window]
NoEvent == [action |-> "none", age |-> 0]
Idle == "idle"

TypeOK ==
  /\ events \in [EventId -> Event \cup {NoEvent}]
  /\ verdict \in [Proc -> {Idle, "allow", "cap", "deny"}]

Init ==
  /\ events = [i \in EventId |-> NoEvent]
  /\ verdict = [p \in Proc |-> Idle]

(* _count_in_window: every row counts, whatever its action. *)
InWindow == {i \in EventId : events[i].action # "none"}
AllowedInWindow == {i \in EventId : events[i].action = "allow"}

(* Slip: the limit is refused only once it is passed. *)
HookCountsPastLimit(p) ==
  /\ verdict[p] = Idle
  /\ verdict' = [verdict EXCEPT ![p] =
       IF Cardinality(InWindow) > Limit THEN "cap" ELSE "allow"]
  /\ UNCHANGED events

(* The counting hook, in a dispatch that no earlier hook denied. *)
HookCounts(p) ==
  /\ verdict[p] = Idle
  /\ verdict' = [verdict EXCEPT ![p] =
       IF Cardinality(InWindow) >= Limit THEN "cap" ELSE "allow"]
  /\ UNCHANGED events

(* Another hook denies, crashes or times out: the verdict is a denial. *)
OtherHookDenies(p) ==
  /\ verdict[p] = Idle
  /\ verdict' = [verdict EXCEPT ![p] = "deny"]
  /\ UNCHANGED events

(* Slip: the hook's own word is stored as the action. *)
RecordsVerdict(p) ==
  /\ verdict[p] # Idle
  /\ \E i \in EventId :
       /\ events[i] = NoEvent
       /\ events' = [events EXCEPT ![i] = [action |-> verdict[p], age |-> 0]]
  /\ verdict' = [verdict EXCEPT ![p] = Idle]

(* record_hook_event; the site goes on or raises HookDeniedError. *)
Records(p) ==
  /\ verdict[p] # Idle
  /\ \E i \in EventId :
       /\ events[i] = NoEvent
       /\ events' = [events EXCEPT ![i] =
            [action |-> IF verdict[p] = "allow" THEN "allow" ELSE "deny", age |-> 0]]
  /\ verdict' = [verdict EXCEPT ![p] = Idle]

Dies(p) ==
  /\ verdict[p] # Idle
  /\ verdict' = [verdict EXCEPT ![p] = Idle]
  /\ UNCHANGED events

TimePasses ==
  /\ events' = [i \in EventId |->
       IF events[i] = NoEvent \/ events[i].age = Window THEN NoEvent
       ELSE [events[i] EXCEPT !.age = @ + 1]]
  /\ UNCHANGED verdict

Next ==
  \/ TimePasses
  \/ \E p \in Proc :
       HookCounts(p) \/ OtherHookDenies(p) \/ Records(p) \/ Dies(p)

Spec == Init /\ [][Next]_vars

-----------------------------------------------------------------------------
Allowing == {p \in Proc : verdict[p] = "allow"}

(* The rate limit (rate_limit_delegated_tasks.py: "Default 5 ops per 60s   *)
(* per session"): counting and recording are separate transactions, so N   *)
(* processes pass on the same count; in every window at most               *)
(* Limit + N - 1 operations are let through, and never more than Limit     *)
(* with one process.                                                       *)
RateBound ==
  Cardinality(AllowedInWindow) <= Limit + Cardinality(Proc) - 1

(* Why RateBound holds: whoever passed the count and has not recorded yet  *)
(* weighs as much as a recorded operation.                                 *)
RateInv ==
  Cardinality(AllowedInWindow) + Cardinality(Allowing)
    <= Limit + Cardinality(Proc) - 1

=============================================================================
