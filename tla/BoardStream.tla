----------------------------- MODULE BoardStream -----------------------------
(***************************************************************************)
(* The event stream of the routes that deliberate or continue a meeting    *)
(* (api/routes/board.py): a task puts events on a queue while a generator  *)
(* takes them off, with a second's patience, and sends them to the client. *)
(***************************************************************************)
EXTENDS Integers, Sequences

CONSTANT MaxEvents   \* bound: events of one task

ASSUME StreamAssumption == MaxEvents \in Nat

VARIABLES
  feed,   \* pc of the generator, the route it serves, and the task's state
  queue,  \* asyncio.Queue: events, numbered as they are put
  put,    \* how many events the task has put
  sent    \* what the client has received: events, then at most one end

feedVars == <<feed, queue, put, sent>>

Terminal == {"complete", "error", "cancelled"}
Ends == [kind : Terminal, n : {0}]
Event(n) == [kind |-> "event", n |-> n]
End(kind) == [kind |-> kind, n |-> 0]

FeedTypeOK ==
  /\ feed \in [pc : {"check", "wait", "result", "done", "gone"},
               route : {"deliberate", "continue"},
               task : {"running", "returned", "raised", "cancelled"}]
  /\ queue \in Seq(1..MaxEvents) /\ put \in 0..MaxEvents
  /\ sent \in Seq([kind : {"event"}, n : 1..MaxEvents] \cup Ends)

FeedInit ==
  /\ feed \in [pc : {"check"}, route : {"deliberate", "continue"}, task : {"running"}]
  /\ queue = <<>> /\ put = 0 /\ sent = <<>>

(* The task: it reports what it does, and in the end returns or raises.    *)
TaskPuts ==
  /\ feed.task = "running" /\ put < MaxEvents
  /\ put' = put + 1 /\ queue' = Append(queue, put + 1)
  /\ UNCHANGED <<feed, sent>>

TaskEnds ==
  /\ feed.task = "running"
  /\ \E end \in {"returned", "raised"} : feed' = [feed EXCEPT !.task = end]
  /\ UNCHANGED <<queue, put, sent>>

(* The server is shutting down. *)
TaskCancelled ==
  /\ feed.task = "running"
  /\ feed' = [feed EXCEPT !.task = "cancelled"] /\ UNCHANGED <<queue, put, sent>>

Drained(q) == [i \in 1..Len(q) |-> Event(q[i])]

(* Slip: a task that is done has nothing more to say. *)
CheckOnly ==
  /\ feed.pc = "check"
  /\ feed' = [feed EXCEPT !.pc = IF feed.task = "running" THEN "wait" ELSE "result"]
  /\ UNCHANGED <<queue, put, sent>>

(* The top of the loop: once the task is done, what is left on the queue   *)
(* is sent and the loop is over.                                           *)
CheckTask ==
  /\ feed.pc = "check"
  /\ IF feed.task = "running"
     THEN feed' = [feed EXCEPT !.pc = "wait"] /\ UNCHANGED <<queue, sent>>
     ELSE /\ feed' = [feed EXCEPT !.pc = "result"]
          /\ sent' = sent \o Drained(queue) /\ queue' = <<>>
  /\ UNCHANGED put

(* An event comes within the second, or a keepalive goes out. *)
QueueGet ==
  /\ feed.pc = "wait"
  /\ feed' = [feed EXCEPT !.pc = "check"]
  /\ IF queue = <<>> THEN UNCHANGED <<queue, sent>>
     ELSE sent' = Append(sent, Event(Head(queue))) /\ queue' = Tail(queue)
  /\ UNCHANGED put

(* How a task that returned is told: a continued meeting is saved again    *)
(* first, and that may fail.                                               *)
Outcome ==
  CASE feed.task = "returned" -> IF feed.route = "continue" THEN {"complete", "error"}
                                 ELSE {"complete"}
    [] feed.task = "raised" -> {"error"}
    [] OTHER -> {"cancelled"}

(* A continued meeting that is cancelled ends without a word. *)
SendResult ==
  /\ feed.pc = "result"
  /\ feed' = [feed EXCEPT !.pc = "done"]
  /\ \E kind \in Outcome :
       sent' = IF feed.route = "continue" /\ kind = "cancelled" THEN sent
               ELSE Append(sent, End(kind))
  /\ UNCHANGED <<queue, put>>

(* The client hangs up: the generator is cancelled, the task is not.       *)
ClientGone ==
  /\ feed.pc \in {"check", "wait", "result"}
  /\ feed' = [feed EXCEPT !.pc = "gone"] /\ UNCHANGED <<queue, put, sent>>

FeedStep == CheckTask \/ QueueGet \/ SendResult
TaskStep == TaskPuts \/ TaskEnds
FeedEnvironment == TaskCancelled \/ ClientGone

-----------------------------------------------------------------------------
(* The client sees the events in the order they were put and none twice;   *)
(* an end comes last, only once, only after every event, and tells how the *)
(* task ended.                                                             *)
StreamFaithful ==
  \A i \in DOMAIN sent :
    \/ sent[i] = Event(i)
    \/ /\ sent[i] \in Ends /\ i = Len(sent) /\ i = put + 1
       /\ sent[i].kind = "complete" => feed.task = "returned"
       /\ feed.task = "raised" => sent[i].kind = "error"
=============================================================================
