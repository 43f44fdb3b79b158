----------------------------- MODULE TaskScheduler -----------------------------
(***************************************************************************)
(* The always-on scheduler (server/execution/scheduler.py): one or more    *)
(* processes running run_forever over the shared task_runs table, while    *)
(* API clients change task statuses.  run_task is seen from the scheduler: *)
(* it re-reads the task, skips it, or moves it to running and ends it.     *)
(* DelegatedTasks models its inside.                                       *)
(*                                                                         *)
(* Time is kept as ages: age is how long ago a run started, lag how long   *)
(* ago the current tick read its clock (tick reads it once, at the start). *)
(* Ages are capped at MaxAge, past which no gate tells them apart.         *)
(***************************************************************************)
EXTENDS Integers, FiniteSets

CONSTANTS
  Task,            \* task ids
  Venture,         \* venture ids
  VentureOf,       \* the venture of a task
  Deps,            \* the dependencies of a task
  Rank,            \* created_at order of the tasks
  Sched,           \* scheduler processes
  RunId,           \* ids of task_runs rows
  DailyBudget,     \* daily_budget_per_venture
  Day,             \* DAY_SECONDS, in clock units
  Cooldown,        \* cooldown_seconds, in clock units
  MaxConcurrent,   \* max_concurrent_runs
  MaxLag,          \* bound: longest tick, in clock units
  MaxDeaths,       \* bound: number of process deaths
  RunMayKeepStatus,\* whether run_task may return and leave the task approved
  None             \* no task, no venture, no run

(* "idle" stands for proposed, rejected and blocked, which the scheduler   *)
(* and run_task treat alike.                                               *)
Status == {"idle", "approved", "running", "completed"}
RunnableStatus == {"approved", "running"}

MaxAge == (IF Day > Cooldown THEN Day ELSE Cooldown) + MaxLag + 1

ASSUME SchedulerAssumption ==
  /\ IsFiniteSet(RunId)
  /\ IsFiniteSet(Sched) /\ Sched # {}
  /\ VentureOf \in [Task -> Venture]
  /\ Deps \in [Task -> SUBSET Task]
  /\ Rank \in [Task -> Nat]
  /\ {DailyBudget, Day, Cooldown, MaxConcurrent, MaxLag, MaxDeaths} \subseteq Nat
  /\ RunMayKeepStatus \in BOOLEAN
  /\ None \notin Task \cup Venture \cup RunId

VARIABLES
  status,     \* status column of delegated_tasks
  archived,   \* ventures whose status is "archived"
  runs,       \* the task_runs table
  sched,      \* what each scheduler process is doing
  deaths,     \* how many process deaths so far
  depsMet     \* history: tasks that have been "completed" at some time

vars == <<status, archived, runs, sched, deaths, depsMet>>

(* A row of task_runs: "running" until finished_at is set.  A finished row *)
(* past MaxAge is kept as NoRow: no gate tells it from an absent one.      *)
NoRow == [state |-> "free", venture |-> None, age |-> 0]
RunRow == [state : {"running", "finished"}, venture : Venture, age : 0..MaxAge]
            \cup {NoRow}

SchedPC == {"sleep", "scan", "start", "fire", "work", "record"}
SchedState == [pc    : SchedPC,
               todo  : SUBSET Task,          \* listed tasks not yet considered
               fired : Nat,                  \* fired_this_tick
               lag   : 0..MaxLag,
               task  : Task \cup {None},     \* the task being fired
               run   : RunId \cup {None}]    \* its task_runs row
Scanning(tasks) == [pc |-> "scan", todo |-> tasks, fired |-> 0, lag |-> 0,
                    task |-> None, run |-> None]
Asleep == [pc |-> "sleep", todo |-> {}, fired |-> 0, lag |-> 0,
           task |-> None, run |-> None]

Firing(p) == sched[p].pc \in {"start", "fire", "work", "record"}
HasRun(p) == sched[p].pc \in {"fire", "work", "record"}

TypeOK ==
  /\ status \in [Task -> Status]
  /\ archived \subseteq Venture
  /\ runs \in [RunId -> RunRow]
  /\ sched \in [Sched -> SchedState]
  /\ \A p \in Sched : Firing(p) => sched[p].task \in Task
  /\ deaths \in 0..MaxDeaths
  /\ depsMet \subseteq Task

Init ==
  /\ status = [t \in Task |-> "idle"]
  /\ archived = {}
  /\ runs = [i \in RunId |-> NoRow]
  /\ sched = [p \in Sched |-> Asleep]
  /\ deaths = 0
  /\ depsMet = {}

SetStatus(t, s) ==
  /\ status' = [status EXCEPT ![t] = s]
  /\ depsMet' = IF s = "completed" THEN depsMet \cup {t} ELSE depsMet

-----------------------------------------------------------------------------
(* Requests to the API process, and time.                                  *)

(* Approvals and status updates of clients, with the guard on "running". *)
ClientSetsStatus(t) ==
  /\ \E s \in Status :
       /\ s # status[t]
       /\ s = "running" => status[t] \in RunnableStatus
       /\ SetStatus(t, s)
  /\ UNCHANGED <<archived, runs, sched, deaths>>

ClientArchives(v) ==
  /\ archived' = IF v \in archived THEN archived \ {v} ELSE archived \cup {v}
  /\ UNCHANGED <<status, runs, sched, deaths, depsMet>>

ClientStep == (\E t \in Task : ClientSetsStatus(t)) \/ (\E v \in Venture : ClientArchives(v))

(* One clock unit passes; no tick lasts longer than MaxLag. *)
TimePasses ==
  /\ \A p \in Sched : sched[p].pc # "sleep" => sched[p].lag < MaxLag
  /\ runs' = [i \in RunId |->
       IF runs[i].state = "free" THEN NoRow
       ELSE IF runs[i].age < MaxAge - 1 THEN [runs[i] EXCEPT !.age = @ + 1]
       ELSE IF runs[i].state = "finished" THEN NoRow
       ELSE [runs[i] EXCEPT !.age = MaxAge]]
  /\ sched' = [p \in Sched |->
       IF sched[p].pc # "sleep" THEN [sched[p] EXCEPT !.lag = @ + 1] ELSE sched[p]]
  /\ UNCHANGED <<status, archived, deaths, depsMet>>

-----------------------------------------------------------------------------
(* The gates.                                                              *)

RunsOf(v) == {i \in RunId : runs[i].state # "free" /\ runs[i].venture = v}

RunsInWindow(v, lag) == {i \in RunsOf(v) : runs[i].age <= Day + lag}

(* Slip: the oldest start is taken for the last one. *)
CooledDownOldest(v, lag) ==
  RunsOf(v) = {} \/ \E i \in RunsOf(v) : runs[i].age - lag >= Cooldown

(* The most recent start (_last_run_at) is Cooldown old at the tick's clock. *)
CooledDown(v, lag) == \A i \in RunsOf(v) : runs[i].age - lag >= Cooldown

ActiveRuns == {i \in RunId : runs[i].state = "running"}

(* Slip: one run too many. *)
GatesAllowOneMoreActive(v, lag) ==
  /\ v \notin archived
  /\ Cardinality(RunsInWindow(v, lag)) < DailyBudget
  /\ CooledDown(v, lag)
  /\ Cardinality(ActiveRuns) <= MaxConcurrent

(* Slip: one run of the day too many. *)
GatesAllowOneMoreDaily(v, lag) ==
  /\ v \notin archived
  /\ Cardinality(RunsInWindow(v, lag)) <= DailyBudget
  /\ CooledDown(v, lag)
  /\ Cardinality(ActiveRuns) < MaxConcurrent

(* evaluate_gates with the clock the tick has read. *)
GatesAllow(v, lag) ==
  /\ v \notin archived
  /\ Cardinality(RunsInWindow(v, lag)) < DailyBudget
  /\ CooledDown(v, lag)
  /\ Cardinality(ActiveRuns) < MaxConcurrent

(* Slip: a dependency that has started is enough. *)
DependenciesStarted(t) == \A d \in Deps[t] : status[d] \in {"running", "completed"}
DependenciesSatisfied(t) == \A d \in Deps[t] : status[d] = "completed"

-----------------------------------------------------------------------------
(* tick.                                                                   *)

(* A poll begins: the approved tasks are listed once for the whole tick. *)
TickBegins(p) ==
  /\ sched[p].pc = "sleep"
  /\ sched' = [sched EXCEPT ![p] = Scanning({t \in Task : status[t] = "approved"})]
  /\ UNCHANGED <<status, archived, runs, deaths, depsMet>>

(* The first listed task that is left, by created_at. *)
IsNext(p, t) == t \in sched[p].todo /\ \A u \in sched[p].todo : Rank[t] <= Rank[u]

Passes(p, t) ==
  /\ DependenciesSatisfied(t)
  /\ sched[p].fired < MaxConcurrent
  /\ GatesAllow(VentureOf[t], sched[p].lag)

TaskSkipped(p, t) ==
  /\ sched[p].pc = "scan"
  /\ IsNext(p, t)
  /\ ~Passes(p, t)
  /\ sched' = [sched EXCEPT ![p].todo = @ \ {t}]
  /\ UNCHANGED <<status, archived, runs, deaths, depsMet>>

TaskPasses(p, t) ==
  /\ sched[p].pc = "scan"
  /\ IsNext(p, t)
  /\ Passes(p, t)
  /\ sched' = [sched EXCEPT ![p].todo = @ \ {t}, ![p].task = t, ![p].pc = "start"]
  /\ UNCHANGED <<status, archived, runs, deaths, depsMet>>

(* record_run_start *)
RecordsStart(p) ==
  /\ sched[p].pc = "start"
  /\ \E i \in RunId :
       /\ runs[i].state = "free"
       /\ runs' = [runs EXCEPT ![i] =
            [state |-> "running", venture |-> VentureOf[sched[p].task], age |-> 0]]
       /\ sched' = [sched EXCEPT ![p].pc = "fire", ![p].run = i]
  /\ UNCHANGED <<status, archived, deaths, depsMet>>

(* run_task reads the task again: it skips it, blocks it, cannot get its   *)
(* planning and its blocking through the hooks, or plans and works on it.  *)
RunBegins(p) ==
  LET t == sched[p].task IN
  /\ sched[p].pc = "fire"
  /\ \/ /\ status[t] \in RunnableStatus
        /\ SetStatus(t, "running")
        /\ sched' = [sched EXCEPT ![p].pc = "work"]
     \/ /\ status[t] \in RunnableStatus
        /\ SetStatus(t, "idle")
        /\ sched' = [sched EXCEPT ![p].pc = "record"]
     \/ /\ status[t] \notin RunnableStatus \/ RunMayKeepStatus
        /\ sched' = [sched EXCEPT ![p].pc = "record"]
        /\ UNCHANGED <<status, depsMet>>
  /\ UNCHANGED <<archived, runs, deaths>>

(* Slip: the task takes the status word of task_runs. *)
RunReturnsFailed(p) ==
  /\ sched[p].pc = "work"
  /\ sched' = [sched EXCEPT ![p].pc = "record"]
  /\ \/ \E s \in {"completed", "error"} : SetStatus(sched[p].task, s)
     \/ RunMayKeepStatus /\ UNCHANGED <<status, depsMet>>
  /\ UNCHANGED <<archived, runs, deaths>>

(* run_task ends: completed, blocked, or its blocking was denied. *)
RunReturns(p) ==
  /\ sched[p].pc = "work"
  /\ sched' = [sched EXCEPT ![p].pc = "record"]
  /\ \/ \E s \in {"completed", "idle"} : SetStatus(sched[p].task, s)
     \/ RunMayKeepStatus /\ UNCHANGED <<status, depsMet>>
  /\ UNCHANGED <<archived, runs, deaths>>

(* Slip: finished_at is not written. *)
CloseRunForgotten(i) == UNCHANGED runs
CloseRun(i) == runs' = [runs EXCEPT ![i].state = "finished"]

(* record_run_finish, in the finally clause of tick *)
RecordsFinish(p) ==
  /\ sched[p].pc = "record"
  /\ CloseRun(sched[p].run)
  /\ sched' = [sched EXCEPT ![p].pc = "scan", ![p].fired = @ + 1,
                            ![p].task = None, ![p].run = None]
  /\ UNCHANGED <<status, archived, deaths, depsMet>>

TickEnds(p) ==
  /\ sched[p].pc = "scan"
  /\ sched[p].todo = {}
  /\ sched' = [sched EXCEPT ![p] = Asleep]
  /\ UNCHANGED <<status, archived, runs, deaths, depsMet>>

TickStep(p) ==
  \/ TickBegins(p)
  \/ \E t \in Task : TaskSkipped(p, t) \/ TaskPasses(p, t)
  \/ RecordsStart(p) \/ RunBegins(p) \/ RunReturns(p) \/ RecordsFinish(p)
  \/ TickEnds(p)

(* The process is killed and started again: its row of task_runs stays     *)
(* "running" with no finished_at.                                          *)
Killed(p) ==
  /\ deaths < MaxDeaths
  /\ sched[p].pc # "sleep"
  /\ deaths' = deaths + 1
  /\ sched' = [sched EXCEPT ![p] = Asleep]
  /\ UNCHANGED <<status, archived, runs, depsMet>>

(* Ctrl-C: run_task is cancelled at its await, and the finally clause      *)
(* still records the finish; the task keeps the status "running".          *)
Interrupted(p) ==
  /\ deaths < MaxDeaths
  /\ sched[p].pc = "work"
  /\ deaths' = deaths + 1
  /\ CloseRun(sched[p].run)
  /\ sched' = [sched EXCEPT ![p] = Asleep]
  /\ UNCHANGED <<status, archived, depsMet>>

Next ==
  \/ ClientStep
  \/ TimePasses
  \/ \E p \in Sched : TickStep(p) \/ Killed(p) \/ Interrupted(p)

Spec == Init /\ [][Next]_vars

(* run_forever never stops polling, LLM calls end, and the clock advances. *)
Fairness == WF_vars(TimePasses) /\ \A p \in Sched : WF_vars(TickStep(p))

FairSpec == Spec /\ Fairness

-----------------------------------------------------------------------------
(* Properties.                                                             *)

(* max_concurrent_runs: evaluate_gates counts and record_run_start inserts *)
(* in separate connections, so N schedulers can pass on the same count;    *)
(* together they never overshoot by more than N - 1 open rows, whatever    *)
(* processes die and leave their row open.                                 *)
ConcurrencyBound ==
  Cardinality(ActiveRuns) <= MaxConcurrent + Cardinality(Sched) - 1

(* daily_budget_per_venture: in any day, at most DailyBudget + N - 1 runs  *)
(* of a venture are recorded by N schedulers, although a tick measures the *)
(* day with the clock of its beginning.                                    *)
RunsInDay(v) == {i \in RunsOf(v) : runs[i].age <= Day}
BudgetBound ==
  \A v \in Venture :
    Cardinality(RunsInDay(v)) <= DailyBudget + Cardinality(Sched) - 1

(* Why the two bounds hold: a scheduler that passed the gates and has not  *)
(* recorded its run yet weighs as much as a recorded run.                  *)
Starting == {p \in Sched : sched[p].pc = "start"}
ConcurrencyInv ==
  Cardinality(ActiveRuns) + Cardinality(Starting)
    <= MaxConcurrent + Cardinality(Sched) - 1

StartingFor(v) == {p \in Starting : VentureOf[sched[p].task] = v}
BudgetInv ==
  \A v \in Venture :
    Cardinality(RunsInDay(v)) + Cardinality(StartingFor(v))
      <= DailyBudget + Cardinality(Sched) - 1

(* A scheduler that fires owns an open row that no other scheduler closes. *)
OwnRun ==
  \A p \in Sched : HasRun(p) =>
    /\ sched[p].run \in RunId
    /\ runs[sched[p].run].state = "running"
    /\ \A q \in Sched \ {p} : HasRun(q) => sched[q].run # sched[p].run

(* cooldown_seconds: with one scheduler, two recorded runs of a venture    *)
(* start at least Cooldown apart, although the tick's clock is stale by    *)
(* the time it fires.                                                      *)
Recent(i) == runs[i].state # "free" /\ runs[i].age < MaxAge
CooldownKept ==
  \A i, j \in RunId :
    i # j /\ Recent(i) /\ Recent(j) /\ runs[i].venture = runs[j].venture
      => \/ runs[i].age - runs[j].age >= Cooldown
         \/ runs[j].age - runs[i].age >= Cooldown

(* Why CooldownKept holds: from the gates to the recording, the runs of    *)
(* the venture only age.                                                   *)
CooldownInv ==
  \A p \in Starting : \A i \in RunsOf(VentureOf[sched[p].task]) :
    runs[i].age >= Cooldown

(* No task is fired before each of its dependencies has been completed,    *)
(* although the list of tasks is older than the check.                     *)
DependenciesFirst ==
  \A p \in Sched : sched[p].task # None => Deps[sched[p].task] \subseteq depsMet

(* The history that DependenciesFirst reads is complete. *)
CompletedMet == \A t \in Task : status[t] = "completed" => t \in depsMet

(* design/pilotdeck-adoption-implementation.md:306, Tests: "no double-fire     *)
(* under concurrent ticks": two schedulers never work on the same task.    *)
NoDoubleFire ==
  \A p, q \in Sched :
    p # q /\ sched[p].pc = "work" /\ sched[q].pc = "work"
      => sched[p].task # sched[q].task

(* Once clients stay quiet, an approved task whose dependencies are        *)
(* completed is fired (or leaves "approved"), unless its venture is        *)
(* archived: budget, cooldown and concurrency only delay it, even when     *)
(* fewer than MaxConcurrent processes died with an open row.               *)
Waiting(t) ==
  /\ status[t] = "approved"
  /\ VentureOf[t] \notin archived
  /\ DependenciesSatisfied(t)

EventuallyFired ==
  <>[][~ClientStep]_vars => \A t \in Task : Waiting(t) ~> ~Waiting(t)
=============================================================================
