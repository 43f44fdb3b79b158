------------------------- MODULE TaskScheduler_proofs -------------------------
(***************************************************************************)
(* The gates of the scheduler, for every number of schedulers, tasks and   *)
(* ventures and every setting of budget, cooldown and concurrency.         *)
(***************************************************************************)
EXTENDS TaskScheduler, FiniteSetTheorems, TLAPS

-----------------------------------------------------------------------------
(* Types.                                                                  *)

(* The cap on ages lies past every window the gates look at. *)
LEMMA MaxAgeBounds ==
  MaxAge \in Nat /\ MaxAge >= 1 /\ MaxAge > Day + MaxLag /\ MaxAge > Cooldown + MaxLag
BY SchedulerAssumption DEF MaxAge

(* Only a tick in its scan chooses a task, so what fires has one. *)
LEMMA FiringTyped ==
  ASSUME TypeOK, [Next]_vars
  PROVE  \A p \in Sched : Firing(p)' => sched'[p].task \in Task
<1> SUFFICES ASSUME NEW q \in Sched, Firing(q)' PROVE sched'[q].task \in Task
  OBVIOUS
<1>1. ASSUME sched'[q].task = sched[q].task, Firing(q) PROVE sched'[q].task \in Task
  BY <1>1 DEF TypeOK
<1>3. CASE UNCHANGED sched
  BY <1>1, <1>3 DEF Firing
<1>4. CASE TimePasses
  BY <1>1, <1>4 DEF TimePasses, Firing, TypeOK, SchedState
<1>5. ASSUME NEW p \in Sched, NEW t \in Task, TaskPasses(p, t)
      PROVE  sched'[q].task \in Task
  BY <1>5 DEF TaskPasses, IsNext, TypeOK, SchedState, Firing
<1>6. ASSUME NEW p \in Sched, TickBegins(p) \/ TickEnds(p) \/ Killed(p) \/ Interrupted(p)
      PROVE  sched'[q].task \in Task
  <2>1. sched'[p].pc \in {"scan", "sleep"}
    BY <1>6 DEF TickBegins, TickEnds, Killed, Interrupted, Asleep, Scanning, TypeOK
  <2>2. p # q => sched'[q] = sched[q]
    BY <1>6 DEF TickBegins, TickEnds, Killed, Interrupted, TypeOK
  <2> QED  BY <1>1, <2>1, <2>2 DEF Firing
<1>7. ASSUME NEW p \in Sched, NEW t \in Task, TaskSkipped(p, t)
      PROVE  sched'[q].task \in Task
  BY <1>7 DEF TaskSkipped, TypeOK, SchedState, Firing
<1>8. ASSUME NEW p \in Sched, RecordsStart(p) \/ RunBegins(p) \/ RunReturns(p)
      PROVE  sched'[q].task \in Task
  BY <1>8 DEF RecordsStart, RunBegins, RunReturns, TypeOK, SchedState, Firing
<1>9. ASSUME NEW p \in Sched, RecordsFinish(p)
      PROVE  sched'[q].task \in Task
  BY <1>9 DEF RecordsFinish, TypeOK, SchedState, Firing
<1> QED
  BY <1>3, <1>4, <1>5, <1>6, <1>7, <1>8, <1>9
     DEF Next, ClientStep, ClientSetsStatus, ClientArchives, TickStep, vars

(* A step of a scheduler leaves its record typed. *)
LEMMA SchedTyped ==
  ASSUME TypeOK, [Next]_vars
  PROVE  sched' \in [Sched -> SchedState]
<1>1. CASE ClientStep \/ UNCHANGED vars
  BY <1>1 DEF ClientStep, ClientSetsStatus, ClientArchives, vars, TypeOK
<1>2. CASE TimePasses
  BY <1>2, SchedulerAssumption DEF TimePasses, TypeOK, SchedState
<1>3. ASSUME NEW p \in Sched, TickBegins(p) \/ TickEnds(p) \/ Killed(p) \/ Interrupted(p)
      PROVE  sched' \in [Sched -> SchedState]
  <2>1. Asleep \in SchedState /\ Scanning({t \in Task : status[t] = "approved"}) \in SchedState
    BY SchedulerAssumption DEF Asleep, Scanning, SchedState, SchedPC
  <2> QED  BY <1>3, <2>1 DEF TickBegins, TickEnds, Killed, Interrupted, TypeOK
<1>4. ASSUME NEW p \in Sched, NEW t \in Task, TaskSkipped(p, t) \/ TaskPasses(p, t)
      PROVE  sched' \in [Sched -> SchedState]
  BY <1>4 DEF TaskSkipped, TaskPasses, TypeOK, SchedState, SchedPC
<1>5. ASSUME NEW p \in Sched, RecordsStart(p)
      PROVE  sched' \in [Sched -> SchedState]
  <2>1. PICK i \in RunId : sched' = [sched EXCEPT ![p].pc = "fire", ![p].run = i]
    BY <1>5 DEF RecordsStart
  <2>2. [sched[p] EXCEPT !.pc = "fire", !.run = i] \in SchedState
    BY DEF TypeOK, SchedState, SchedPC
  <2>3. sched' = [sched EXCEPT ![p] = [sched[p] EXCEPT !.pc = "fire", !.run = i]]
    BY <2>1 DEF TypeOK
  <2> QED  BY <2>2, <2>3 DEF TypeOK
<1>6. ASSUME NEW p \in Sched, RunBegins(p) \/ RunReturns(p) \/ RecordsFinish(p)
      PROVE  sched' \in [Sched -> SchedState]
  BY <1>6 DEF RunBegins, RunReturns, RecordsFinish, TypeOK, SchedState, SchedPC
<1> QED  BY <1>1, <1>2, <1>3, <1>4, <1>5, <1>6 DEF Next, TickStep

(* Ageing keeps rows typed and only ever ages them. *)
LEMMA Ageing ==
  ASSUME TypeOK, TimePasses, NEW i \in RunId
  PROVE  /\ runs'[i] \in RunRow
         /\ runs'[i].state # "free" =>
              /\ runs[i].state = runs'[i].state
              /\ runs[i].venture = runs'[i].venture
              /\ runs'[i].age >= runs[i].age
              /\ runs'[i].age < MaxAge => runs'[i].age = runs[i].age + 1
         /\ runs[i].state = "running" => runs'[i].state = "running"
<1>1. runs[i] \in RunRow
  BY DEF TypeOK
<1>2. CASE runs[i].state = "free"
  BY <1>2 DEF TimePasses, NoRow, RunRow
<1>3. CASE runs[i].state # "free" /\ runs[i].age < MaxAge - 1
  <2>1. runs'[i] = [runs[i] EXCEPT !.age = @ + 1]
    BY <1>3 DEF TimePasses
  <2>2. runs[i] \in [state : {"running", "finished"}, venture : Venture, age : 0..MaxAge]
    BY <1>1, <1>3 DEF RunRow, NoRow
  <2> QED  BY <1>3, <2>1, <2>2, MaxAgeBounds DEF RunRow
<1>4. CASE runs[i].state = "finished" /\ ~(runs[i].age < MaxAge - 1)
  BY <1>4 DEF TimePasses, NoRow, RunRow
<1>5. CASE runs[i].state = "running" /\ ~(runs[i].age < MaxAge - 1)
  <2>1. runs'[i] = [runs[i] EXCEPT !.age = MaxAge]
    BY <1>5 DEF TimePasses
  <2>2. runs[i] \in [state : {"running", "finished"}, venture : Venture, age : 0..MaxAge]
    BY <1>1, <1>5 DEF RunRow, NoRow
  <2> QED  BY <1>5, <2>1, <2>2, MaxAgeBounds DEF RunRow
<1> QED  BY <1>1, <1>2, <1>3, <1>4, <1>5 DEF RunRow, NoRow

(* Closing an open row keeps the table typed. *)
LEMMA Closing ==
  ASSUME TypeOK, NEW i \in RunId, runs[i].state = "running", CloseRun(i)
  PROVE  /\ runs' \in [RunId -> RunRow]
         /\ \A j \in RunId : /\ j # i => runs'[j] = runs[j]
                             /\ runs'[j].venture = runs[j].venture
                             /\ runs'[j].age = runs[j].age
                             /\ runs'[j].state = "free" <=> runs[j].state = "free"
         /\ runs'[i].state = "finished"
<1>1. runs[i] \in [state : {"running", "finished"}, venture : Venture, age : 0..MaxAge]
  BY DEF TypeOK, RunRow, NoRow
<1>2. runs'[i] = [runs[i] EXCEPT !.state = "finished"]
  BY DEF CloseRun, TypeOK
<1>3. \A j \in RunId : j # i => runs'[j] = runs[j]
  BY DEF CloseRun, TypeOK
<1>4. runs'[i] \in RunRow
  BY <1>1, <1>2 DEF RunRow
<1>5. runs' \in [RunId -> RunRow]
  BY <1>3, <1>4 DEF CloseRun, TypeOK
<1> QED  BY <1>1, <1>2, <1>3, <1>5

(* What fires owns its open row, so types are kept too. *)
LEMMA TypeStep ==
  ASSUME TypeOK, OwnRun, [Next]_vars
  PROVE  TypeOK'
<1>1. sched' \in [Sched -> SchedState] /\ (\A p \in Sched : Firing(p)' => sched'[p].task \in Task)
  BY SchedTyped, FiringTyped
<1>2. runs' \in [RunId -> RunRow]
  <2>1. CASE TimePasses
    BY <2>1, Ageing DEF TimePasses
  <2>2. ASSUME NEW p \in Sched, RecordsStart(p) PROVE runs' \in [RunId -> RunRow]
    <3>1. VentureOf[sched[p].task] \in Venture
      BY <2>2, SchedulerAssumption DEF RecordsStart, TypeOK, Firing
    <3> QED  BY <2>2, <3>1, MaxAgeBounds DEF RecordsStart, TypeOK, RunRow
  <2>3. ASSUME NEW p \in Sched, RecordsFinish(p) \/ Interrupted(p)
        PROVE  runs' \in [RunId -> RunRow]
    BY <2>3, Closing DEF RecordsFinish, Interrupted, OwnRun, HasRun
  <2>4. CASE UNCHANGED runs
    BY <2>4 DEF TypeOK
  <2>5. CASE ClientStep \/ UNCHANGED vars
    BY <2>4, <2>5 DEF ClientStep, ClientSetsStatus, ClientArchives, vars
  <2>6. ASSUME NEW p \in Sched, TickStep(p), ~RecordsStart(p), ~RecordsFinish(p)
        PROVE  UNCHANGED runs
    BY <2>6 DEF TickStep, TickBegins, TaskSkipped, TaskPasses, RunBegins, RunReturns, TickEnds
  <2>7. ASSUME NEW p \in Sched, Killed(p) PROVE UNCHANGED runs
    BY <2>7 DEF Killed
  <2> QED  BY <2>1, <2>2, <2>3, <2>4, <2>5, <2>6, <2>7 DEF Next
<1>3. status' \in [Task -> Status] /\ depsMet' \subseteq Task
  <2>1. ASSUME NEW t \in Task, NEW s \in Status, SetStatus(t, s)
        PROVE  status' \in [Task -> Status] /\ depsMet' \subseteq Task
    BY <2>1 DEF SetStatus, TypeOK
  <2>2. CASE UNCHANGED <<status, depsMet>>
    BY <2>2 DEF TypeOK
  <2>3. ASSUME NEW p \in Sched, RunBegins(p) \/ RunReturns(p)
        PROVE  status' \in [Task -> Status] /\ depsMet' \subseteq Task
    <3>1. sched[p].task \in Task
      BY <2>3 DEF RunBegins, RunReturns, Firing, TypeOK
    <3> QED  BY <2>1, <2>2, <2>3, <3>1 DEF RunBegins, RunReturns, Status
  <2> QED
    BY <2>1, <2>2, <2>3
       DEF Next, vars, ClientStep, ClientSetsStatus, ClientArchives, TimePasses, TickStep,
           TickBegins, TaskSkipped, TaskPasses, RecordsStart, RecordsFinish, TickEnds,
           Killed, Interrupted
<1>4. archived' \subseteq Venture
  <2>1. ASSUME NEW v \in Venture, ClientArchives(v) PROVE archived' \subseteq Venture
    BY <2>1 DEF ClientArchives, TypeOK
  <2>2. (\E v \in Venture : ClientArchives(v)) \/ UNCHANGED archived
    BY DEF Next, vars, ClientStep, ClientSetsStatus, TimePasses, TickStep, TickBegins,
           TaskSkipped, TaskPasses, RecordsStart, RunBegins, RunReturns, RecordsFinish,
           TickEnds, Killed, Interrupted
  <2> QED  BY <2>1, <2>2 DEF TypeOK
<1>5. deaths' \in 0..MaxDeaths
  <2>1. UNCHANGED deaths \/ (deaths < MaxDeaths /\ deaths' = deaths + 1)
    BY DEF Next, vars, ClientStep, ClientSetsStatus, ClientArchives, TimePasses, TickStep,
           TickBegins, TaskSkipped, TaskPasses, RecordsStart, RunBegins, RunReturns,
           RecordsFinish, TickEnds, Killed, Interrupted
  <2> QED  BY <2>1, SchedulerAssumption DEF TypeOK
<1> QED  BY <1>1, <1>2, <1>3, <1>4, <1>5 DEF TypeOK

(* Every step keeps each open row with the scheduler that opened it. *)
LEMMA OwnStep ==
  ASSUME TypeOK, OwnRun, [Next]_vars
  PROVE  OwnRun'
<1> DEFINE Same(q) == /\ HasRun(q)' => HasRun(q) /\ sched'[q].run = sched[q].run
<1>1. ASSUME \A q \in Sched : Same(q),
             \A i \in RunId : runs[i].state = "running" => runs'[i].state = "running"
      PROVE  OwnRun'
  BY <1>1 DEF OwnRun
<1>2. CASE ClientStep \/ UNCHANGED vars
  BY <1>1, <1>2 DEF ClientStep, ClientSetsStatus, ClientArchives, vars, HasRun
<1>3. CASE TimePasses
  <2>1. \A q \in Sched : Same(q)
    BY <1>3 DEF TimePasses, HasRun, TypeOK, SchedState
  <2> QED  BY <1>1, <1>3, <2>1, Ageing
<1>4. ASSUME NEW p \in Sched, TickBegins(p) \/ TickEnds(p) \/ Killed(p)
      PROVE  OwnRun'
  <2>1. \A q \in Sched : Same(q)
    BY <1>4 DEF TickBegins, TickEnds, Killed, Asleep, Scanning, HasRun, TypeOK
  <2> QED  BY <1>1, <1>4, <2>1 DEF TickBegins, TickEnds, Killed
<1>5. ASSUME NEW p \in Sched, NEW t \in Task, TaskSkipped(p, t) \/ TaskPasses(p, t)
      PROVE  OwnRun'
  <2>1. \A q \in Sched : Same(q)
    BY <1>5 DEF TaskSkipped, TaskPasses, HasRun, TypeOK, SchedState
  <2> QED  BY <1>1, <1>5, <2>1 DEF TaskSkipped, TaskPasses
<1>6. ASSUME NEW p \in Sched, RunBegins(p) \/ RunReturns(p)
      PROVE  OwnRun'
  <2>1. \A q \in Sched : Same(q)
    BY <1>6 DEF RunBegins, RunReturns, HasRun, TypeOK, SchedState
  <2> QED  BY <1>1, <1>6, <2>1 DEF RunBegins, RunReturns
<1>7. ASSUME NEW p \in Sched, RecordsStart(p)
      PROVE  OwnRun'
  <2>1. PICK i \in RunId :
          /\ runs[i].state = "free"
          /\ runs' = [runs EXCEPT ![i] =
               [state |-> "running", venture |-> VentureOf[sched[p].task], age |-> 0]]
          /\ sched' = [sched EXCEPT ![p].pc = "fire", ![p].run = i]
    BY <1>7 DEF RecordsStart
  <2>2. runs'[i].state = "running" /\ \A j \in RunId \ {i} : runs'[j] = runs[j]
    BY <2>1 DEF TypeOK
  <2>3. sched'[p].run = i /\ \A q \in Sched \ {p} : sched'[q] = sched[q]
    BY <2>1 DEF TypeOK, SchedState
  <2>4. \A q \in Sched \ {p} : HasRun(q) => sched[q].run # i
    BY <2>1 DEF OwnRun
  <2> QED  BY <2>2, <2>3, <2>4 DEF OwnRun, HasRun
<1>8. ASSUME NEW p \in Sched, RecordsFinish(p) \/ Interrupted(p)
      PROVE  OwnRun'
  <2>1. HasRun(p) /\ CloseRun(sched[p].run)
    BY <1>8 DEF RecordsFinish, Interrupted, HasRun
  <2>2. \A j \in RunId \ {sched[p].run} : runs'[j] = runs[j]
    BY <2>1 DEF CloseRun, TypeOK
  <2>3. ~HasRun(p)' /\ \A q \in Sched \ {p} : sched'[q] = sched[q]
    BY <1>8 DEF RecordsFinish, Interrupted, Asleep, HasRun, TypeOK, SchedState
  <2> QED  BY <2>1, <2>2, <2>3 DEF OwnRun, HasRun
<1> QED
  BY <1>2, <1>3, <1>4, <1>5, <1>6, <1>7, <1>8 DEF Next, TickStep

(* Every reachable state is typed, and no scheduler closes the row of      *)
(* another.                                                                *)
THEOREM TypeCorrect == Spec => [](TypeOK /\ OwnRun)
<1>1. Init => TypeOK /\ OwnRun
  BY SchedulerAssumption
     DEF Init, TypeOK, OwnRun, HasRun, Firing, Asleep, NoRow, RunRow, SchedState, SchedPC, Status
<1>2. (TypeOK /\ OwnRun) /\ [Next]_vars => (TypeOK /\ OwnRun)'
  BY TypeStep, OwnStep
<1> QED  BY <1>1, <1>2, PTL DEF Spec

-----------------------------------------------------------------------------
(* Counting.                                                               *)

(* A subset of a finite set is finite and no larger. *)
LEMMA Smaller ==
  ASSUME NEW S, IsFiniteSet(S), NEW T \in SUBSET S
  PROVE  /\ IsFiniteSet(T) /\ Cardinality(T) \in Nat
         /\ Cardinality(S) \in Nat /\ Cardinality(T) <= Cardinality(S)
BY FS_Subset, FS_CardinalityType

(* The schedulers are counted, and there is one at least. *)
LEMMA SchedCount == Cardinality(Sched) \in Nat /\ Cardinality(Sched) >= 1
BY SchedulerAssumption, FS_EmptySet, FS_CardinalityType

(* The steps that neither pass the gates nor record a start: they open no  *)
(* row, rejuvenate none, and bring no scheduler to the point of starting.  *)
QuietStep ==
  /\ Starting' \subseteq Starting
  /\ \A p \in Starting' : sched'[p].task = sched[p].task
  /\ \A i \in RunId : runs'[i].state # "free" =>
       /\ runs[i].state # "free"
       /\ runs'[i].state = "running" => runs[i].state = "running"
       /\ runs'[i].venture = runs[i].venture
       /\ runs'[i].age >= runs[i].age

(* Every step but passing the gates and recording a start is quiet. *)
LEMMA StepsAreQuiet ==
  ASSUME TypeOK, OwnRun, [Next]_vars
  PROVE  \/ QuietStep
         \/ \E p \in Sched, t \in Task : TaskPasses(p, t)
         \/ \E p \in Sched : RecordsStart(p)
<1> USE DEF QuietStep
<1>0. \A i \in RunId : runs[i] \in RunRow /\ runs[i].age \in 0..MaxAge
  BY MaxAgeBounds DEF TypeOK, RunRow, NoRow
<1>1. CASE ClientStep \/ UNCHANGED vars
  BY <1>0, <1>1 DEF ClientStep, ClientSetsStatus, ClientArchives, vars, Starting
<1>2. CASE TimePasses
  <2>1. \A p \in Sched : sched'[p].pc = sched[p].pc /\ sched'[p].task = sched[p].task
    BY <1>2 DEF TimePasses, TypeOK, SchedState
  <2> QED  BY <1>2, <2>1, Ageing DEF Starting
<1>3. ASSUME NEW p \in Sched,
             TickBegins(p) \/ TickEnds(p) \/ Killed(p) \/ RunBegins(p) \/ RunReturns(p)
      PROVE  QuietStep
  <2>1. UNCHANGED runs
    BY <1>3 DEF TickBegins, TickEnds, Killed, RunBegins, RunReturns
  <2>2. sched'[p].pc # "start" /\ \A q \in Sched \ {p} : sched'[q] = sched[q]
    BY <1>3 DEF TickBegins, TickEnds, Killed, RunBegins, RunReturns, Asleep, Scanning,
                TypeOK, SchedState
  <2> QED  BY <1>0, <2>1, <2>2 DEF Starting
<1>4. ASSUME NEW p \in Sched, NEW t \in Task, TaskSkipped(p, t)
      PROVE  QuietStep
  <2>1. UNCHANGED runs /\ sched'[p].pc = "scan" /\ \A q \in Sched \ {p} : sched'[q] = sched[q]
    BY <1>4 DEF TaskSkipped, TypeOK, SchedState
  <2> QED  BY <1>0, <2>1 DEF Starting
<1>5. ASSUME NEW p \in Sched, RecordsFinish(p) \/ Interrupted(p)
      PROVE  QuietStep
  <2>1. HasRun(p) /\ CloseRun(sched[p].run)
    BY <1>5 DEF RecordsFinish, Interrupted, HasRun
  <2>2. sched[p].run \in RunId /\ runs[sched[p].run].state = "running"
    BY <2>1 DEF OwnRun
  <2>3. sched'[p].pc # "start" /\ \A q \in Sched \ {p} : sched'[q] = sched[q]
    BY <1>5 DEF RecordsFinish, Interrupted, Asleep, TypeOK, SchedState
  <2>4. \A i \in RunId : runs'[i].state # "free" =>
          /\ runs[i].state # "free"
          /\ runs'[i].state = "running" => runs[i].state = "running"
          /\ runs'[i].venture = runs[i].venture
          /\ runs'[i].age >= runs[i].age
    BY <1>0, <2>1, <2>2, Closing
  <2> QED  BY <2>3, <2>4 DEF Starting
<1> QED  BY <1>1, <1>2, <1>3, <1>4, <1>5 DEF Next, TickStep

(* A scheduler that passes the gates, and nothing else. *)
LEMMA Passing ==
  ASSUME TypeOK, NEW p \in Sched, NEW t \in Task, TaskPasses(p, t)
  PROVE  /\ UNCHANGED runs
         /\ GatesAllow(VentureOf[t], sched[p].lag)
         /\ sched'[p].task = t
         /\ \A q \in Sched \ {p} : sched'[q] = sched[q]
BY DEF TaskPasses, Passes, TypeOK, SchedState

(* A scheduler that records a start opens one row, of age 0. *)
LEMMA Recording ==
  ASSUME TypeOK, NEW p \in Sched, RecordsStart(p)
  PROVE  /\ sched[p].pc = "start" /\ sched'[p].pc = "fire"
         /\ \A q \in Sched \ {p} : sched'[q] = sched[q]
         /\ \E i \in RunId :
              /\ runs[i].state = "free"
              /\ runs'[i] = [state |-> "running", venture |-> VentureOf[sched[p].task], age |-> 0]
              /\ \A j \in RunId \ {i} : runs'[j] = runs[j]
BY DEF RecordsStart, TypeOK, SchedState

-----------------------------------------------------------------------------
(* max_concurrent_runs.                                                    *)

(* Every step keeps the weight of open rows and passed gates. *)
LEMMA ConcurrencyStep ==
  ASSUME TypeOK, OwnRun, ConcurrencyInv, [Next]_vars
  PROVE  ConcurrencyInv'
<1>0. IsFiniteSet(RunId) /\ IsFiniteSet(Sched) /\ MaxConcurrent \in Nat
  BY SchedulerAssumption
<1>1. ActiveRuns \subseteq RunId /\ Starting \subseteq Sched /\ Starting' \subseteq Sched
  BY DEF ActiveRuns, Starting
<1>2. /\ IsFiniteSet(ActiveRuns) /\ Cardinality(ActiveRuns) \in Nat
      /\ IsFiniteSet(Starting) /\ Cardinality(Starting) \in Nat
  BY <1>0, <1>1, Smaller
<1>3. CASE QuietStep
  <2>1. ActiveRuns' \subseteq ActiveRuns
    BY <1>3 DEF QuietStep, ActiveRuns
  <2>2. Starting' \subseteq Starting
    BY <1>3 DEF QuietStep
  <2> QED  BY <1>2, <2>1, <2>2, <1>0, SchedCount, Smaller DEF ConcurrencyInv
<1>4. ASSUME NEW p \in Sched, NEW t \in Task, TaskPasses(p, t)
      PROVE  ConcurrencyInv'
  <2>1. ActiveRuns' = ActiveRuns
    BY <1>4, Passing DEF ActiveRuns
  <2>2. Cardinality(ActiveRuns) <= MaxConcurrent - 1
    BY <1>0, <1>2, <1>4, Passing DEF GatesAllow
  <2>3. Cardinality(Starting') \in Nat /\ Cardinality(Starting') <= Cardinality(Sched)
    BY <1>0, <1>1, Smaller
  <2> QED  BY <1>0, <1>2, <2>1, <2>2, <2>3, SchedCount DEF ConcurrencyInv
<1>5. ASSUME NEW p \in Sched, RecordsStart(p)
      PROVE  ConcurrencyInv'
  <2>0. /\ sched[p].pc = "start" /\ sched'[p].pc = "fire"
        /\ \A q \in Sched \ {p} : sched'[q] = sched[q]
    BY <1>5, Recording
  <2>1. PICK i \in RunId :
          /\ runs[i].state = "free"
          /\ runs'[i] = [state |-> "running", venture |-> VentureOf[sched[p].task], age |-> 0]
          /\ \A j \in RunId \ {i} : runs'[j] = runs[j]
    BY <1>5, Recording
  <2>2. ActiveRuns' = ActiveRuns \cup {i} /\ i \notin ActiveRuns
    BY <2>1 DEF ActiveRuns
  <2>3. Starting' = Starting \ {p} /\ p \in Starting
    BY <2>0 DEF Starting
  <2>4. Cardinality(ActiveRuns') = Cardinality(ActiveRuns) + 1
    BY <1>2, <2>2, FS_AddElement
  <2>5. Cardinality(Starting') = Cardinality(Starting) - 1
    BY <1>2, <2>3, FS_RemoveElement
  <2> QED  BY <1>0, <1>2, <2>4, <2>5, SchedCount DEF ConcurrencyInv
<1> QED  BY <1>3, <1>4, <1>5, StepsAreQuiet

(* N schedulers never have more than max_concurrent_runs + N - 1 open rows *)
(* of task_runs, those that dead processes left open included.             *)
THEOREM ConcurrencyLimit == Spec => []ConcurrencyBound
<1>1. Init => ConcurrencyInv
  <2> SUFFICES ASSUME Init PROVE ConcurrencyInv
    OBVIOUS
  <2>1. ActiveRuns = {} /\ Starting = {}
    BY DEF Init, ActiveRuns, Starting, NoRow, Asleep
  <2> QED  BY <2>1, SchedCount, FS_EmptySet, SchedulerAssumption DEF ConcurrencyInv
<1>2. (TypeOK /\ OwnRun) /\ ConcurrencyInv /\ [Next]_vars => ConcurrencyInv'
  BY ConcurrencyStep
<1>3. ConcurrencyInv => ConcurrencyBound
  <2>1. IsFiniteSet(Starting) /\ IsFiniteSet(ActiveRuns)
    BY SchedulerAssumption, Smaller DEF Starting, ActiveRuns
  <2> QED  BY <2>1, SchedCount, FS_CardinalityType, SchedulerAssumption
           DEF ConcurrencyInv, ConcurrencyBound
<1> QED  BY <1>1, <1>2, <1>3, TypeCorrect, PTL DEF Spec

-----------------------------------------------------------------------------
(* daily_budget_per_venture.                                               *)

(* Every step keeps the weight of the day of every venture. *)
LEMMA BudgetStep ==
  ASSUME TypeOK, OwnRun, BudgetInv, [Next]_vars
  PROVE  BudgetInv'
<1> SUFFICES ASSUME NEW v \in Venture
             PROVE  (Cardinality(RunsInDay(v)) + Cardinality(StartingFor(v))
                       <= DailyBudget + Cardinality(Sched) - 1)'
  BY DEF BudgetInv
<1>f. IsFiniteSet(RunId) /\ IsFiniteSet(Sched) /\ DailyBudget \in Nat /\ Day \in Nat
  BY SchedulerAssumption
<1>0. Cardinality(RunsInDay(v)) + Cardinality(StartingFor(v)) <= DailyBudget + Cardinality(Sched) - 1
  BY DEF BudgetInv
<1>1. /\ RunsInDay(v) \subseteq RunId /\ StartingFor(v) \subseteq Sched
      /\ StartingFor(v)' \subseteq Sched
  BY DEF RunsInDay, RunsOf, StartingFor, Starting
<1>2. /\ IsFiniteSet(RunsInDay(v)) /\ Cardinality(RunsInDay(v)) \in Nat
      /\ IsFiniteSet(StartingFor(v)) /\ Cardinality(StartingFor(v)) \in Nat
  BY <1>f, <1>1, Smaller
<1>3. ASSUME RunsInDay(v)' \subseteq RunsInDay(v), StartingFor(v)' \subseteq StartingFor(v)
      PROVE  (Cardinality(RunsInDay(v)) + Cardinality(StartingFor(v))
                <= DailyBudget + Cardinality(Sched) - 1)'
  BY <1>f, <1>0, <1>2, <1>3, SchedCount, Smaller
<1>4. \A i \in RunId : runs[i].age \in Int
  BY MaxAgeBounds DEF TypeOK, RunRow, NoRow
<1>5. CASE QuietStep
  <2>1. RunsInDay(v)' \subseteq RunsInDay(v)
    <3>1. \A i \in RunId : runs'[i].state # "free" => runs'[i].age \in Int
      BY TypeStep, MaxAgeBounds DEF TypeOK, RunRow, NoRow
    <3> QED  BY <1>f, <1>4, <1>5, <3>1 DEF QuietStep, RunsInDay, RunsOf
  <2>2. StartingFor(v)' \subseteq StartingFor(v)
    BY <1>5 DEF QuietStep, StartingFor
  <2> QED  BY <1>3, <2>1, <2>2
<1>6. ASSUME NEW p \in Sched, NEW t \in Task, TaskPasses(p, t)
      PROVE  (Cardinality(RunsInDay(v)) + Cardinality(StartingFor(v))
                <= DailyBudget + Cardinality(Sched) - 1)'
  <2>1. RunsInDay(v)' = RunsInDay(v)
    BY <1>6, Passing DEF RunsInDay, RunsOf
  <2>2. CASE VentureOf[t] = v
    <3>1. RunsInDay(v) \subseteq RunsInWindow(v, sched[p].lag)
      <4>1. sched[p].lag \in Nat
        BY DEF TypeOK, SchedState
      <4> QED  BY <1>f, <1>4, <4>1 DEF RunsInDay, RunsInWindow, RunsOf
    <3>2. IsFiniteSet(RunsInWindow(v, sched[p].lag))
      BY <1>f, FS_Subset DEF RunsInWindow, RunsOf
    <3>3. Cardinality(RunsInWindow(v, sched[p].lag)) < DailyBudget
      BY <1>6, <2>2, Passing DEF GatesAllow
    <3>4. Cardinality(RunsInDay(v)) <= DailyBudget - 1
      BY <1>f, <1>2, <3>1, <3>2, <3>3, Smaller
    <3>5. Cardinality(StartingFor(v)') \in Nat /\ Cardinality(StartingFor(v)') <= Cardinality(Sched)
      BY <1>f, <1>1, Smaller
    <3> QED  BY <1>f, <1>2, <2>1, <3>4, <3>5, SchedCount
  <2>3. CASE VentureOf[t] # v
    <3>1. StartingFor(v)' \subseteq StartingFor(v)
      BY <1>6, <2>3, Passing DEF StartingFor, Starting
    <3> QED  BY <1>3, <2>1, <3>1
  <2> QED  BY <2>2, <2>3
<1>7. ASSUME NEW p \in Sched, RecordsStart(p)
      PROVE  (Cardinality(RunsInDay(v)) + Cardinality(StartingFor(v))
                <= DailyBudget + Cardinality(Sched) - 1)'
  <2>0. /\ sched[p].pc = "start" /\ sched'[p].pc = "fire"
        /\ \A q \in Sched \ {p} : sched'[q] = sched[q]
    BY <1>7, Recording
  <2>1. PICK i \in RunId :
          /\ runs[i].state = "free"
          /\ runs'[i] = [state |-> "running", venture |-> VentureOf[sched[p].task], age |-> 0]
          /\ \A j \in RunId \ {i} : runs'[j] = runs[j]
    BY <1>7, Recording
  <2>2. StartingFor(v)' = StartingFor(v) \ {p}
    BY <2>0 DEF StartingFor, Starting
  <2>3. CASE VentureOf[sched[p].task] = v
    <3>1. RunsInDay(v)' = RunsInDay(v) \cup {i} /\ i \notin RunsInDay(v)
      BY <1>f, <2>1, <2>3 DEF RunsInDay, RunsOf
    <3>2. p \in StartingFor(v)
      BY <2>0, <2>3 DEF StartingFor, Starting
    <3>3. Cardinality(RunsInDay(v)') = Cardinality(RunsInDay(v)) + 1
      BY <1>2, <3>1, FS_AddElement
    <3>4. Cardinality(StartingFor(v)') = Cardinality(StartingFor(v)) - 1
      BY <1>2, <2>2, <3>2, FS_RemoveElement
    <3> QED  BY <1>f, <1>0, <1>2, <3>3, <3>4, SchedCount
  <2>4. CASE VentureOf[sched[p].task] # v
    <3>1. RunsInDay(v)' \subseteq RunsInDay(v)
      BY <2>1, <2>4 DEF RunsInDay, RunsOf
    <3> QED  BY <1>3, <2>2, <3>1
  <2> QED  BY <2>3, <2>4
<1> QED  BY <1>5, <1>6, <1>7, StepsAreQuiet

(* N schedulers never record more than daily_budget_per_venture + N - 1    *)
(* runs of a venture in a day.                                             *)
THEOREM BudgetLimit == Spec => []BudgetBound
<1>1. Init => BudgetInv
  <2> SUFFICES ASSUME Init PROVE BudgetInv
    OBVIOUS
  <2>1. \A v \in Venture : RunsInDay(v) = {} /\ StartingFor(v) = {}
    BY DEF Init, RunsInDay, RunsOf, StartingFor, Starting, NoRow, Asleep
  <2>2. Cardinality({}) = 0 /\ DailyBudget \in Nat
    BY FS_EmptySet, SchedulerAssumption
  <2>3. \A v \in Venture :
          Cardinality(RunsInDay(v)) + Cardinality(StartingFor(v))
            <= DailyBudget + Cardinality(Sched) - 1
    BY <2>1, <2>2, SchedCount
  <2> QED  BY <2>3 DEF BudgetInv
<1>2. (TypeOK /\ OwnRun) /\ BudgetInv /\ [Next]_vars => BudgetInv'
  BY BudgetStep
<1>3. BudgetInv => BudgetBound
  <2>1. \A v \in Venture : IsFiniteSet(StartingFor(v)) /\ IsFiniteSet(RunsInDay(v))
    BY SchedulerAssumption, Smaller DEF StartingFor, Starting, RunsInDay, RunsOf
  <2> QED  BY <2>1, SchedCount, FS_CardinalityType, SchedulerAssumption
           DEF BudgetInv, BudgetBound
<1> QED  BY <1>1, <1>2, <1>3, TypeCorrect, PTL DEF Spec

-----------------------------------------------------------------------------
(* cooldown_seconds, with one scheduler.                                   *)

(* Two recent rows that no step closes or opens age alike. *)
Pace ==
  \A i, j \in RunId :
    Recent(i)' /\ Recent(j)' =>
      /\ Recent(i) /\ Recent(j)
      /\ runs'[i].venture = runs[i].venture /\ runs'[j].venture = runs[j].venture
      /\ runs'[i].age - runs[i].age = runs'[j].age - runs[j].age

(* Time adds the same to the ages of two recent runs. *)
LEMMA EvenPace ==
  ASSUME TypeOK, OwnRun, [Next]_vars
  PROVE  Pace \/ \E p \in Sched : RecordsStart(p)
<1>1. \A i \in RunId : runs[i].age \in 0..MaxAge
  BY MaxAgeBounds DEF TypeOK, RunRow, NoRow
<1>2. CASE TimePasses
  <2>1. ASSUME NEW i \in RunId, Recent(i)'
        PROVE  /\ Recent(i) /\ runs'[i].venture = runs[i].venture
               /\ runs'[i].age = runs[i].age + 1
    <3>1. runs'[i].state # "free" /\ runs'[i].age < MaxAge
      BY <2>1 DEF Recent
    <3>2. /\ runs[i].state = runs'[i].state /\ runs'[i].venture = runs[i].venture
          /\ runs'[i].age = runs[i].age + 1
      BY <1>2, <3>1, Ageing
    <3>3. runs[i].age < MaxAge
      BY <1>1, <3>1, <3>2, MaxAgeBounds
    <3> QED  BY <3>1, <3>2, <3>3 DEF Recent
  <2> QED  BY <1>1, <2>1 DEF Pace
<1>3. ASSUME NEW p \in Sched, RecordsFinish(p) \/ Interrupted(p)
      PROVE  Pace
  <2>1. HasRun(p) /\ CloseRun(sched[p].run)
    BY <1>3 DEF RecordsFinish, Interrupted, HasRun
  <2>2. sched[p].run \in RunId /\ runs[sched[p].run].state = "running"
    BY <2>1 DEF OwnRun
  <2>3. \A i \in RunId : /\ Recent(i)' => Recent(i)
                         /\ runs'[i].venture = runs[i].venture
                         /\ runs'[i].age = runs[i].age
    BY <2>1, <2>2, Closing DEF Recent
  <2> QED  BY <1>1, <2>3 DEF Pace
<1>4. CASE UNCHANGED runs
  BY <1>1, <1>4 DEF Pace, Recent
<1>5. \/ TimePasses \/ UNCHANGED runs
      \/ \E p \in Sched : RecordsStart(p) \/ RecordsFinish(p) \/ Interrupted(p)
  BY DEF Next, vars, ClientStep, ClientSetsStatus, ClientArchives, TickStep, TickBegins,
         TaskSkipped, TaskPasses, RunBegins, RunReturns, TickEnds, Killed
<1> QED  BY <1>2, <1>3, <1>4, <1>5

(* With one scheduler, nothing recent appears between gates and recording. *)
LEMMA CooldownInvStep ==
  ASSUME NEW p0 \in Sched, Sched = {p0}, TypeOK, OwnRun, CooldownInv, [Next]_vars
  PROVE  CooldownInv'
<1>1. \A i \in RunId : runs[i].age \in Int /\ runs'[i].age \in Int
  BY TypeStep, MaxAgeBounds DEF TypeOK, RunRow, NoRow
<1>2. Cooldown \in Nat
  BY SchedulerAssumption
<1>3. CASE QuietStep
  <2>1. ASSUME NEW p \in Starting', NEW i \in RunsOf(VentureOf[sched[p].task])'
        PROVE  runs'[i].age >= Cooldown
    <3>1. p \in Starting /\ sched'[p].task = sched[p].task
      BY <1>3 DEF QuietStep
    <3>2. i \in RunsOf(VentureOf[sched[p].task]) /\ runs'[i].age >= runs[i].age
      BY <1>3, <3>1 DEF QuietStep, RunsOf
    <3>3. runs[i].age >= Cooldown /\ i \in RunId
      BY <3>1, <3>2 DEF CooldownInv, RunsOf
    <3> QED  BY <1>1, <1>2, <3>2, <3>3
  <2> QED  BY <2>1 DEF CooldownInv
<1>4. ASSUME NEW p \in Sched, NEW t \in Task, TaskPasses(p, t)
      PROVE  CooldownInv'
  <2>1. /\ UNCHANGED runs /\ sched'[p].task = t
        /\ GatesAllow(VentureOf[t], sched[p].lag)
        /\ \A q \in Sched : q = p
    BY <1>4, Passing
  <2>2. sched[p].lag \in Nat
    BY DEF TypeOK, SchedState
  <2>3. \A i \in RunsOf(VentureOf[t]) : runs[i].age >= Cooldown
    BY <1>1, <1>2, <2>1, <2>2 DEF GatesAllow, CooledDown, RunsOf
  <2> QED  BY <2>1, <2>3 DEF CooldownInv, Starting, RunsOf
<1>5. ASSUME NEW p \in Sched, RecordsStart(p)
      PROVE  CooldownInv'
  <2>1. Starting' = {}
    BY <1>5, Recording DEF Starting
  <2> QED  BY <2>1 DEF CooldownInv
<1> QED  BY <1>3, <1>4, <1>5, StepsAreQuiet

(* With one scheduler, every step keeps the distance between starts. *)
LEMMA CooldownStep ==
  ASSUME TypeOK, OwnRun, CooldownInv, CooldownKept, [Next]_vars
  PROVE  CooldownKept'
<1>1. \A i \in RunId : runs[i].age \in Int
  BY MaxAgeBounds DEF TypeOK, RunRow, NoRow
<1>2. \A i \in RunId : runs'[i].age \in Int
  BY TypeStep, MaxAgeBounds DEF TypeOK, RunRow, NoRow
<1>3. Cooldown \in Nat
  BY SchedulerAssumption
<1>4. CASE Pace
  BY <1>1, <1>2, <1>3, <1>4 DEF Pace, CooldownKept
<1>5. ASSUME NEW p \in Sched, RecordsStart(p)
      PROVE  CooldownKept'
  <2>0. p \in Starting
    BY <1>5, Recording DEF Starting
  <2>1. PICK i \in RunId :
          /\ runs[i].state = "free"
          /\ runs'[i] = [state |-> "running", venture |-> VentureOf[sched[p].task], age |-> 0]
          /\ \A j \in RunId \ {i} : runs'[j] = runs[j]
    BY <1>5, Recording
  <2>2. ASSUME NEW j \in RunId \ {i}, Recent(j)', runs'[j].venture = runs'[i].venture
        PROVE  runs'[j].age - runs'[i].age >= Cooldown
    <3>1. j \in RunsOf(VentureOf[sched[p].task]) /\ runs'[j] = runs[j] /\ runs'[i].age = 0
      BY <2>1, <2>2 DEF RunsOf, Recent
    <3>2. runs[j].age >= Cooldown
      BY <2>0, <3>1 DEF CooldownInv
    <3> QED  BY <1>1, <1>3, <3>1, <3>2
  <2>3. ASSUME NEW j \in RunId \ {i}, NEW k \in RunId \ {i}, j # k,
               Recent(j)', Recent(k)', runs'[j].venture = runs'[k].venture
        PROVE  runs'[j].age - runs'[k].age >= Cooldown \/ runs'[k].age - runs'[j].age >= Cooldown
    BY <2>1, <2>3 DEF CooldownKept, Recent
  <2> QED  BY <2>2, <2>3 DEF CooldownKept
<1> QED  BY <1>4, <1>5, EvenPace

(* With one scheduler, two runs of a venture start at least                *)
(* cooldown_seconds apart, although a tick measures with a stale clock.    *)
THEOREM CooldownLimit ==
  ASSUME NEW p0 \in Sched, Sched = {p0}
  PROVE  Spec => []CooldownKept
<1>1. Init => CooldownInv /\ CooldownKept
  BY DEF Init, CooldownInv, CooldownKept, Starting, Recent, NoRow, Asleep
<1>2. (TypeOK /\ OwnRun) /\ (CooldownInv /\ CooldownKept) /\ [Next]_vars
        => (CooldownInv /\ CooldownKept)'
  BY CooldownInvStep, CooldownStep
<1> QED  BY <1>1, <1>2, TypeCorrect, PTL DEF Spec

-----------------------------------------------------------------------------
(* dependencies.                                                           *)

(* Every step keeps the history of completions complete. *)
LEMMA CompletedStep ==
  ASSUME TypeOK, CompletedMet, [Next]_vars
  PROVE  CompletedMet' /\ depsMet \subseteq depsMet'
<1>1. ASSUME NEW t, NEW s, SetStatus(t, s)
      PROVE  CompletedMet' /\ depsMet \subseteq depsMet'
  BY <1>1 DEF SetStatus, CompletedMet, TypeOK
<1>2. CASE UNCHANGED <<status, depsMet>>
  BY <1>2 DEF CompletedMet
<1>3. (\E t, s : SetStatus(t, s)) \/ UNCHANGED <<status, depsMet>>
  BY DEF Next, vars, ClientStep, ClientSetsStatus, ClientArchives, TimePasses, TickStep,
         TickBegins, TaskSkipped, TaskPasses, RecordsStart, RunBegins, RunReturns,
         RecordsFinish, TickEnds, Killed, Interrupted
<1> QED  BY <1>1, <1>2, <1>3

(* No task is fired before all it depends on has been completed.           *)
THEOREM DependencyOrder == Spec => []DependenciesFirst
<1>1. Init => CompletedMet /\ DependenciesFirst
  BY DEF Init, CompletedMet, DependenciesFirst, Asleep
<1>2. TypeOK /\ (CompletedMet /\ DependenciesFirst) /\ [Next]_vars
        => (CompletedMet /\ DependenciesFirst)'
  <2> SUFFICES ASSUME TypeOK, CompletedMet, DependenciesFirst, [Next]_vars
               PROVE  CompletedMet' /\ DependenciesFirst'
    OBVIOUS
  <2>1. CompletedMet' /\ depsMet \subseteq depsMet'
    BY CompletedStep
  <2>2. ASSUME NEW q \in Sched
        PROVE  \/ sched'[q].task \in {None, sched[q].task}
               \/ \E t \in Task : TaskPasses(q, t) /\ sched'[q].task = t
    <3>1. CASE ClientStep \/ UNCHANGED vars
      BY <3>1 DEF ClientStep, ClientSetsStatus, ClientArchives, vars
    <3>2. CASE TimePasses
      BY <3>2 DEF TimePasses, TypeOK, SchedState
    <3>3. ASSUME NEW p \in Sched, NEW t \in Task, TaskPasses(p, t)
          PROVE  sched'[q] = sched[q] \/ (q = p /\ sched'[q].task = t)
      BY <3>3, Passing
    <3>4. ASSUME NEW p \in Sched, NEW t \in Task, TaskSkipped(p, t)
          PROVE  sched'[q].task = sched[q].task
      BY <3>4 DEF TaskSkipped, TypeOK, SchedState
    <3>5. ASSUME NEW p \in Sched, RecordsStart(p) \/ RunBegins(p) \/ RunReturns(p)
          PROVE  sched'[q].task = sched[q].task
      BY <3>5 DEF RecordsStart, RunBegins, RunReturns, TypeOK, SchedState
    <3>6. ASSUME NEW p \in Sched, RecordsFinish(p)
          PROVE  sched'[q].task \in {None, sched[q].task}
      BY <3>6 DEF RecordsFinish, TypeOK, SchedState
    <3>7. ASSUME NEW p \in Sched, TickBegins(p) \/ TickEnds(p) \/ Killed(p) \/ Interrupted(p)
          PROVE  sched'[q].task \in {None, sched[q].task}
      BY <3>7 DEF TickBegins, TickEnds, Killed, Interrupted, Asleep, Scanning, TypeOK
    <3> QED  BY <3>1, <3>2, <3>3, <3>4, <3>5, <3>6, <3>7 DEF Next, TickStep
  <2>3. ASSUME NEW q \in Sched, NEW t \in Task, TaskPasses(q, t)
        PROVE  Deps[t] \subseteq depsMet
    BY <2>3, SchedulerAssumption DEF TaskPasses, Passes, DependenciesSatisfied, CompletedMet
  <2> QED  BY <2>1, <2>2, <2>3 DEF DependenciesFirst
<1> QED  BY <1>1, <1>2, TypeCorrect, PTL DEF Spec
=============================================================================
