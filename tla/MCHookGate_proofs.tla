--------------------------- MODULE MCHookGate_proofs ---------------------------
(***************************************************************************)
(* What the run `hooks` checks, for every value of the constants: the rate *)
(* limit of HookGate; what an initiative keeps through every migration of  *)
(* its schema; what a promotion and a session refer to; the rate limit and *)
(* the cache of searches; what applying and reverting a review does to the *)
(* configuration; what the memory of the board loses and tells; and what   *)
(* the composition of MCHookGate keeps, from the theorems about its parts: *)
(* whichever component a behaviour follows, the others stutter.            *)
(***************************************************************************)
EXTENDS MCHookGate, FiniteSetTheorems, TLAPS

-----------------------------------------------------------------------------
(* The hook gate.                                                          *)

(* Every reachable state is typed. *)
THEOREM TypeCorrect == Spec => []TypeOK
<1>1. Init => TypeOK
  BY GateAssumption DEF Init, TypeOK
<1>2. TypeOK /\ [Next]_vars => TypeOK'
  <2> SUFFICES ASSUME TypeOK, [Next]_vars PROVE TypeOK'
    OBVIOUS
  <2>1. CASE TimePasses
    <3>1. ASSUME NEW i \in EventId,
                 ~(events[i] = NoEvent \/ events[i].age = Window)
          PROVE  [events[i] EXCEPT !.age = @ + 1] \in Event
      BY <3>1, GateAssumption DEF TypeOK, Event
    <3> QED  BY <2>1, <3>1 DEF TimePasses, TypeOK
  <2>2. ASSUME NEW p \in Proc, HookCounts(p) PROVE TypeOK'
    BY <2>2 DEF HookCounts, TypeOK
  <2>3. ASSUME NEW p \in Proc, OtherHookDenies(p) PROVE TypeOK'
    BY <2>3 DEF OtherHookDenies, TypeOK
  <2>4. ASSUME NEW p \in Proc, Records(p) PROVE TypeOK'
    BY <2>4, GateAssumption DEF Records, TypeOK, Event
  <2>5. ASSUME NEW p \in Proc, Dies(p) PROVE TypeOK'
    BY <2>5 DEF Dies, TypeOK
  <2>6. CASE UNCHANGED vars
    BY <2>6 DEF vars, TypeOK
  <2> QED  BY <2>1, <2>2, <2>3, <2>4, <2>5, <2>6 DEF Next
<1> QED  BY <1>1, <1>2, PTL DEF Spec

(* The sets that are counted are finite, and counts are numbers. *)
LEMMA Counts ==
  /\ IsFiniteSet(InWindow) /\ Cardinality(InWindow) \in Nat
  /\ IsFiniteSet(AllowedInWindow) /\ Cardinality(AllowedInWindow) \in Nat
  /\ IsFiniteSet(Allowing) /\ Cardinality(Allowing) \in Nat
  /\ Cardinality(AllowedInWindow) <= Cardinality(InWindow)
  /\ Cardinality(Allowing) <= Cardinality(Proc)
  /\ Cardinality(Proc) \in Nat /\ Cardinality(Proc) >= 1
<1> USE GateAssumption
<1>1. InWindow \subseteq EventId /\ AllowedInWindow \subseteq InWindow /\ Allowing \subseteq Proc
  BY DEF InWindow, AllowedInWindow, Allowing
<1>2. Cardinality(Proc) \in Nat /\ Cardinality(Proc) # 0
  BY FS_CardinalityType, FS_EmptySet
<1> QED  BY <1>1, <1>2, FS_Subset, FS_CardinalityType

(* A subset of a finite set is no larger. *)
LEMMA Smaller ==
  ASSUME NEW S, IsFiniteSet(S), NEW T \in SUBSET S
  PROVE  /\ IsFiniteSet(T) /\ Cardinality(T) \in Nat
         /\ Cardinality(S) \in Nat /\ Cardinality(T) <= Cardinality(S)
BY FS_Subset, FS_CardinalityType

(* One step keeps the weight of allowed and allowing operations bounded. *)
LEMMA RateStep ==
  ASSUME TypeOK, RateInv, [Next]_vars
  PROVE  RateInv'
<1> USE GateAssumption
<1>1. ASSUME AllowedInWindow' \subseteq AllowedInWindow, Allowing' \subseteq Allowing
      PROVE  RateInv'
  BY <1>1, Counts, Smaller DEF RateInv
<1>2. CASE TimePasses
  <2>1. AllowedInWindow' \subseteq AllowedInWindow
    BY <1>2 DEF TimePasses, AllowedInWindow, NoEvent, TypeOK, Event
  <2>2. Allowing' = Allowing
    BY <1>2 DEF TimePasses, Allowing
  <2> QED  BY <1>1, <2>1, <2>2
<1>3. ASSUME NEW p \in Proc, HookCounts(p) PROVE RateInv'
  <2>1. AllowedInWindow' = AllowedInWindow
    BY <1>3 DEF HookCounts, AllowedInWindow
  <2>2. CASE Cardinality(InWindow) >= Limit
    <3>1. Allowing' \subseteq Allowing
      BY <1>3, <2>2 DEF HookCounts, Allowing, TypeOK
    <3> QED  BY <1>1, <2>1, <3>1
  <2>3. CASE ~(Cardinality(InWindow) >= Limit)
    <3>1. Cardinality(AllowedInWindow) <= Limit - 1
      BY <2>3, Counts
    <3>2. Allowing' \subseteq Proc
      BY DEF Allowing
    <3>3. Cardinality(Allowing') \in Nat /\ Cardinality(Allowing') <= Cardinality(Proc)
      BY <3>2, Smaller
    <3> QED  BY <2>1, <3>1, <3>3, Counts DEF RateInv
  <2> QED  BY <2>2, <2>3
<1>4. ASSUME NEW p \in Proc, OtherHookDenies(p) \/ Dies(p) PROVE RateInv'
  <2>1. AllowedInWindow' = AllowedInWindow
    BY <1>4 DEF OtherHookDenies, Dies, AllowedInWindow
  <2>2. Allowing' \subseteq Allowing
    BY <1>4 DEF OtherHookDenies, Dies, Allowing, TypeOK, Idle
  <2> QED  BY <1>1, <2>1, <2>2
<1>5. ASSUME NEW p \in Proc, Records(p) PROVE RateInv'
  <2>1. PICK i \in EventId :
          /\ events[i] = NoEvent
          /\ events' = [events EXCEPT ![i] =
               [action |-> IF verdict[p] = "allow" THEN "allow" ELSE "deny", age |-> 0]]
    BY <1>5 DEF Records
  <2>2. Allowing' = Allowing \ {p}
    BY <1>5 DEF Records, Allowing, TypeOK, Idle
  <2>3. CASE verdict[p] = "allow"
    <3>1. p \in Allowing /\ i \notin AllowedInWindow
      BY <2>1, <2>3 DEF Allowing, AllowedInWindow, NoEvent
    <3>2. AllowedInWindow' = AllowedInWindow \cup {i}
      BY <2>1, <2>3 DEF AllowedInWindow, TypeOK
    <3>3. Cardinality(AllowedInWindow') = Cardinality(AllowedInWindow) + 1
      BY <3>1, <3>2, Counts, FS_AddElement
    <3>4. Cardinality(Allowing') = Cardinality(Allowing) - 1
      BY <2>2, <3>1, Counts, FS_RemoveElement
    <3> QED  BY <3>3, <3>4, Counts DEF RateInv
  <2>4. CASE verdict[p] # "allow"
    <3>1. AllowedInWindow' \subseteq AllowedInWindow
      BY <2>1, <2>4 DEF AllowedInWindow, TypeOK
    <3> QED  BY <1>1, <2>2, <3>1
  <2> QED  BY <2>3, <2>4
<1>6. CASE UNCHANGED vars
  BY <1>1, <1>6 DEF vars, AllowedInWindow, Allowing
<1> QED  BY <1>2, <1>3, <1>4, <1>5, <1>6 DEF Next

(* At most Limit + N - 1 operations are let through in any window, by any  *)
(* number N of processes: Limit exactly, with one.                         *)
THEOREM RateLimitHolds == Spec => []RateBound
<1>1. Init => RateInv
  <2> SUFFICES ASSUME Init PROVE RateInv
    OBVIOUS
  <2>1. AllowedInWindow = {} /\ Allowing = {}
    BY DEF Init, AllowedInWindow, Allowing, NoEvent, Idle
  <2> QED  BY <2>1, Counts, FS_EmptySet, GateAssumption DEF RateInv
<1>2. TypeOK /\ RateInv /\ [Next]_vars => RateInv'
  BY RateStep
<1>3. RateInv => RateBound
  BY Counts, GateAssumption DEF RateInv, RateBound
<1> QED  BY <1>1, <1>2, <1>3, TypeCorrect, PTL DEF Spec

-----------------------------------------------------------------------------
(* Initiatives.                                                            *)

InitiativesSpec == InitiativesInit /\ [][InitiativesNext]_initiativeVars

WriterState == [pc : Steps \cup {"idle"}, op : Op, loaded : BOOLEAN, copy : Initiative]

(* A table that is not there holds nothing; what is loaded for a change    *)
(* was open, and if the row has been closed since, it is known to be old.  *)
MigrationInv ==
  /\ ~closeouts.exists => closeouts.row = 0
  /\ ~legacy.exists => legacy.row = 0

LoadedInv ==
  \A w \in Writer :
    /\ writer[w].copy.status # "closed"
    /\ writer[w].loaded /\ writer[w].op # "create" /\ initiative.status = "closed"
         => w \in outdated

InitiativesInv == InitiativesTypeOK /\ MigrationInv /\ CloseoutKept /\ LoadedInv

LEMMA InvInit == InitiativesInit => InitiativesInv
<1> SUFFICES ASSUME InitiativesInit PROVE InitiativesInv
  OBVIOUS
<1>1. PICK s \in Source, closed \in BOOLEAN :
        /\ initiative = [status |-> IF closed THEN "closed" ELSE "none", source |-> s]
        /\ last = IF closed THEN 1 ELSE 0
  BY DEF InitiativesInit
<1>2. (CHOOSE x \in Source : TRUE) \in Source
  BY InitiativesAssumption
<1>3. NoOperation \in WriterState
  BY <1>2 DEF NoOperation, WriterState, Steps, Op, Initiative, Status
<1>4. InitiativesTypeOK
  BY <1>1, <1>3, InitiativesAssumption
     DEF InitiativesInit, InitiativesTypeOK, Initiative, Status, Closeout, WriterState
<1>5. MigrationInv /\ CloseoutKept
  BY <1>1 DEF InitiativesInit, MigrationInv, CloseoutKept
<1>6. LoadedInv
  BY DEF InitiativesInit, LoadedInv, NoOperation
<1> QED  BY <1>4, <1>5, <1>6 DEF InitiativesInv

(* The tables: every statement of a migration, by any connection, leaves   *)
(* the newest closeout in one of them.                                     *)
TablesInv ==
  /\ closeouts \in [exists : BOOLEAN, nullable : BOOLEAN, row : Closeout]
  /\ legacy \in [exists : BOOLEAN, row : Closeout]
  /\ last \in Closeout
  /\ MigrationInv /\ CloseoutKept

LEMMA TablesStep ==
  ASSUME TablesInv, [InitiativesNext]_initiativeVars
  PROVE  TablesInv'
<1> USE DEF TablesInv, MigrationInv, CloseoutKept, Closeout
<1>1. CASE UNCHANGED <<closeouts, legacy, last>>
  BY <1>1
<1>2. ASSUME NEW w \in Writer, CreatesTables(w) PROVE TablesInv'
  BY <1>2 DEF CreatesTables
<1>3. ASSUME NEW w \in Writer, Recovers(w) PROVE TablesInv'
  BY <1>3 DEF Recovers
<1>4. ASSUME NEW w \in Writer, Renames(w) PROVE TablesInv'
  BY <1>4 DEF Renames
<1>5. ASSUME NEW w \in Writer, CreatesNullable(w) PROVE TablesInv'
  BY <1>5 DEF CreatesNullable
<1>6. ASSUME NEW w \in Writer, Copies(w) PROVE TablesInv'
  BY <1>6 DEF Copies
<1>7. ASSUME NEW w \in Writer, close_initiative(w) PROVE TablesInv'
  BY <1>7 DEF close_initiative
<1>8. ASSUME NEW w \in Writer,
             \/ WriterBegins(w) \/ Stops(w) \/ ChecksColumn(w) \/ FindsAbsent(w)
             \/ Inserts(w) \/ Loads(w) \/ _save_initiative(w)
      PROVE UNCHANGED <<closeouts, legacy, last>>
  BY <1>8 DEF WriterBegins, Stops, ChecksColumn, FindsAbsent, Inserts, Loads, _save_initiative
<1>9. CASE UNCHANGED initiativeVars
  BY <1>1, <1>9 DEF initiativeVars
<1> QED  BY <1>1, <1>2, <1>3, <1>4, <1>5, <1>6, <1>7, <1>8, <1>9 DEF InitiativesNext

(* Copies and what a writer is doing, with one part replaced.              *)
LEMMA Replaced ==
  /\ \A i \in Initiative, st \in Status :
       [i EXCEPT !.status = st] \in Initiative /\ [i EXCEPT !.status = st].status = st
  /\ \A d \in WriterState, i \in Initiative :
       LET loading == [d EXCEPT !.pc = "schema", !.loaded = TRUE, !.copy = i]
       IN loading \in WriterState /\ loading.copy = i
<1>1. ASSUME NEW i \in Initiative, NEW st \in Status
      PROVE  [i EXCEPT !.status = st] \in Initiative /\ [i EXCEPT !.status = st].status = st
  BY DEF Initiative
<1>2. ASSUME NEW d \in WriterState, NEW i \in Initiative
      PROVE  LET loading == [d EXCEPT !.pc = "schema", !.loaded = TRUE, !.copy = i]
             IN loading \in WriterState /\ loading.copy = i
  BY DEF WriterState, Steps
<1> QED  BY <1>1, <1>2

(* The row, and what each writer does with its copy of it.                 *)
RowInv ==
  /\ initiative \in Initiative /\ begun \in 0..MaxBegun
  /\ writer \in [Writer -> WriterState] /\ outdated \subseteq Writer
  /\ LoadedInv

(* A writer that goes on to its next step, or is done, disturbs nothing.   *)
LEMMA OneWriter ==
  ASSUME RowInv, NEW w \in Writer, NEW d \in WriterState,
         writer' = [writer EXCEPT ![w] = d],
         d.copy.status # "closed",
         d.loaded /\ d.op # "create" /\ initiative.status = "closed" => w \in outdated,
         UNCHANGED <<initiative, outdated>>, begun' \in 0..MaxBegun
  PROVE  RowInv'
BY DEF RowInv, LoadedInv

LEMMA RowStep ==
  ASSUME RowInv, [InitiativesNext]_initiativeVars
  PROVE  RowInv'
<1>0. NoOperation \in WriterState /\ NoOperation.copy.status = "none" /\ ~NoOperation.loaded
  BY InitiativesAssumption DEF NoOperation, WriterState, Steps, Op, Initiative, Status
<1>1. ASSUME NEW w \in Writer
      PROVE  /\ writer[w] \in WriterState /\ writer[w].copy.status # "closed"
             /\ \A pc \in Steps : [writer[w] EXCEPT !.pc = pc] \in WriterState
             /\ [writer[w] EXCEPT !.loaded = TRUE] \in WriterState
  BY DEF RowInv, LoadedInv, WriterState
<1>2. ASSUME NEW w \in Writer, NEW pc \in Steps, Proceeds(w, pc),
             UNCHANGED <<initiative, outdated, begun>>
      PROVE  RowInv'
  <2> DEFINE d == [writer[w] EXCEPT !.pc = pc]
  <2>1. d \in WriterState /\ d.copy = writer[w].copy /\ d.loaded = writer[w].loaded /\ d.op = writer[w].op
    BY <1>1 DEF WriterState
  <2>2. writer' = [writer EXCEPT ![w] = d]
    BY <1>2, <1>1 DEF Proceeds
  <2>3. begun' \in 0..MaxBegun /\ d.copy.status # "closed"
        /\ (d.loaded /\ d.op # "create" /\ initiative.status = "closed" => w \in outdated)
    BY <1>1, <1>2, <2>1 DEF RowInv, LoadedInv
  <2> HIDE DEF d
  <2> QED  BY <1>2, <2>1, <2>2, <2>3, OneWriter
<1>3. ASSUME NEW w \in Writer, WriterBegins(w) PROVE RowInv'
  <2>1. PICK op \in Op, s \in Source :
          writer' = [writer EXCEPT ![w] = [pc |-> "schema", op |-> op, loaded |-> FALSE,
                                           copy |-> [status |-> "draft", source |-> s]]]
    BY <1>3 DEF WriterBegins
  <2> DEFINE d == [pc |-> "schema", op |-> op, loaded |-> FALSE,
                   copy |-> [status |-> "draft", source |-> s]]
  <2>2. d \in WriterState /\ d.copy.status # "closed" /\ ~d.loaded
    BY DEF WriterState, Steps, Initiative, Status
  <2>3. begun' \in 0..MaxBegun
    BY <1>3, InitiativesAssumption DEF WriterBegins, RowInv
  <2>4. writer' = [writer EXCEPT ![w] = d]
    BY <2>1
  <2> HIDE DEF d
  <2> QED  BY <1>3, <2>2, <2>3, <2>4, OneWriter DEF WriterBegins
<1>4. ASSUME NEW w \in Writer, Stops(w) PROVE RowInv'
  <2>1. writer' = [writer EXCEPT ![w] = NoOperation] /\ UNCHANGED <<initiative, outdated, begun>>
    BY <1>4 DEF Stops, Done
  <2>2. begun' \in 0..MaxBegun
    BY <2>1 DEF RowInv
  <2> QED  BY <1>0, <2>1, <2>2, OneWriter
<1>5. ASSUME NEW w \in Writer,
             \/ CreatesTables(w) \/ Recovers(w) \/ ChecksColumn(w)
             \/ Renames(w) \/ CreatesNullable(w) \/ Copies(w)
      PROVE  RowInv'
  <2>1. /\ UNCHANGED <<initiative, outdated, begun>>
        /\ \E pc \in Steps : Proceeds(w, pc)
    BY <1>5 DEF CreatesTables, Recovers, ChecksColumn, Renames, CreatesNullable, Copies, Steps
  <2> QED  BY <1>2, <2>1
<1>6. ASSUME NEW w \in Writer, FindsAbsent(w) PROVE RowInv'
  <2> DEFINE d == [writer[w] EXCEPT !.loaded = TRUE]
  <2>1. d \in WriterState /\ d.copy.status # "closed" /\ d.op = "create"
    BY <1>1, <1>6 DEF WriterState, FindsAbsent
  <2>2. writer' = [writer EXCEPT ![w] = d]
    BY <1>1, <1>6 DEF FindsAbsent
  <2>3. begun' \in 0..MaxBegun /\ UNCHANGED <<initiative, outdated>>
    BY <1>6 DEF FindsAbsent, RowInv
  <2> HIDE DEF d
  <2> QED  BY <2>1, <2>2, <2>3, OneWriter
<1>7. ASSUME NEW w \in Writer, Inserts(w) PROVE RowInv'
  <2>1. /\ writer' = [writer EXCEPT ![w] = NoOperation] /\ initiative' = writer[w].copy
        /\ UNCHANGED <<outdated, begun>>
    BY <1>7 DEF Inserts, Done
  <2>2. initiative' \in Initiative /\ initiative'.status # "closed"
    BY <1>1, <2>1 DEF WriterState
  <2> QED  BY <1>0, <2>1, <2>2 DEF RowInv, LoadedInv
<1>8. ASSUME NEW w \in Writer, Loads(w) PROVE RowInv'
  <2> DEFINE d == [writer[w] EXCEPT !.pc = "schema", !.loaded = TRUE, !.copy = initiative]
  <2>1. d \in WriterState /\ d.copy = initiative
    BY <1>1, Replaced DEF RowInv
  <2>2. writer' = [writer EXCEPT ![w] = d]
    BY <1>1, <1>8 DEF Loads, RowInv, WriterState
  <2>3. initiative.status # "closed" /\ outdated' = outdated \ {w} /\ UNCHANGED <<initiative, begun>>
    BY <1>8 DEF Loads
  <2> HIDE DEF d
  <2> QED  BY <2>1, <2>2, <2>3 DEF RowInv, LoadedInv
<1>9. ASSUME NEW w \in Writer, _save_initiative(w) PROVE RowInv'
  <2> DEFINE saved == IF writer[w].op = "activate" THEN [writer[w].copy EXCEPT !.status = "active"]
                      ELSE writer[w].copy
  <2>1. /\ writer' = [writer EXCEPT ![w] = NoOperation] /\ initiative' = saved
        /\ UNCHANGED <<outdated, begun>>
    BY <1>9 DEF _save_initiative, Done
  <2>2. saved \in Initiative /\ saved.status # "closed"
    <3>1. writer[w].copy \in Initiative /\ "active" \in Status
      BY <1>1 DEF WriterState, Status
    <3> QED  BY <1>1, <3>1, Replaced
  <2> HIDE DEF saved
  <2> QED  BY <1>0, <2>1, <2>2 DEF RowInv, LoadedInv
<1>10. ASSUME NEW w \in Writer, close_initiative(w) PROVE RowInv'
  <2>1. /\ writer' = [writer EXCEPT ![w] = NoOperation]
        /\ initiative' = [writer[w].copy EXCEPT !.status = "closed"]
        /\ outdated' = {v \in Writer \ {w} : writer[v].loaded} /\ UNCHANGED begun
    BY <1>10 DEF close_initiative, Done
  <2>2. initiative' \in Initiative
    <3>1. writer[w].copy \in Initiative /\ "closed" \in Status
      BY <1>1 DEF WriterState, Status
    <3> QED  BY <2>1, <3>1, Replaced
  <2>3. \A v \in Writer : writer'[v].loaded => v \in outdated'
    BY <1>0, <2>1 DEF RowInv
  <2> QED  BY <1>0, <2>1, <2>2, <2>3 DEF RowInv, LoadedInv
<1>11. CASE UNCHANGED initiativeVars
  BY <1>11 DEF initiativeVars, RowInv, LoadedInv
<1> QED  BY <1>3, <1>4, <1>5, <1>6, <1>7, <1>8, <1>9, <1>10, <1>11 DEF InitiativesNext

LEMMA InvStep ==
  ASSUME InitiativesInv, [InitiativesNext]_initiativeVars
  PROVE  InitiativesInv' /\ RowInv
<1>1. TablesInv /\ RowInv
  BY DEF InitiativesInv, InitiativesTypeOK, TablesInv, RowInv, WriterState
<1>2. TablesInv' /\ RowInv'
  BY <1>1, TablesStep, RowStep
<1> QED  BY <1>1, <1>2 DEF InitiativesInv, InitiativesTypeOK, TablesInv, RowInv, WriterState

(* A closed initiative is changed only by a writer that is known to hold   *)
(* an older copy.                                                          *)
LEMMA ClosedStep ==
  ASSUME RowInv, [InitiativesNext]_initiativeVars
  PROVE  ClosedStays
<1> SUFFICES ASSUME initiative.status = "closed",
                    initiative'.status # "closed" \/ last' # last
             PROVE  \E w \in outdated : writer[w].loaded /\ ~writer'[w].loaded
  BY DEF ClosedStays
<1>1. PICK w \in Writer : Inserts(w) \/ _save_initiative(w) \/ close_initiative(w)
  BY DEF InitiativesNext, initiativeVars, WriterBegins, Stops, CreatesTables, Recovers,
         ChecksColumn, Renames, CreatesNullable, Copies, FindsAbsent, Loads
<1>2. ~Inserts(w)
  BY DEF Inserts
<1>3. /\ writer[w].loaded /\ writer' = [writer EXCEPT ![w] = NoOperation]
      /\ writer[w].op \in {"update", "activate", "close"}
  BY <1>1, <1>2 DEF _save_initiative, close_initiative, Done
<1>4. w \in outdated
  BY <1>3 DEF RowInv, LoadedInv
<1>5. ~writer'[w].loaded
  BY <1>3 DEF NoOperation, RowInv
<1> QED  BY <1>3, <1>4, <1>5

(* In every reachable state the newest closeout is in the table, or waits  *)
(* in the one it was renamed to, and what the invariants say of the        *)
(* writers holds.                                                          *)
THEOREM CloseoutSurvives == InitiativesSpec => [](InitiativesTypeOK /\ CloseoutKept)
<1>1. InitiativesInit => InitiativesInv
  BY InvInit
<1>2. InitiativesInv /\ [InitiativesNext]_initiativeVars => InitiativesInv'
  BY InvStep
<1>3. InitiativesInv => InitiativesTypeOK /\ CloseoutKept
  BY DEF InitiativesInv
<1> QED  BY <1>1, <1>2, <1>3, PTL DEF InitiativesSpec

(* A closed initiative is reopened, or closed again, only by a writer that *)
(* loaded it before it was closed.                                         *)
THEOREM ClosedInitiativeStays == InitiativesSpec => [][ClosedStays]_initiativeVars
<1>1. InitiativesInit => InitiativesInv
  BY InvInit
<1>2. InitiativesInv /\ [InitiativesNext]_initiativeVars => InitiativesInv'
  BY InvStep
<1>3. InitiativesInv /\ [InitiativesNext]_initiativeVars => [ClosedStays]_initiativeVars
  BY InvStep, ClosedStep
<1> QED  BY <1>1, <1>2, <1>3, PTL DEF InitiativesSpec

-----------------------------------------------------------------------------
(* The promotion of a candidate and its board session.                     *)

StartSpec == StartInit /\ [][StartNext]_startVars

Boarding == {"deliberate", "save", "record", "finish"}
CommandState == [pc : {"idle", "promote", "packet", "promoted", "start", "decide"} \cup Boarding,
          n : 0..MaxCommands, copy : Candidate, venture : Venture, again : BOOLEAN]

Exists(p) == p.venture \in ventures /\ p.packet \in evidence

(* A session whose file and ledger row, if it has one, name one promotion. *)
Proper(n) ==
  /\ held[n].status = "completed" /\ held[n].saved # {}
  /\ held[n].ledger = (IF held[n].recorded THEN held[n].saved ELSE {})

(* A candidate that may be the file or a copy of it, however old: what it  *)
(* names exists, what it has completed is proper, and it knows of no       *)
(* attempt more than has been made of it.                                  *)
Fits(x) ==
  /\ x \in Candidate
  /\ \A p \in x.promotion : Exists(p)
  /\ \A n \in Nth :
       /\ x.board_sessions[n] = "completed" => Proper(n)
       /\ n > commands => x.board_sessions[n] = "none"
  /\ \A c \in Command :
       /\ command[c].pc = "start" => x.board_sessions[command[c].n] = "none"
       /\ command[c].pc \in Boarding => x.board_sessions[command[c].n] \in {"none", "starting"}

(* What a command has made before its next step. *)
Made(k) ==
  /\ k.pc \in {"packet", "promoted"} => k.venture \in ventures /\ k.copy.promotion = {}
  /\ k.pc = "promoted" => k.n \in evidence
  /\ k.pc \in Boarding => k.copy.promotion # {} /\ (k.again \/ Completed(k.copy) = {})
  /\ k.pc \in {"record", "finish"} => held[k.n].saved = k.copy.promotion
  /\ k.pc \in {"save", "record"} => held[k.n].ledger = {}
  /\ k.pc = "finish" =>
       held[k.n].ledger = (IF held[k.n].recorded THEN k.copy.promotion ELSE {})

(* Commands under way have numbers of their own, and only a stale one      *)
(* holds another candidate than the file.                                  *)
Sound(c) ==
  /\ Fits(command[c].copy) /\ Made(command[c])
  /\ command[c].pc # "idle" =>
       /\ command[c].n \in 1..commands
       /\ c \notin stale => command[c].copy = candidate
       /\ \A d \in Command \ {c} : command[d].pc # "idle" => command[d].n # command[c].n

Typed ==
  /\ ventures \subseteq Venture /\ evidence \subseteq Nth
  /\ held \in [Nth -> SessionRow] /\ command \in [Command -> CommandState]
  /\ stale \subseteq Command /\ commands \in 0..MaxCommands

StartInv ==
  /\ Typed /\ Fits(candidate) /\ (\A c \in Command : Sound(c))
  /\ \A n \in Nth : \A p \in held[n].saved : Exists(p)

(* The invariant says what the run checks. *)
LEMMA StartInvMeaning == StartInv => StartTypeOK /\ StartGrounded
<1> SUFFICES ASSUME StartInv PROVE StartTypeOK /\ StartGrounded
  OBVIOUS
<1>1. StartTypeOK
  BY DEF StartInv, Typed, Fits, StartTypeOK, CommandState, Boarding
<1>2. \A p \in candidate.promotion \cup UNION {held[n].saved : n \in Nth} : Exists(p)
  BY DEF StartInv, Fits
<1>3. \A n \in Completed(candidate) : Proper(n)
  BY DEF StartInv, Fits, Completed
<1> QED  BY <1>1, <1>2, <1>3 DEF StartGrounded, Exists, Proper

LEMMA StartInvInit == StartInit => StartInv
<1> SUFFICES ASSUME StartInit PROVE StartInv
  OBVIOUS
<1> USE BoardStartAssumption
<1>1. (CHOOSE v \in Venture : TRUE) \in Venture
  OBVIOUS
<1>2. candidate \in Candidate /\ candidate.promotion = {}
      /\ \A n \in Nth : candidate.board_sessions[n] = "none"
  BY DEF StartInit
<1>3. NoCommand \in CommandState /\ NoCommand.pc = "idle" /\ NoCommand.copy = candidate
  BY <1>1, <1>2 DEF NoCommand, CommandState
<1>4. NoSession \in SessionRow /\ NoSession.saved = {}
  BY DEF NoSession, SessionRow
<1>5. \A c \in Command : command[c] = NoCommand
  BY DEF StartInit
<1>6. Typed
  BY <1>1, <1>3, <1>4 DEF StartInit, Typed
<1>7. Fits(candidate)
  BY <1>2, <1>3, <1>5 DEF Fits, Boarding
<1>8. \A c \in Command : Sound(c)
  BY <1>3, <1>5, <1>7 DEF Sound, Made, Boarding
<1>9. \A n \in Nth : held[n].saved = {}
  BY <1>4 DEF StartInit
<1> QED  BY <1>6, <1>7, <1>8, <1>9 DEF StartInv

-----------------------------------------------------------------------------
(* The steps of one command, k what it does next: stores only grow, and    *)
(* only the session the command holds may change.                          *)
Grows(c, k) ==
  /\ k \in CommandState /\ command' = [command EXCEPT ![c] = k]
  /\ ventures \subseteq ventures' /\ ventures' \subseteq Venture
  /\ evidence \subseteq evidence' /\ evidence' \subseteq Nth
  /\ commands' \in 0..MaxCommands /\ commands <= commands'
  /\ held' \in [Nth -> SessionRow]
  /\ \A n \in Nth : held'[n] # held[n] => command[c].pc \in Boarding /\ n = command[c].n
  /\ k.pc = "start" => commands < commands' /\ k.n = commands'
  /\ k.pc \in Boarding => command[c].pc \in Boarding \cup {"start"} /\ k.n = command[c].n

(* Whatever was a possible copy stays one. *)
LEMMA FitsKept ==
  ASSUME StartInv, NEW c \in Command, NEW k, Grows(c, k), NEW x, Fits(x)
  PROVE  Fits(x)'
<1> USE BoardStartAssumption
<1>1. x \in Candidate /\ \A p \in x.promotion : Exists(p)'
  BY DEF Fits, Grows, Exists
<1>2. ASSUME NEW n \in Nth, x.board_sessions[n] = "completed" PROVE Proper(n)'
  <2>1. held'[n] = held[n]
    BY <1>2 DEF Grows, Fits
  <2> QED  BY <1>2, <2>1 DEF Fits, Proper
<1>3. ASSUME NEW n \in Nth, n > commands' PROVE x.board_sessions[n] = "none"
  <2>1. n > commands
    BY <1>3 DEF Grows, Nth, StartInv, Typed
  <2> QED  BY <2>1 DEF Fits
<1>4. ASSUME NEW d \in Command
      PROVE  /\ command'[d].pc = "start" => x.board_sessions[command'[d].n] = "none"
             /\ command'[d].pc \in Boarding =>
                  x.board_sessions[command'[d].n] \in {"none", "starting"}
  <2>1. CASE d # c
    BY <2>1 DEF Grows, Fits, StartInv, Typed
  <2>2. CASE d = c
    <3>1. command'[d] = k
      BY <2>2 DEF Grows, StartInv, Typed
    <3>2. k.pc = "start" => x.board_sessions[k.n] = "none"
      BY DEF Grows, Fits, Nth, StartInv, Typed
    <3>3. k.pc \in Boarding => x.board_sessions[k.n] \in {"none", "starting"}
      BY DEF Grows, Fits, Boarding
    <3> QED  BY <3>1, <3>2, <3>3
  <2> QED  BY <2>1, <2>2
<1> QED  BY <1>1, <1>2, <1>3, <1>4 DEF Fits

(* The other commands stay sound, stale if the file was written.           *)
LEMMA OthersSound ==
  ASSUME StartInv, NEW c \in Command, NEW k, Grows(c, k),
         k.pc # "idle" => \/ k.n = command[c].n /\ command[c].pc # "idle"
                          \/ k.n = commands' /\ commands < commands',
         NEW d \in Command, d # c,
         command[d].pc # "idle" => d \in stale' \/ (candidate' = candidate /\ d \notin stale)
  PROVE  Sound(d)'
<1> USE BoardStartAssumption
<1>1. command'[d] = command[d] /\ command'[c] = k /\ Sound(d)
  BY DEF Grows, StartInv, Typed
<1>2. Fits(command[d].copy)'
  <2>1. PICK x : x = command[d].copy
    OBVIOUS
  <2>2. Fits(x)'
    BY <1>1, <2>1, FitsKept DEF Sound
  <2> QED  BY <1>1, <2>1, <2>2 DEF Fits
<1>3. command[d].pc # "idle" => command[d].n \in 1..commands'
  BY <1>1 DEF Sound, Grows, StartInv, Typed
<1>4. command[d].pc # "idle" /\ k.pc # "idle" => k.n # command[d].n
  BY <1>1 DEF Sound, Grows, StartInv, Typed
<1>5. \A e \in Command \ {c, d} : command'[e] = command[e]
  BY DEF Grows, StartInv, Typed
<1>6. command[d].pc # "idle" =>
        \A e \in Command \ {d} : command'[e].pc # "idle" => command'[e].n # command[d].n
  BY <1>1, <1>4, <1>5 DEF Sound
<1>7. command[d].pc \in {"save", "record", "finish"} =>
        held'[command[d].n] = held[command[d].n]
  <2> SUFFICES ASSUME command[d].pc \in {"save", "record", "finish"},
                      held'[command[d].n] # held[command[d].n]
               PROVE  FALSE
    OBVIOUS
  <2>1. command[d].n \in Nth
    BY <1>1 DEF Sound, Nth, StartInv, Typed
  <2>2. command[c].pc \in Boarding /\ command[d].n = command[c].n
    BY <2>1 DEF Grows
  <2>3. command[d].pc # "idle" /\ command[c].pc # "idle"
    BY <2>2 DEF Boarding
  <2>4. command[c].n # command[d].n
    BY <1>1, <2>3 DEF Sound
  <2> QED  BY <2>2, <2>4
<1> QED  BY <1>1, <1>2, <1>3, <1>6, <1>7 DEF Sound, Made, Grows, Completed, Boarding

-----------------------------------------------------------------------------
(* What every step has to show: what it leaves in the file and in its own  *)
(* copy, and what it has made.                                             *)
LEMMA OneCommand ==
  ASSUME StartInv, NEW c \in Command, NEW k, Grows(c, k),
         k.pc # "idle" =>
           /\ \/ k.n = command[c].n /\ command[c].pc # "idle"
              \/ k.n = commands' /\ commands < commands'
           /\ c \notin stale' => k.copy = candidate',
         \A d \in Command \ {c} :
           command[d].pc # "idle" => d \in stale' \/ (candidate' = candidate /\ d \notin stale),
         stale' \subseteq Command,
         Fits(candidate)', Fits(k.copy)', Made(k)',
         \A n \in Nth : \A p \in held'[n].saved : Exists(p)'
  PROVE  StartInv'
<1> USE BoardStartAssumption
<1>1. command'[c] = k /\ Sound(c)
  BY DEF Grows, StartInv, Typed
<1>2. ASSUME NEW d \in Command, d # c PROVE Sound(d)'
  BY <1>2, OthersSound
<1>3. Fits(command[c].copy)' /\ Made(command[c])'
  BY <1>1 DEF Fits, Made
<1>4. ASSUME k.pc # "idle"
      PROVE  /\ k.n \in 1..commands'
             /\ \A d \in Command \ {c} : command'[d].pc # "idle" => command'[d].n # k.n
  <2>1. \A d \in Command \ {c} : command'[d] = command[d] /\ Sound(d)
    BY DEF Grows, StartInv, Typed
  <2>2. k.n \in 1..commands'
    BY <1>1, <1>4 DEF Sound, Grows, StartInv, Typed
  <2>3. ASSUME NEW d \in Command, d # c, command[d].pc # "idle" PROVE command[d].n # k.n
    <3>1. command[d].n \in 1..commands /\ (command[c].pc # "idle" => command[d].n # command[c].n)
      BY <1>1, <2>1, <2>3 DEF Sound
    <3> QED  BY <1>4, <3>1 DEF Grows, StartInv, Typed
  <2> QED  BY <2>1, <2>2, <2>3
<1>5. Sound(c)'
  BY <1>1, <1>3, <1>4 DEF Sound
<1>6. Typed'
  BY DEF Grows, StartInv, Typed
<1> QED  BY <1>2, <1>5, <1>6 DEF StartInv, Exists

(* A step that leaves the file alone keeps it, and any copy, possible.     *)
LEMMA FileStays ==
  ASSUME StartInv, NEW c \in Command, NEW k, Grows(c, k), candidate' = candidate
  PROVE  Fits(candidate)' /\ (k.copy \in {command[c].copy, candidate} => Fits(k.copy)')
<1>1. PICK x : x = candidate
  OBVIOUS
<1>2. Fits(x)'
  BY <1>1, FitsKept DEF StartInv
<1>3. PICK y : y = k.copy
  OBVIOUS
<1>4. k.copy \in {command[c].copy, candidate} => Fits(y)
  BY <1>3 DEF StartInv, Sound
<1>5. k.copy \in {command[c].copy, candidate} => Fits(y)'
  BY <1>4, FitsKept
<1> QED  BY <1>1, <1>2, <1>3, <1>5 DEF Fits

(* What a command writes may be a copy: it differs from the command's copy *)
(* in its own attempt, which is proper if it is completed.                 *)
LEMMA FitsSaved ==
  ASSUME StartInv, NEW c \in Command, NEW k, Grows(c, k),
         command[c].pc # "idle", k.pc # "start",
         NEW x, Fits(x), NEW y \in Candidate,
         \A p \in y.promotion : Exists(p)',
         \A n \in Nth : y.board_sessions[n] # x.board_sessions[n] =>
           /\ n = command[c].n
           /\ y.board_sessions[n] = "completed" => Proper(n)',
         k.pc \in Boarding => y.board_sessions[command[c].n] \in {"none", "starting"}
  PROVE  Fits(y)'
<1> USE BoardStartAssumption
<1>1. Fits(x)' /\ Sound(c)
  BY FitsKept DEF StartInv
<1>2. command[c].n \in 1..commands /\ command[c].n \in Nth /\ commands \in Nat /\ commands' \in Nat
      /\ commands <= commands'
  BY <1>1 DEF Sound, Grows, Nth, StartInv, Typed
<1>3. ASSUME NEW n \in Nth
      PROVE  /\ y.board_sessions[n] = "completed" => Proper(n)'
             /\ n > commands' => y.board_sessions[n] = "none"
  BY <1>1, <1>2 DEF Fits, Nth
<1>4. ASSUME NEW d \in Command
      PROVE  /\ command'[d].pc = "start" => y.board_sessions[command'[d].n] = "none"
             /\ command'[d].pc \in Boarding =>
                  y.board_sessions[command'[d].n] \in {"none", "starting"}
  <2>1. CASE d # c
    <3>1. command'[d] = command[d]
      BY <2>1 DEF Grows, StartInv, Typed
    <3>2. command[d].pc # "idle" => command[d].n \in Nth /\ command[d].n # command[c].n
      BY <1>1, <1>2, <2>1 DEF Sound, StartInv, Nth, Typed
    <3>3. command[d].pc \in Boarding \cup {"start"} => command[d].pc # "idle"
      BY DEF Boarding
    <3>4. command[d].pc \in Boarding \cup {"start"} =>
            y.board_sessions[command[d].n] = x.board_sessions[command[d].n]
      BY <3>2, <3>3
    <3> QED  BY <1>1, <3>1, <3>4 DEF Fits
  <2>2. CASE d = c
    BY <2>2 DEF Grows, StartInv, Typed
  <2> QED  BY <2>1, <2>2
<1> QED  BY <1>3, <1>4 DEF Fits

-----------------------------------------------------------------------------
LEMMA Actor ==
  ASSUME StartInv, NEW c \in Command
  PROVE  /\ command[c] \in CommandState /\ Sound(c) /\ command[c].copy \in Candidate
         /\ (command[c].pc # "idle" => command[c].n \in Nth)
         /\ \A x \in Candidate : /\ [NoCommand EXCEPT !.copy = x] \in CommandState
                                 /\ [NoCommand EXCEPT !.copy = x].pc = "idle"
                                 /\ [NoCommand EXCEPT !.copy = x].copy = x
         /\ \A pc \in Boarding \cup {"promoted"} :
              /\ [command[c] EXCEPT !.pc = pc] \in CommandState
              /\ [command[c] EXCEPT !.pc = pc].pc = pc
              /\ \A d \in {[command[c] EXCEPT !.pc = pc]} :
                   /\ d.n = command[c].n /\ d.copy = command[c].copy
                   /\ d.venture = command[c].venture /\ d.again = command[c].again
<1> USE BoardStartAssumption
<1>1. command[c] \in CommandState /\ Sound(c)
  BY DEF StartInv, Typed
<1>2. (CHOOSE v \in Venture : TRUE) \in Venture
  OBVIOUS
<1>3. candidate \in Candidate
  BY DEF StartInv, Fits
<1>4. command[c].copy \in Candidate
  BY <1>1 DEF CommandState
<1>5. command[c].pc # "idle" => command[c].n \in Nth
  BY <1>1 DEF Sound, Nth, StartInv, Typed
<1>6. ASSUME NEW x \in Candidate
      PROVE  /\ [NoCommand EXCEPT !.copy = x] \in CommandState
             /\ [NoCommand EXCEPT !.copy = x].pc = "idle"
             /\ [NoCommand EXCEPT !.copy = x].copy = x
  <2>1. NoCommand \in CommandState /\ NoCommand.pc = "idle"
    BY <1>2, <1>3 DEF NoCommand, CommandState
  <2>2. \A d \in CommandState :
          /\ [d EXCEPT !.copy = x] \in CommandState
          /\ [d EXCEPT !.copy = x].pc = d.pc /\ [d EXCEPT !.copy = x].copy = x
    BY DEF CommandState
  <2> QED  BY <2>1, <2>2
<1>7. ASSUME NEW pc \in Boarding \cup {"promoted"}
      PROVE  /\ [command[c] EXCEPT !.pc = pc] \in CommandState
             /\ [command[c] EXCEPT !.pc = pc].pc = pc
             /\ \A d \in {[command[c] EXCEPT !.pc = pc]} :
                  /\ d.n = command[c].n /\ d.copy = command[c].copy
                  /\ d.venture = command[c].venture /\ d.again = command[c].again
  BY <1>1 DEF CommandState
<1> QED  BY <1>1, <1>4, <1>5, <1>6, <1>7

LEMMA ReadsStep ==
  ASSUME StartInv, NEW c \in Command, Reads(c)
  PROVE  StartInv'
<1> USE BoardStartAssumption
<1>1. PICK pc \in {"promote", "start", "decide"}, again \in BOOLEAN :
        command' = [command EXCEPT ![c] =
          [NoCommand EXCEPT !.pc = pc, !.n = commands', !.again = again]]
  BY DEF Reads
<1>2. PICK k : k = [NoCommand EXCEPT !.pc = pc, !.n = commands', !.again = again]
  OBVIOUS
<1>3. /\ commands' = commands + 1 /\ commands < MaxCommands /\ stale' = stale \ {c}
      /\ UNCHANGED <<candidate, ventures, evidence, held>> /\ command[c].pc = "idle"
  BY DEF Reads, At
<1>4. /\ commands' \in 0..MaxCommands /\ commands < commands' /\ commands' \in Nat
      /\ stale' \subseteq Command
  BY <1>3 DEF StartInv, Typed
<1>5. (CHOOSE v \in Venture : TRUE) \in Venture /\ candidate \in Candidate
  BY DEF StartInv, Fits
<1>6. k \in CommandState /\ k.pc = pc /\ k.n = commands' /\ k.copy = candidate
  BY <1>2, <1>4, <1>5 DEF NoCommand, CommandState
<1>7. Grows(c, k)
  BY <1>1, <1>2, <1>3, <1>4, <1>6 DEF Grows, StartInv, Typed, Boarding
<1>8. Fits(candidate)' /\ Fits(k.copy)'
  BY <1>3, <1>6, <1>7, FileStays
<1>9. Made(k)'
  BY <1>6 DEF Made, Boarding
<1>10. \A n \in Nth : \A p \in held'[n].saved : Exists(p)'
  BY <1>3 DEF StartInv, Exists
<1>11. \A d \in Command \ {c} :
         command[d].pc # "idle" => d \in stale' \/ (candidate' = candidate /\ d \notin stale)
  BY <1>3
<1> QED  BY <1>3, <1>4, <1>6, <1>7, <1>8, <1>9, <1>10, <1>11, OneCommand

LEMMA QuietStep ==
  ASSUME StartInv, NEW c \in Command,
         \/ GivesUp(c) \/ ChoosesVenture(c) \/ create_evidence_packet(c)
         \/ Deliberates(c) \/ SavesSession(c) \/ record_discovery_provenance(c)
  PROVE  StartInv'
<1> USE BoardStartAssumption
<1>a. /\ command[c] \in CommandState /\ Sound(c) /\ command[c].copy \in Candidate
      /\ (command[c].pc # "idle" => command[c].n \in Nth)
      /\ candidate \in Candidate
  BY Actor DEF StartInv, Fits
<1>b. ASSUME NEW k, Grows(c, k), candidate' = candidate, command[c].pc # "idle",
             \/ k.pc = "idle" /\ k.copy = candidate /\ stale' = stale \ {c}
             \/ k.n = command[c].n /\ k.copy = command[c].copy /\ stale' = stale,
             Made(k)', \A n \in Nth : \A p \in held'[n].saved : Exists(p)'
      PROVE  StartInv'
  <2>1. Fits(candidate)' /\ Fits(k.copy)'
    BY <1>b, FileStays
  <2>2. k.pc # "idle" =>
           /\ \/ k.n = command[c].n /\ command[c].pc # "idle"
              \/ k.n = commands' /\ commands < commands'
           /\ c \notin stale' => k.copy = candidate'
    BY <1>a, <1>b DEF Sound
  <2>3. stale' \subseteq Command /\ \A d \in Command \ {c} :
           command[d].pc # "idle" => d \in stale' \/ (candidate' = candidate /\ d \notin stale)
    BY <1>b DEF StartInv, Typed
  <2> QED  BY <1>b, <2>1, <2>2, <2>3, OneCommand
<1>1. CASE GivesUp(c)
  <2>1. PICK k : k = [NoCommand EXCEPT !.copy = candidate']
    OBVIOUS
  <2>2. /\ command' = [command EXCEPT ![c] = k] /\ command[c].pc # "idle"
        /\ UNCHANGED <<candidate, ventures, evidence, held, commands>> /\ stale' = stale \ {c}
    BY <1>1, <2>1 DEF GivesUp, Ends, At
  <2>3. k \in CommandState /\ k.pc = "idle" /\ k.copy = candidate
    BY <1>a, <2>1, <2>2, Actor
  <2>4. Grows(c, k)
    BY <2>2, <2>3 DEF Grows, StartInv, Typed, Boarding
  <2>5. Made(k)'
    BY <2>3 DEF Made, Boarding
  <2>6. \A n \in Nth : \A p \in held'[n].saved : Exists(p)'
    BY <2>2 DEF StartInv, Exists
  <2> QED  BY <1>b, <2>2, <2>3, <2>4, <2>5, <2>6
<1>2. CASE ChoosesVenture(c)
  <2>1. PICK v \in Venture :
          /\ ventures' = ventures \cup {v}
          /\ command' = [command EXCEPT ![c].pc = "packet", ![c].venture = v]
    BY <1>2 DEF ChoosesVenture
  <2>2. PICK k : k = [command[c] EXCEPT !.pc = "packet", !.venture = v]
    OBVIOUS
  <2>3. /\ command' = [command EXCEPT ![c] = k] /\ command[c].pc # "idle"
        /\ UNCHANGED <<candidate, evidence, held, commands, stale>>
        /\ command[c].copy.promotion = {}
    BY <1>2, <2>1, <2>2 DEF ChoosesVenture, At, StartInv, Typed
  <2>4. /\ k \in CommandState /\ k.pc = "packet" /\ k.venture = v
        /\ k.n = command[c].n /\ k.copy = command[c].copy
    BY <1>a, <2>2 DEF CommandState
  <2>5. Grows(c, k)
    <3>1. ventures \subseteq ventures' /\ ventures' \subseteq Venture
      BY <2>1 DEF StartInv, Typed
    <3> QED  BY <2>3, <2>4, <3>1 DEF Grows, StartInv, Typed, Boarding
  <2>6. Made(k)'
    BY <2>1, <2>3, <2>4 DEF Made, Boarding
  <2>7. \A n \in Nth : \A p \in held'[n].saved : Exists(p)'
    BY <2>1, <2>3 DEF StartInv, Exists
  <2> QED  BY <1>b, <2>3, <2>4, <2>5, <2>6, <2>7
<1>3. CASE create_evidence_packet(c)
  <2>1. PICK k : k = [command[c] EXCEPT !.pc = "promoted"]
    OBVIOUS
  <2>2. /\ command' = [command EXCEPT ![c] = k] /\ command[c].pc = "packet"
        /\ evidence' = evidence \cup {command[c].n}
        /\ UNCHANGED <<candidate, ventures, held, commands, stale>>
    BY <1>3, <2>1 DEF create_evidence_packet, At, StepsTo, StartInv, Typed
  <2>3. /\ k \in CommandState /\ k.pc = "promoted" /\ k.venture = command[c].venture
        /\ k.n = command[c].n /\ k.copy = command[c].copy
    BY <2>1, Actor
  <2>4. Grows(c, k)
    BY <1>a, <2>2, <2>3 DEF Grows, StartInv, Typed, Boarding
  <2>5. Made(k)'
    BY <1>a, <2>2, <2>3 DEF Sound, Made, Boarding
  <2>6. \A n \in Nth : \A p \in held'[n].saved : Exists(p)'
    BY <2>2 DEF StartInv, Exists
  <2> QED  BY <1>b, <2>2, <2>3, <2>4, <2>5, <2>6
<1>4. CASE Deliberates(c)
  <2>1. PICK status \in {"completed", "failed"}, recorded \in BOOLEAN :
          held' = [held EXCEPT ![command[c].n] =
                     [NoSession EXCEPT !.status = status, !.recorded = recorded]]
    BY <1>4 DEF Deliberates
  <2>2. PICK k : k = [command[c] EXCEPT !.pc = "save"]
    OBVIOUS
  <2>3. /\ command' = [command EXCEPT ![c] = k] /\ command[c].pc = "deliberate"
        /\ UNCHANGED <<candidate, ventures, evidence, commands, stale>>
    BY <1>4, <2>2 DEF Deliberates, At, StepsTo, StartInv, Typed
  <2>4. /\ k \in CommandState /\ k.pc = "save" /\ k.again = command[c].again
        /\ k.n = command[c].n /\ k.copy = command[c].copy
    <3>1. "save" \in Boarding \cup {"promoted"}
      BY DEF Boarding
    <3> QED  BY <2>2, <3>1, Actor
  <2>5. /\ [NoSession EXCEPT !.status = status, !.recorded = recorded] \in SessionRow
        /\ [NoSession EXCEPT !.status = status, !.recorded = recorded].saved = {}
        /\ [NoSession EXCEPT !.status = status, !.recorded = recorded].ledger = {}
    BY DEF NoSession, SessionRow
  <2>6. Grows(c, k)
    BY <1>a, <2>1, <2>3, <2>4, <2>5 DEF Grows, StartInv, Typed, Boarding
  <2>7. Made(k)'
    BY <1>a, <2>1, <2>3, <2>4, <2>5 DEF Sound, Made, Boarding, Completed, StartInv, Typed
  <2>8. \A n \in Nth : \A p \in held'[n].saved : Exists(p)'
    BY <2>1, <2>3, <2>5 DEF StartInv, Typed, Exists
  <2> QED  BY <1>b, <2>3, <2>4, <2>6, <2>7, <2>8
<1>5. CASE SavesSession(c)
  <2>1. PICK k : k = [command[c] EXCEPT !.pc = "record"]
    OBVIOUS
  <2>2. /\ command' = [command EXCEPT ![c] = k] /\ command[c].pc = "save"
        /\ held' = [held EXCEPT ![command[c].n].saved = command[c].copy.promotion]
        /\ UNCHANGED <<candidate, ventures, evidence, commands, stale>>
    BY <1>5, <2>1 DEF SavesSession, At, StepsTo, StartInv, Typed
  <2>3. /\ k \in CommandState /\ k.pc = "record" /\ k.again = command[c].again
        /\ k.n = command[c].n /\ k.copy = command[c].copy
    BY <2>1, Actor DEF Boarding
  <2>4. \A row \in SessionRow, x \in Candidate :
          /\ [row EXCEPT !.saved = x.promotion] \in SessionRow
          /\ [row EXCEPT !.saved = x.promotion].saved = x.promotion
          /\ [row EXCEPT !.saved = x.promotion].ledger = row.ledger
    BY DEF SessionRow, Candidate
  <2>5. /\ held' \in [Nth -> SessionRow] /\ held'[command[c].n].saved = command[c].copy.promotion
        /\ held'[command[c].n].ledger = held[command[c].n].ledger
        /\ \A n \in Nth : n # command[c].n => held'[n] = held[n]
    BY <1>a, <2>2, <2>4 DEF StartInv, Typed
  <2>6. Grows(c, k)
    BY <1>a, <2>2, <2>3, <2>5 DEF Grows, StartInv, Typed, Boarding
  <2>7. Made(k)'
    BY <1>a, <2>2, <2>3, <2>5 DEF Sound, Made, Boarding, Completed
  <2>8. \A n \in Nth : \A p \in held'[n].saved : Exists(p)'
    BY <1>a, <2>2, <2>5 DEF StartInv, Sound, Fits, Exists
  <2> QED  BY <1>b, <2>2, <2>3, <2>6, <2>7, <2>8
<1>6. CASE record_discovery_provenance(c)
  <2>1. PICK k : k = [command[c] EXCEPT !.pc = "finish"]
    OBVIOUS
  <2>2. /\ command' = [command EXCEPT ![c] = k] /\ command[c].pc = "record"
        /\ held' = [held EXCEPT ![command[c].n].ledger = IF held[command[c].n].recorded
                                    THEN command[c].copy.promotion ELSE @]
        /\ UNCHANGED <<candidate, ventures, evidence, commands, stale>>
    BY <1>6, <2>1 DEF record_discovery_provenance, At, StepsTo, StartInv, Typed
  <2>3. /\ k \in CommandState /\ k.pc = "finish" /\ k.again = command[c].again
        /\ k.n = command[c].n /\ k.copy = command[c].copy
    <3>1. "finish" \in Boarding \cup {"promoted"}
      BY DEF Boarding
    <3> QED  BY <2>1, <3>1, Actor
  <2>4. PICK row, x : /\ row = held[command[c].n]
                      /\ x = IF row.recorded THEN command[c].copy.promotion ELSE row.ledger
    OBVIOUS
  <2>9. /\ row \in SessionRow /\ x \in SUBSET Promotion
        /\ held' = [held EXCEPT ![command[c].n].ledger = x]
    BY <1>a, <2>2, <2>4 DEF StartInv, Typed, SessionRow, Candidate
  <2>10. PICK new : new = [row EXCEPT !.ledger = x]
    OBVIOUS
  <2>11. /\ new \in SessionRow /\ new.saved = row.saved
         /\ new.recorded = row.recorded /\ new.ledger = x
    BY <2>9, <2>10 DEF SessionRow
  <2>12. held' = [held EXCEPT ![command[c].n] = new]
    BY <2>4, <2>9, <2>10
  <2>13. /\ held' \in [Nth -> SessionRow] /\ held'[command[c].n] = new
         /\ \A n \in Nth : n # command[c].n => held'[n] = held[n]
    <3>1. command[c].n \in Nth /\ held \in [Nth -> SessionRow]
      BY <1>a, <2>2 DEF StartInv, Typed
    <3> QED  BY <2>11, <2>12, <3>1
  <2>5. /\ held' \in [Nth -> SessionRow] /\ held'[command[c].n].ledger = x
        /\ held'[command[c].n].recorded = row.recorded
        /\ \A n \in Nth : held'[n].saved = held[n].saved /\ (n # command[c].n => held'[n] = held[n])
    BY <2>4, <2>11, <2>13
  <2>6. Grows(c, k)
    BY <1>a, <2>2, <2>3, <2>5 DEF Grows, StartInv, Typed, Boarding
  <2>7. Made(k)'
    <3>1. /\ row.saved = command[c].copy.promotion /\ row.ledger = {}
          /\ command[c].copy.promotion # {}
          /\ command[c].again \/ Completed(command[c].copy) = {}
      BY <1>a, <2>2, <2>4 DEF Sound, Made, Boarding
    <3>2. held'[k.n].saved = row.saved /\ held'[k.n].ledger = x /\ held'[k.n].recorded = row.recorded
      BY <1>a, <2>2, <2>3, <2>4, <2>5
    <3> QED  BY <2>3, <2>4, <3>1, <3>2 DEF Made, Boarding, Completed
  <2>8. \A n \in Nth : \A p \in held'[n].saved : Exists(p)'
    BY <2>2, <2>5 DEF StartInv, Exists
  <2> QED  BY <1>b, <2>2, <2>3, <2>6, <2>7, <2>8
<1> QED  BY <1>1, <1>2, <1>3, <1>4, <1>5, <1>6

-----------------------------------------------------------------------------
(* The steps that write the file. *)
LEMMA SaveStep ==
  ASSUME StartInv, NEW c \in Command, NEW k, Grows(c, k), NEW y, Saves(c, y),
         UNCHANGED <<held, commands>>,
         command[c].pc # "idle", k.copy = y, k.pc # "idle" => k.n = command[c].n,
         Fits(y)', Made(k)'
  PROVE  StartInv'
<1>1. /\ candidate' = y /\ stale' \subseteq Command /\ c \notin stale'
      /\ \A d \in Command \ {c} : command[d].pc # "idle" => d \in stale'
  BY DEF Saves, At
<1>2. Fits(candidate)' /\ Fits(k.copy)'
  BY <1>1 DEF Fits
<1>3. \A n \in Nth : \A p \in held'[n].saved : Exists(p)'
  BY DEF StartInv, Exists, Grows
<1> QED  BY <1>1, <1>2, <1>3, OneCommand

LEMMA SavesPromotionStep ==
  ASSUME StartInv, NEW c \in Command, SavesPromotion(c)
  PROVE  StartInv'
<1> USE BoardStartAssumption
<1>1. PICK x, y, p, k :
        /\ x = command[c].copy
        /\ p = [venture |-> command[c].venture, packet |-> command[c].n]
        /\ y = [x EXCEPT !.promotion = {p}, !.status = "reviewed", !.reject = FALSE,
                         !.validation = "queued"]
        /\ k = [NoCommand EXCEPT !.copy = y]
  OBVIOUS
<1>2. /\ command[c].pc = "promoted" /\ Saves(c, y) /\ command' = [command EXCEPT ![c] = k]
      /\ UNCHANGED <<ventures, evidence, held, commands>>
  BY <1>1 DEF SavesPromotion, Ends, At, Saves
<1>3. x \in Candidate /\ Fits(x) /\ p \in Promotion /\ Exists(p)
  BY <1>1, <1>2, Actor DEF Sound, Made, Promotion, CommandState, Exists
<1>4. y \in Candidate /\ y.promotion = {p} /\ y.board_sessions = x.board_sessions
  BY <1>1, <1>3 DEF Candidate
<1>5. k \in CommandState /\ k.pc = "idle" /\ k.copy = y
  BY <1>1, <1>4, Actor
<1>6. Grows(c, k)
  BY <1>2, <1>5 DEF Grows, StartInv, Typed, Boarding
<1>7. Exists(p)'
  BY <1>2, <1>3 DEF Exists
<1>8. Fits(y)'
  BY <1>2, <1>3, <1>4, <1>5, <1>6, <1>7, FitsSaved DEF Boarding
<1>9. Made(k)'
  BY <1>5 DEF Made, Boarding
<1> QED  BY <1>2, <1>5, <1>6, <1>8, <1>9, SaveStep

LEMMA DecideStep ==
  ASSUME StartInv, NEW c \in Command, _cmd_decide(c)
  PROVE  StartInv'
<1> USE BoardStartAssumption
<1>1. PICK status \in {"ready_for_board", command[c].copy.status} :
        Saves(c, [command[c].copy EXCEPT !.status = status])
  BY DEF _cmd_decide
<1>2. PICK x, y, k :
        /\ x = command[c].copy /\ y = [x EXCEPT !.status = status]
        /\ k = [NoCommand EXCEPT !.copy = y]
  OBVIOUS
<1>3. /\ command[c].pc = "decide" /\ Saves(c, y) /\ command' = [command EXCEPT ![c] = k]
      /\ UNCHANGED <<ventures, evidence, held, commands>>
  BY <1>1, <1>2 DEF _cmd_decide, Ends, At, Saves
<1>4. x \in Candidate /\ Fits(x)
  BY <1>2, Actor DEF Sound
<1>5. y \in Candidate /\ y.promotion = x.promotion /\ y.board_sessions = x.board_sessions
  BY <1>2, <1>4 DEF Candidate
<1>6. k \in CommandState /\ k.pc = "idle" /\ k.copy = y
  BY <1>2, <1>5, Actor
<1>7. Grows(c, k)
  BY <1>3, <1>6 DEF Grows, StartInv, Typed, Boarding
<1>8. \A p \in y.promotion : Exists(p)'
  BY <1>3, <1>4, <1>5 DEF Exists, Fits
<1>9. Fits(y)'
  BY <1>3, <1>4, <1>5, <1>6, <1>7, <1>8, FitsSaved DEF Boarding
<1>10. Made(k)'
  BY <1>6 DEF Made, Boarding
<1> QED  BY <1>3, <1>6, <1>7, <1>9, <1>10, SaveStep

(* An attempt changes one session of a candidate. *)
LEMMA Attempted ==
  ASSUME NEW x \in Candidate, NEW n \in Nth, NEW st \in {"starting", "completed", "failed"},
         NEW y, y = [x EXCEPT !.board_sessions[n] = st]
  PROVE  /\ y \in Candidate /\ y.promotion = x.promotion /\ y.validation = x.validation
         /\ y.board_sessions[n] = st
         /\ \A m \in Nth : m # n => y.board_sessions[m] = x.board_sessions[m]
BY DEF Candidate

LEMMA SavesAttemptStep ==
  ASSUME StartInv, NEW c \in Command, SavesAttempt(c)
  PROVE  StartInv'
<1> USE BoardStartAssumption
<1>1. PICK x, y, k :
        /\ x = command[c].copy /\ y = Attempt(c, "starting")
        /\ k = [command[c] EXCEPT !.pc = "deliberate", !.copy = y]
  OBVIOUS
<1>2. /\ command[c].pc = "start" /\ Saves(c, y) /\ command' = [command EXCEPT ![c] = k]
      /\ UNCHANGED <<ventures, evidence, held, commands>>
      /\ x.promotion # {} /\ (command[c].again \/ Completed(x) = {})
  BY <1>1 DEF SavesAttempt, At, Saves, StartInv, Typed
<1>3. x \in Candidate /\ Fits(x) /\ command[c] \in CommandState /\ command[c].n \in Nth
  BY <1>1, <1>2, Actor DEF Sound
<1>4. /\ y \in Candidate /\ y.promotion = x.promotion
      /\ y.board_sessions[command[c].n] = "starting"
      /\ \A m \in Nth : m # command[c].n => y.board_sessions[m] = x.board_sessions[m]
  BY <1>1, <1>3, Attempted DEF Attempt
<1>5. /\ k \in CommandState /\ k.pc = "deliberate" /\ k.copy = y
      /\ k.n = command[c].n /\ k.again = command[c].again
  BY <1>1, <1>3, <1>4 DEF CommandState, Boarding
<1>6. Grows(c, k)
  BY <1>2, <1>5 DEF Grows, StartInv, Typed, Boarding
<1>7. \A p \in y.promotion : Exists(p)'
  BY <1>2, <1>3, <1>4 DEF Exists, Fits
<1>8. Fits(y)'
  BY <1>2, <1>3, <1>4, <1>5, <1>6, <1>7, FitsSaved
<1>9. Made(k)'
  BY <1>2, <1>4, <1>5 DEF Made, Boarding, Completed
<1> QED  BY <1>2, <1>5, <1>6, <1>8, <1>9, SaveStep

LEMMA SavesEndStep ==
  ASSUME StartInv, NEW c \in Command, SavesCompleted(c) \/ SavesFailed(c)
  PROVE  StartInv'
<1> USE BoardStartAssumption
<1>1. PICK x, st :
        /\ x = command[c].copy
        /\ st = IF SavesCompleted(c) THEN "completed" ELSE "failed"
  OBVIOUS
<1>2. PICK z, y, k :
        /\ z = Attempt(c, st)
        /\ y = IF SavesCompleted(c) THEN [z EXCEPT !.validation = "validating"] ELSE z
        /\ k = [NoCommand EXCEPT !.copy = y]
  OBVIOUS
<1>3. /\ command[c].pc \in Boarding /\ Saves(c, y) /\ command' = [command EXCEPT ![c] = k]
      /\ UNCHANGED <<ventures, evidence, held, commands>>
      /\ st = "completed" => command[c].pc = "finish" /\ held[command[c].n].status = "completed"
  BY <1>1, <1>2 DEF SavesCompleted, SavesFailed, Ends, At, Saves, Boarding
<1>4. /\ x \in Candidate /\ Fits(x) /\ command[c] \in CommandState /\ command[c].n \in Nth
      /\ st \in {"completed", "failed"} /\ Sound(c) /\ command[c].pc # "idle"
  BY <1>1, <1>3, Actor DEF Sound, Boarding
<1>5. /\ z \in Candidate /\ z.promotion = x.promotion
      /\ z.board_sessions[command[c].n] = st
      /\ \A m \in Nth : m # command[c].n => z.board_sessions[m] = x.board_sessions[m]
  BY <1>1, <1>2, <1>4, Attempted DEF Attempt
<1>6. y \in Candidate /\ y.promotion = z.promotion /\ y.board_sessions = z.board_sessions
  BY <1>2, <1>5 DEF Candidate
<1>7. k \in CommandState /\ k.pc = "idle" /\ k.copy = y
  BY <1>2, <1>6, Actor
<1>8. Grows(c, k)
  BY <1>3, <1>7 DEF Grows, StartInv, Typed, Boarding
<1>9. \A p \in y.promotion : Exists(p)'
  BY <1>3, <1>4, <1>5, <1>6 DEF Exists, Fits
<1>10. ASSUME NEW m, m = command[c].n, st = "completed" PROVE Proper(m)'
  <2>1. command[c].pc = "finish" /\ held[m].status = "completed" /\ held' = held
    BY <1>3, <1>10
  <2>2. Made(command[c])
    BY <1>4 DEF Sound
  <2>3. /\ held[m].saved = x.promotion /\ x.promotion # {}
        /\ held[m].ledger = (IF held[m].recorded THEN x.promotion ELSE {})
    BY <1>1, <1>10, <2>1, <2>2 DEF Made, Boarding
  <2> QED  BY <2>1, <2>3 DEF Proper
<1>11. \A n \in Nth : y.board_sessions[n] # x.board_sessions[n] =>
         n = command[c].n /\ (y.board_sessions[n] = "completed" => Proper(n)')
  <2>1. PICK m : m = command[c].n
    OBVIOUS
  <2>2. st = "completed" => Proper(m)'
    BY <1>10, <2>1
  <2> QED  BY <1>5, <1>6, <2>1, <2>2
<1>12. Fits(y)'
  BY <1>4, <1>6, <1>7, <1>8, <1>9, <1>11, FitsSaved DEF Boarding
<1>13. Made(k)'
  BY <1>7 DEF Made, Boarding
<1> QED  BY <1>3, <1>4, <1>7, <1>8, <1>12, <1>13, SaveStep

LEMMA StartStep ==
  ASSUME StartInv, [StartNext]_startVars
  PROVE  StartInv'
<1>1. CASE UNCHANGED startVars
  <2>1. candidate' = candidate /\ ventures' = ventures /\ evidence' = evidence /\ held' = held
        /\ command' = command /\ stale' = stale /\ commands' = commands
    BY <1>1 DEF startVars
  <2> QED  BY <2>1 DEF StartInv, Typed, Sound, Made, Fits, Exists, Proper, Completed
<1>2. CASE StartNext
  BY <1>2, ReadsStep, QuietStep, SavesPromotionStep, DecideStep, SavesAttemptStep, SavesEndStep
     DEF StartNext
<1> QED  BY <1>1, <1>2

(* What a promotion, a session and a completed attempt name exists, in     *)
(* every reachable state.                                                  *)
THEOREM PromotionsGrounded == StartSpec => [](StartTypeOK /\ StartGrounded)
<1>1. StartInit => StartInv
  BY StartInvInit
<1>2. StartInv /\ [StartNext]_startVars => StartInv'
  BY StartStep
<1>3. StartInv => StartTypeOK /\ StartGrounded
  BY StartInvMeaning
<1> QED  BY <1>1, <1>2, <1>3, PTL DEF StartSpec

-----------------------------------------------------------------------------
(* What the file gains when a command writes y, whose copy was the file.   *)
LEMMA SavedGently ==
  ASSUME StartInv, NEW c \in Command, NEW k, NEW y, Saves(c, y),
         command' = [command EXCEPT ![c] = k],
         command[c].pc # "idle", k.pc # command[c].pc,
         c \notin stale =>
           /\ candidate.promotion \subseteq y.promotion
           /\ \A n \in Nth : y.board_sessions[n] # candidate.board_sessions[n] =>
                /\ command[c].pc \in Boarding \cup {"start"} /\ n = command[c].n
                /\ y.board_sessions[n] # "none"
  PROVE  StartKept
<1>1. candidate' = y /\ c \notin stale' /\ command'[c] = k
      /\ \A d \in Command \ {c} : command'[d] = command[d]
  BY DEF Saves, StartInv, Typed
<1>2. CASE c \in stale
  BY <1>1, <1>2 DEF StartKept, At
<1>3. CASE c \notin stale
  <2>1. Fits(candidate) /\ Sound(c) /\ command[c].copy = candidate
    BY <1>3 DEF StartInv, Sound
  <2>2. candidate.promotion \subseteq candidate'.promotion
    BY <1>1, <1>3
  <2>3. ASSUME NEW n \in Nth, candidate'.board_sessions[n] # candidate.board_sessions[n]
        PROVE  /\ candidate.board_sessions[n] \in {"none", "starting"}
               /\ candidate'.board_sessions[n] # "none"
    BY <1>1, <1>3, <2>1, <2>3 DEF Fits
  <2>4. ASSUME NEW d \in Command, At(d, "finish"), command'[d].pc = "idle"
        PROVE  command[d].again \/ Completed(candidate) = {}
    <3>1. d = c
      BY <1>1, <2>4 DEF At
    <3>2. Made(command[c])
      BY <2>1 DEF Sound
    <3> QED  BY <2>1, <2>4, <3>1, <3>2 DEF Made, At, Boarding
  <2> QED  BY <2>2, <2>3, <2>4 DEF StartKept
<1> QED  BY <1>2, <1>3

LEMMA KeptStep ==
  ASSUME StartInv, StartNext
  PROVE  StartKept
<1> USE BoardStartAssumption
<1>0. PICK c \in Command :
        \/ Reads(c) \/ GivesUp(c) \/ _cmd_decide(c)
        \/ ChoosesVenture(c) \/ create_evidence_packet(c) \/ SavesPromotion(c)
        \/ SavesAttempt(c) \/ Deliberates(c) \/ SavesSession(c) \/ record_discovery_provenance(c)
        \/ SavesCompleted(c) \/ SavesFailed(c)
  BY DEF StartNext
<1>a. /\ command[c] \in CommandState /\ Sound(c) /\ command[c].copy \in Candidate
      /\ candidate \in Candidate
      /\ (command[c].pc # "idle" => command[c].n \in Nth)
      /\ (command[c].pc # "idle" /\ c \notin stale => command[c].copy = candidate)
  BY Actor DEF StartInv, Fits, Sound
<1>1. CASE \/ Reads(c) \/ GivesUp(c) \/ ChoosesVenture(c) \/ create_evidence_packet(c)
           \/ Deliberates(c) \/ SavesSession(c) \/ record_discovery_provenance(c)
  <2>1. candidate' = candidate
    BY <1>1 DEF Reads, GivesUp, ChoosesVenture, create_evidence_packet, Deliberates,
                SavesSession, record_discovery_provenance
  <2> QED  BY <2>1 DEF StartKept
<1>2. CASE SavesPromotion(c)
  <2>1. PICK y, k :
          /\ y = [command[c].copy EXCEPT
                    !.promotion = {[venture |-> command[c].venture, packet |-> command[c].n]},
                    !.status = "reviewed", !.reject = FALSE, !.validation = "queued"]
          /\ k = [NoCommand EXCEPT !.copy = candidate']
    OBVIOUS
  <2>2. command[c].pc = "promoted" /\ Saves(c, y) /\ command' = [command EXCEPT ![c] = k]
    BY <1>2, <2>1 DEF SavesPromotion, Ends, At
  <2>3. k.pc = "idle"
    BY <2>1 DEF NoCommand
  <2>4. command[c].copy.promotion = {} /\ y.board_sessions = command[c].copy.board_sessions
    <3>1. Made(command[c])
      BY <1>a DEF Sound
    <3> QED  BY <1>a, <2>1, <2>2, <3>1 DEF Made, Candidate
  <2> QED  BY <1>a, <2>2, <2>3, <2>4, SavedGently
<1>3. CASE _cmd_decide(c)
  <2>1. PICK status, y, k :
          /\ y = [command[c].copy EXCEPT !.status = status] /\ Saves(c, y)
          /\ k = [NoCommand EXCEPT !.copy = candidate']
    BY <1>3 DEF _cmd_decide
  <2>2. command[c].pc = "decide" /\ command' = [command EXCEPT ![c] = k]
    BY <1>3, <2>1 DEF _cmd_decide, Ends, At
  <2>3. k.pc = "idle"
    BY <2>1 DEF NoCommand
  <2>4. /\ y.promotion = command[c].copy.promotion
        /\ y.board_sessions = command[c].copy.board_sessions
    BY <1>a, <2>1 DEF Candidate
  <2> QED  BY <1>a, <2>1, <2>2, <2>3, <2>4, SavedGently
<1>4. CASE SavesAttempt(c)
  <2>1. PICK y, k :
          /\ y = Attempt(c, "starting")
          /\ k = [command[c] EXCEPT !.pc = "deliberate", !.copy = candidate']
    OBVIOUS
  <2>2. command[c].pc = "start" /\ Saves(c, y) /\ command' = [command EXCEPT ![c] = k]
    BY <1>4, <2>1 DEF SavesAttempt, At, StartInv, Typed
  <2>3. k.pc = "deliberate"
    BY <1>a, <2>1 DEF CommandState
  <2>4. /\ y.promotion = command[c].copy.promotion
        /\ y.board_sessions[command[c].n] = "starting"
        /\ \A m \in Nth : m # command[c].n =>
             y.board_sessions[m] = command[c].copy.board_sessions[m]
    BY <1>a, <2>1, <2>2, Attempted DEF Attempt
  <2> QED  BY <1>a, <2>2, <2>3, <2>4, SavedGently
<1>5. CASE SavesCompleted(c) \/ SavesFailed(c)
  <2>0. PICK st \in {"completed", "failed"} :
          \/ Saves(c, Attempt(c, st))
          \/ Saves(c, [Attempt(c, st) EXCEPT !.validation = "validating"])
    BY <1>5 DEF SavesCompleted, SavesFailed
  <2>1. PICK z, y, k :
          /\ z = Attempt(c, st) /\ Saves(c, y)
          /\ y \in {z, [z EXCEPT !.validation = "validating"]}
          /\ k = [NoCommand EXCEPT !.copy = candidate']
    BY <2>0
  <2>2. command[c].pc \in Boarding /\ command' = [command EXCEPT ![c] = k]
    BY <1>5, <2>1 DEF SavesCompleted, SavesFailed, Ends, At, Boarding
  <2>3. k.pc = "idle" /\ command[c].pc # "idle"
    BY <2>1, <2>2 DEF NoCommand, Boarding
  <2>4. /\ z \in Candidate /\ z.promotion = command[c].copy.promotion
        /\ z.board_sessions[command[c].n] = st
        /\ \A m \in Nth : m # command[c].n =>
             z.board_sessions[m] = command[c].copy.board_sessions[m]
    BY <1>a, <2>1, <2>3, Attempted DEF Attempt
  <2>5. y.promotion = z.promotion /\ y.board_sessions = z.board_sessions
    BY <2>1, <2>4 DEF Candidate
  <2>6. ASSUME c \notin stale
        PROVE  /\ candidate.promotion \subseteq y.promotion
               /\ \A n \in Nth : y.board_sessions[n] # candidate.board_sessions[n] =>
                    n = command[c].n /\ y.board_sessions[n] # "none"
    <3>1. command[c].copy.promotion = candidate.promotion
          /\ command[c].copy.board_sessions = candidate.board_sessions
      BY <1>a, <2>3, <2>6
    <3>2. st # "none" /\ y.promotion = candidate.promotion
      BY <2>1, <2>4, <2>5, <3>1
    <3>3. ASSUME NEW n \in Nth, n # command[c].n
          PROVE  y.board_sessions[n] = candidate.board_sessions[n]
      BY <2>4, <2>5, <3>1, <3>3
    <3> QED  BY <2>4, <2>5, <3>2, <3>3
  <2>7. Saves(c, y)
    BY <2>1
  <2> QED  BY <2>2, <2>3, <2>6, <2>7, SavedGently
<1> QED  BY <1>0, <1>1, <1>2, <1>3, <1>4, <1>5

(* A command that nobody overtook replaces no promotion, forgets no        *)
(* attempt, undoes none that ended, and completes a session beside another *)
(* only when it was asked to.                                              *)
THEOREM CandidateKept == StartSpec => [][StartKept]_startVars
<1>1. StartInit => StartInv
  BY StartInvInit
<1>2. StartInv /\ [StartNext]_startVars => StartInv'
  BY StartStep
<1>3. StartInv /\ [StartNext]_startVars => [StartKept]_startVars
  BY KeptStep
<1> QED  BY <1>1, <1>2, <1>3, PTL DEF StartSpec

-----------------------------------------------------------------------------
(* The web searches.                                                       *)

SearchSpec == SearchInit /\ [][SearchNext]_searchVars

(* The times of list q that are after t. *)
After(q, t) == {i \in DOMAIN q : q[i] > t}

(* What a session asked in a window, of this moment or later, is charged,  *)
(* and the charge keeps to the limit.                                      *)
ChargeInv ==
  RateLimit > 0 => \A s \in Session : \A t \in Int : t >= now - RateWindow =>
    /\ Cardinality(After(asked[s], t)) <= Cardinality(After(bucket[s], t))
    /\ Cardinality(After(bucket[s], t)) <= RateLimit

(* One packet for a call that came back at most. *)
Busy == {c \in Caller : caller[c].pc # "idle"}
PacketsInv ==
  /\ IsFiniteSet(Busy) /\ packets + Cardinality(Busy) <= calls

Once(q) == \A i, j \in DOMAIN q : i # j => q[i].key # q[j].key /\ q[i].packet # q[j].packet
StoreInv ==
  /\ Len(store) <= CacheSize /\ Once(store)
  /\ \A i \in DOMAIN store : store[i].packet <= packets

SearchInv == SearchTypeOK /\ ChargeInv /\ PacketsInv /\ StoreInv

(* The least of some numbers. *)
LEMMA Least ==
  ASSUME NEW l \in Nat, NEW T, T \subseteq 1..l, T # {}
  PROVE  \E m \in T : \A j \in T : m <= j
<1> DEFINE R == StrictSubsetOrdering(1..l)
           U == {1..k : k \in T}
<1>1. U \subseteq FiniteSubsetsOf(1..l) /\ U # {}
  <2>1. ASSUME NEW k \in T PROVE 1..k \subseteq 1..l /\ IsFiniteSet(1..k)
    BY FS_Interval
  <2> QED  BY <2>1 DEF FiniteSubsetsOf
<1>2. IsWellFoundedOn(R, FiniteSubsetsOf(1..l))
  BY FS_StrictSubsetOrderingWellFounded
<1>3. \E X \in U : \A Y \in U : ~(<<Y, X>> \in R)
  <2> HIDE DEF R, U
  <2> QED  BY <1>1, <1>2, WFMin
<1>4. PICK m \in T : \A Y \in U : ~(<<Y, 1..m>> \in R)
  <2>1. PICK X \in U : \A Y \in U : ~(<<Y, X>> \in R)
    BY <1>3
  <2>2. PICK m \in T : X = 1..m
    OBVIOUS
  <2> QED  BY <2>1, <2>2
<1>5. ASSUME NEW j \in T, j < m PROVE FALSE
  <2>1. 1..j \subseteq 1..m /\ m \in 1..m /\ m \notin 1..j /\ 1..m \subseteq 1..l
    BY <1>5
  <2>2. <<1..j, 1..m>> \in R
    BY <2>1 DEF StrictSubsetOrdering
  <2> QED  BY <1>4, <2>2
<1>6. \A j \in T : j \in Nat
  OBVIOUS
<1> QED  BY <1>5, <1>6

-----------------------------------------------------------------------------
(* Lists of times.                                                         *)

LEMMA AfterFinite ==
  ASSUME NEW q \in Seq(Nat), NEW t \in Int
  PROVE  /\ IsFiniteSet(After(q, t)) /\ Cardinality(After(q, t)) \in Nat
         /\ Cardinality(After(q, t)) <= Len(q)
<1>1. After(q, t) \subseteq 1..Len(q) /\ Len(q) \in Nat
  BY DEF After
<1>2. \A l \in Nat : IsFiniteSet(1..l) /\ Cardinality(1..l) = l
  BY FS_Interval
<1>3. IsFiniteSet(1..Len(q)) /\ Cardinality(1..Len(q)) = Len(q)
  BY <1>1, <1>2
<1> QED  BY <1>1, <1>3, FS_Subset, FS_CardinalityType

LEMMA AfterAppend ==
  ASSUME NEW q \in Seq(Nat), NEW x \in Nat, NEW t \in Int
  PROVE  Cardinality(After(Append(q, x), t)) =
           Cardinality(After(q, t)) + (IF x > t THEN 1 ELSE 0)
<1> DEFINE l == Len(q)
           r == Append(q, x)
<1>1. /\ l \in Nat /\ DOMAIN q = 1..l /\ DOMAIN r = 1..(l + 1)
      /\ \A i \in 1..l : r[i] = q[i]
      /\ r[l + 1] = x
  OBVIOUS
<1> HIDE DEF l, r
<1>2. 1..(l + 1) = (1..l) \cup {l + 1} /\ l + 1 \notin 1..l
  BY <1>1
<1>3. After(r, t) = After(q, t) \cup (IF x > t THEN {l + 1} ELSE {})
  BY <1>1, <1>2 DEF After
<1>4. l + 1 \notin After(q, t)
  BY <1>1, <1>2 DEF After
<1>5. IsFiniteSet(After(q, t)) /\ Cardinality(After(q, t)) \in Nat
  BY AfterFinite
<1>6. CASE x > t
  <2>1. After(r, t) = After(q, t) \cup {l + 1}
    BY <1>3, <1>6
  <2>2. Cardinality(After(r, t)) = Cardinality(After(q, t)) + 1
    BY <2>1, <1>4, <1>5, FS_AddElement
  <2> QED  BY <2>2, <1>6 DEF r
<1>7. CASE ~(x > t)
  <2>1. After(r, t) = After(q, t)
    BY <1>3, <1>7
  <2> QED  BY <2>1, <1>5, <1>7 DEF r
<1> QED  BY <1>6, <1>7

(* What is popped from the left and not after t was not counted. *)
LEMMA AfterPopped ==
  ASSUME NEW q \in Seq(Nat), NEW n \in 0..Len(q), NEW t \in Int, \A i \in 1..n : q[i] <= t
  PROVE  /\ SubSeq(q, n + 1, Len(q)) \in Seq(Nat)
         /\ Cardinality(After(SubSeq(q, n + 1, Len(q)), t)) = Cardinality(After(q, t))
<1> DEFINE l == Len(q)
           p == SubSeq(q, n + 1, l)
           f == [i \in After(p, t) |-> i + n]
<1>1. /\ l \in Nat /\ DOMAIN q = 1..l /\ p \in Seq(Nat) /\ DOMAIN p = 1..(l - n)
      /\ \A i \in 1..(l - n) : p[i] = q[i + n]
      /\ \A i \in 1..l : q[i] \in Nat
  OBVIOUS
<1> HIDE DEF l, p
<1>2. \A i \in After(p, t) : i \in 1..(l - n) /\ p[i] > t
  BY <1>1 DEF After
<1>3. f \in [After(p, t) -> After(q, t)]
  <2> SUFFICES ASSUME NEW i \in After(p, t) PROVE i + n \in After(q, t)
    OBVIOUS
  <2>1. i \in 1..(l - n) /\ p[i] > t /\ p[i] = q[i + n]
    BY <1>1, <1>2
  <2>2. i + n \in 1..l
    BY <1>1, <2>1
  <2> QED  BY <1>1, <2>1, <2>2 DEF After
<1>4. \A i, j \in After(p, t) : f[i] = f[j] => i = j
  BY <1>2
<1>5. ASSUME NEW k \in After(q, t) PROVE \E i \in After(p, t) : f[i] = k
  <2>1. k \in 1..l /\ q[k] > t /\ q[k] \in Nat
    BY <1>1 DEF After
  <2>2. ~(k \in 1..n)
    BY <2>1
  <2>3. k - n \in 1..(l - n) /\ (k - n) + n = k
    BY <1>1, <2>1, <2>2
  <2>4. k - n \in After(p, t)
    BY <1>1, <2>1, <2>3 DEF After
  <2> QED  BY <2>3, <2>4
<1>6. f \in Bijection(After(p, t), After(q, t))
  <2> HIDE DEF f
  <2>1. f \in Injection(After(p, t), After(q, t))
    BY <1>3, <1>4 DEF Injection, IsInjective
  <2>2. f \in Surjection(After(p, t), After(q, t))
    BY <1>3, <1>5 DEF Surjection
  <2> QED  BY <2>1, <2>2 DEF Bijection
<1>7. IsFiniteSet(After(p, t))
  BY <1>1, AfterFinite
<1>8. Cardinality(After(p, t)) = Cardinality(After(q, t))
  BY <1>6, <1>7, FS_Bijection DEF ExistsBijection
<1> QED  BY <1>1, <1>8 DEF p, l

(* What is popped of a bucket is out of the window. *)
LEMMA Pops ==
  ASSUME SearchTypeOK, NEW s \in Session
  PROVE  \E n \in 0..Len(bucket[s]) :
           InBucket(s) = SubSeq(bucket[s], n + 1, Len(bucket[s])) /\ Popped(s, n)
<1> DEFINE l == Len(bucket[s])
           T == {k \in 1..l : ~(bucket[s][k] <= now - RateWindow)}
<1>1. l \in Nat
  BY DEF SearchTypeOK
<1>2. \E n \in 0..l : Popped(s, n) /\ (n = l \/ ~Popped(s, n + 1))
  <2>1. CASE T = {}
    BY <1>1, <2>1 DEF Popped
  <2>2. CASE T # {}
    <3>1. PICK m \in T : \A j \in T : m <= j
      <4> HIDE DEF l
      <4> QED  BY <1>1, <2>2, Least
    <3>2. m \in 1..l /\ m - 1 \in 0..l /\ (m - 1) + 1 = m
      BY <1>1
    <3>3. \A j \in 1..(m - 1) : j \in 1..l /\ ~(m <= j)
      BY <1>1, <3>2
    <3>4. Popped(s, m - 1)
      BY <3>1, <3>3 DEF Popped
    <3>5. ~Popped(s, m)
      BY <3>2 DEF Popped
    <3> QED  BY <3>2, <3>4, <3>5
  <2> QED  BY <2>1, <2>2
<1> QED  BY <1>2 DEF InBucket

LEMMA BucketKept ==
  ASSUME SearchTypeOK, NEW s \in Session
  PROVE  /\ InBucket(s) \in Seq(0..EndOfTime) /\ bucket[s] \in Seq(Nat) /\ asked[s] \in Seq(Nat)
         /\ InBucket(s) \in Seq(Nat)
         /\ \A t \in Int : t >= now - RateWindow =>
              Cardinality(After(InBucket(s), t)) = Cardinality(After(bucket[s], t))
<1> USE SearchAssumption
<1>1. PICK b : b = bucket[s]
  OBVIOUS
<1>2. PICK n \in 0..Len(b) : InBucket(s) = SubSeq(b, n + 1, Len(b)) /\ Popped(s, n)
  BY <1>1, Pops
<1>3. b \in Seq(0..EndOfTime) /\ 0..EndOfTime \subseteq Nat /\ now \in Nat /\ RateWindow \in Nat
  BY <1>1 DEF SearchTypeOK
<1>4. b \in Seq(Nat) /\ asked[s] \in Seq(Nat)
  <2>1. ASSUME NEW q \in Seq(0..EndOfTime) PROVE q \in Seq(Nat)
    <3>1. \A i \in 1..Len(q) : q[i] \in Nat
      BY <1>3
    <3> QED  BY <3>1
  <2>2. asked[s] \in Seq(0..EndOfTime)
    BY DEF SearchTypeOK
  <2> QED  BY <2>1, <2>2, <1>3
<1>5. InBucket(s) \in Seq(0..EndOfTime) /\ InBucket(s) \in Seq(Nat)
  <2>1. \A S : b \in Seq(S) => SubSeq(b, n + 1, Len(b)) \in Seq(S)
    OBVIOUS
  <2> QED  BY <2>1, <1>2, <1>3, <1>4
<1>6. ASSUME NEW t \in Int, t >= now - RateWindow
      PROVE  Cardinality(After(InBucket(s), t)) = Cardinality(After(b, t))
  <2>1. \A i \in 1..n : b[i] <= now - RateWindow /\ i \in 1..Len(b)
    BY <1>1, <1>2 DEF Popped
  <2>2. ASSUME NEW i \in 1..n PROVE b[i] <= t
    <3>1. b[i] <= now - RateWindow /\ b[i] \in Nat
      BY <2>1, <1>4
    <3>2. \A x \in Nat, m \in Nat, w \in Nat : x <= m - w /\ m - w <= t => x <= t
      OBVIOUS
    <3>3. now \in Nat /\ RateWindow \in Nat /\ now - RateWindow <= t
      BY <1>3, <1>6
    <3> QED  BY <3>1, <3>2, <3>3
  <2> QED  BY <1>2, <1>4, <2>2, AfterPopped
<1> QED  BY <1>1, <1>4, <1>5, <1>6

-----------------------------------------------------------------------------
(* The cache.                                                              *)

LEMMA WithoutKey ==
  ASSUME NEW key, store \in Seq(Answer), Once(store)
  PROVE  /\ Without(key) \in Seq(Answer) /\ Once(Without(key))
         /\ Len(Without(key)) <= Len(store)
         /\ Found(key) # {} => Len(Without(key)) + 1 = Len(store)
         /\ \A i \in DOMAIN Without(key) :
              Without(key)[i].key # key /\ \E j \in DOMAIN store : Without(key)[i] = store[j]
<1>1. CASE Found(key) = {}
  BY <1>1 DEF Without, Found
<1>2. CASE Found(key) # {}
  <2>1. PICK k \in Found(key) : Without(key) = RemoveAt(store, k)
    BY <1>2 DEF Without
  <2>2. PICK q : q = store
    OBVIOUS
  <2>3. PICK l \in Nat : l = Len(q)
    BY <2>2
  <2>4. k \in 1..l /\ q[k].key = key /\ q \in Seq(Answer) /\ DOMAIN q = 1..l
    BY <2>1, <2>2, <2>3 DEF Found
  <2>5. PICK w : w = Without(key)
    OBVIOUS
  <2>6. w = SubSeq(q, 1, k - 1) \o SubSeq(q, k + 1, l)
    BY <2>1, <2>2, <2>3, <2>5 DEF RemoveAt
  <2>7. /\ SubSeq(q, 1, k - 1) \in Seq(Answer) /\ Len(SubSeq(q, 1, k - 1)) = k - 1
        /\ \A i \in 1..(k - 1) : SubSeq(q, 1, k - 1)[i] = q[i]
        /\ SubSeq(q, k + 1, l) \in Seq(Answer) /\ Len(SubSeq(q, k + 1, l)) = l - k
        /\ \A i \in 1..(l - k) : SubSeq(q, k + 1, l)[i] = q[k + i]
    BY <2>3, <2>4
  <2>8. w \in Seq(Answer) /\ Len(w) = l - 1 /\ DOMAIN w = 1..(l - 1)
    BY <2>4, <2>6, <2>7
  <2> DEFINE d == [i \in 1..(l - 1) |-> IF i < k THEN i ELSE i + 1]
  <2>9. ASSUME NEW i \in 1..(l - 1)
        PROVE  d[i] \in 1..l /\ d[i] # k /\ w[i] = q[d[i]]
    <3>1. CASE i < k
      <4>1. i \in 1..(k - 1) /\ i \in 1..l /\ d[i] = i /\ i # k
        BY <2>4, <3>1
      <4>2. w[i] = SubSeq(q, 1, k - 1)[i]
        <5>1. PICK u \in Seq(Answer), v \in Seq(Answer) :
                u = SubSeq(q, 1, k - 1) /\ v = SubSeq(q, k + 1, l)
          BY <2>7
        <5> QED  BY <5>1, <4>1, <2>6, <2>7
      <4> QED  BY <4>1, <4>2, <2>7
    <3>2. CASE ~(i < k)
      <4>1. i - (k - 1) \in 1..(l - k) /\ k + (i - (k - 1)) = i + 1
        BY <2>4, <3>2
      <4>2. w[i] = SubSeq(q, k + 1, l)[i - (k - 1)]
        <5>1. PICK u \in Seq(Answer), v \in Seq(Answer) :
                u = SubSeq(q, 1, k - 1) /\ v = SubSeq(q, k + 1, l)
          BY <2>7
        <5>2. w = u \o v /\ Len(u) = k - 1 /\ Len(v) = l - k
          BY <2>6, <2>7, <5>1
        <5>3. i \in Nat /\ i > Len(u) /\ i <= Len(u) + Len(v) /\ Len(u) \in Nat
          BY <2>4, <3>2, <5>2
        <5>4. w[i] = v[i - Len(u)]
          BY <5>2, <5>3
        <5> QED  BY <5>1, <5>2, <5>4
      <4> QED  BY <2>4, <2>7, <3>2, <4>1, <4>2
    <3> QED  BY <3>1, <3>2
  <2>10. \A i, j \in 1..(l - 1) : i # j => d[i] # d[j]
    BY <2>4
  <2> HIDE DEF d
  <2>11. Once(q)
    BY <2>2
  <2>12. Once(w)
    <3> SUFFICES ASSUME NEW i \in 1..(l - 1), NEW j \in 1..(l - 1), i # j
                 PROVE  w[i].key # w[j].key /\ w[i].packet # w[j].packet
      BY <2>8 DEF Once
    <3>1. d[i] \in DOMAIN q /\ d[j] \in DOMAIN q /\ d[i] # d[j] /\ w[i] = q[d[i]] /\ w[j] = q[d[j]]
      BY <2>4, <2>9, <2>10
    <3> QED  BY <3>1, <2>11 DEF Once
  <2>13. \A i \in 1..(l - 1) : w[i].key # key /\ \E j \in DOMAIN q : w[i] = q[j]
    <3> SUFFICES ASSUME NEW i \in 1..(l - 1)
                 PROVE  w[i].key # key /\ \E j \in DOMAIN q : w[i] = q[j]
      OBVIOUS
    <3>1. d[i] \in DOMAIN q /\ k \in DOMAIN q /\ d[i] # k /\ w[i] = q[d[i]]
      BY <2>4, <2>9
    <3> QED  BY <3>1, <2>4, <2>11 DEF Once
  <2> QED  BY <2>2, <2>3, <2>4, <2>5, <2>8, <2>12, <2>13
<1> QED  BY <1>1, <1>2

(* One entry more, that no other is like. *)
LEMMA OnceAppend ==
  ASSUME NEW q \in Seq(Answer), Once(q), NEW e \in Answer,
         \A i \in DOMAIN q : q[i].key # e.key /\ q[i].packet # e.packet
  PROVE  Append(q, e) \in Seq(Answer) /\ Len(Append(q, e)) = Len(q) + 1 /\ Once(Append(q, e))
         /\ \A i \in DOMAIN Append(q, e) : Append(q, e)[i] = e \/ \E j \in DOMAIN q : Append(q, e)[i] = q[j]
<1> DEFINE l == Len(q)
           r == Append(q, e)
<1>1. /\ l \in Nat /\ DOMAIN q = 1..l /\ DOMAIN r = 1..(l + 1) /\ r \in Seq(Answer) /\ Len(r) = l + 1
      /\ \A i \in 1..l : r[i] = q[i]
      /\ r[l + 1] = e
  OBVIOUS
<1> HIDE DEF l, r
<1>2. 1..(l + 1) = (1..l) \cup {l + 1}
  BY <1>1
<1>3. Once(r)
  BY <1>1, <1>2 DEF Once
<1> QED  BY <1>1, <1>2, <1>3 DEF l, r

(* The newest entries, as many as fit. *)
LEMMA OnceCut ==
  ASSUME NEW q \in Seq(Answer), Once(q), NEW n \in 0..Len(q)
  PROVE  /\ SubSeq(q, n + 1, Len(q)) \in Seq(Answer) /\ Len(SubSeq(q, n + 1, Len(q))) = Len(q) - n
         /\ Once(SubSeq(q, n + 1, Len(q)))
         /\ \A i \in DOMAIN SubSeq(q, n + 1, Len(q)) :
              \E j \in DOMAIN q : SubSeq(q, n + 1, Len(q))[i] = q[j]
<1> DEFINE l == Len(q)
           p == SubSeq(q, n + 1, l)
<1>1. /\ l \in Nat /\ DOMAIN q = 1..l /\ p \in Seq(Answer) /\ Len(p) = l - n /\ DOMAIN p = 1..(l - n)
      /\ \A i \in 1..(l - n) : p[i] = q[i + n]
  OBVIOUS
<1> HIDE DEF l, p
<1>2. \A i \in 1..(l - n) : i + n \in 1..l
  BY <1>1
<1>3. \A i, j \in 1..(l - n) : i # j => i + n # j + n
  BY <1>1
<1>4. Once(p)
  BY <1>1, <1>2, <1>3 DEF Once
<1> QED  BY <1>1, <1>2, <1>4 DEF l, p

-----------------------------------------------------------------------------
(* The steps.                                                              *)

LEMMA IdleCall == NoCall \in [pc : {"idle", "gate", "search", "provider"}, session : Session, key : Key]
                  /\ NoCall.pc = "idle"
BY SearchAssumption DEF NoCall

LEMMA SearchParts ==
  ASSUME SearchInv
  PROVE  /\ now \in 0..EndOfTime /\ now \in Nat /\ calls \in Nat /\ packets \in Nat
         /\ calls <= MaxCalls /\ 0..EndOfTime \subseteq Nat
         /\ caller \in [Caller -> [pc : {"idle", "gate", "search", "provider"},
                                   session : Session, key : Key]]
         /\ bucket \in [Session -> Seq(0..EndOfTime)] /\ asked \in [Session -> Seq(0..EndOfTime)]
         /\ store \in Seq(Answer) /\ Once(store)
         /\ IsFiniteSet(Busy) /\ Cardinality(Busy) \in Nat
         /\ MaxCalls \in Nat /\ RateLimit \in Nat /\ RateWindow \in Nat /\ CacheSize \in Nat \ {0}
<1>1. MaxCalls \in Nat /\ EndOfTime \in Nat /\ RateLimit \in Nat /\ RateWindow \in Nat
  BY SearchAssumption
<1>2. 0..EndOfTime \subseteq Nat /\ 0..MaxCalls \subseteq Nat
  BY <1>1
<1> QED
  BY <1>1, <1>2, SearchAssumption, FS_CardinalityType DEF SearchInv, SearchTypeOK, PacketsInv, StoreInv

LEMMA SearchNumbers ==
  ASSUME SearchInv
  PROVE  /\ now \in Nat /\ now <= EndOfTime /\ calls \in Nat /\ calls <= MaxCalls /\ packets \in Nat
         /\ EndOfTime \in Nat /\ MaxCalls \in Nat /\ RateLimit \in Nat /\ RateWindow \in Nat
         /\ CacheSize \in Nat \ {0}
         /\ Cardinality(Busy) \in Nat /\ packets + Cardinality(Busy) <= calls
<1>1. EndOfTime \in Nat /\ packets + Cardinality(Busy) <= calls
  BY SearchAssumption DEF SearchInv, PacketsInv
<1>2. now \in Nat /\ now <= EndOfTime
  BY <1>1, SearchParts
<1> QED  BY <1>1, <1>2, SearchParts

LEMMA SearchInvInit == SearchInit => SearchInv
<1> SUFFICES ASSUME SearchInit PROVE SearchInv
  OBVIOUS
<1> USE SearchAssumption
<1>1. SearchTypeOK
  BY IdleCall DEF SearchInit, SearchTypeOK
<1>2. \A s \in Session, t \in Int : After(asked[s], t) = {} /\ After(bucket[s], t) = {}
  BY DEF After, SearchInit
<1>3. ChargeInv
  <2>1. Cardinality({}) = 0
    BY FS_EmptySet
  <2>2. RateLimit \in Nat
    OBVIOUS
  <2>3. \A s \in Session, t \in Int :
          Cardinality(After(asked[s], t)) = 0 /\ Cardinality(After(bucket[s], t)) = 0
    BY <1>2, <2>1
  <2> QED  BY <2>2, <2>3 DEF ChargeInv
<1>4. Busy = {}
  BY IdleCall DEF SearchInit, Busy
<1>5. PacketsInv
  BY <1>4, FS_EmptySet DEF SearchInit, PacketsInv
<1>6. StoreInv
  BY DEF SearchInit, StoreInv, Once
<1> QED  BY <1>1, <1>3, <1>5, <1>6 DEF SearchInv

(* A call goes on, and one that returns leaves room for a packet. *)
LEMMA CallMoves ==
  ASSUME SearchInv, NEW c \in Caller, NEW x \in [pc : {"idle", "gate", "search", "provider"},
                                                session : Session, key : Key],
         caller' = [caller EXCEPT ![c] = x]
  PROVE  /\ caller' \in [Caller -> [pc : {"idle", "gate", "search", "provider"},
                                    session : Session, key : Key]]
         /\ IsFiniteSet(Busy)' /\ Cardinality(Busy)' \in Nat
         /\ Cardinality(Busy)' <= Cardinality(Busy) + 1
         /\ caller[c].pc # "idle" => Cardinality(Busy)' <= Cardinality(Busy)
         /\ caller[c].pc # "idle" /\ x.pc = "idle" => Cardinality(Busy)' + 1 = Cardinality(Busy)
<1>1. /\ caller' \in [Caller -> [pc : {"idle", "gate", "search", "provider"},
                                 session : Session, key : Key]]
      /\ caller'[c] = x /\ \A d \in Caller : d # c => caller'[d] = caller[d]
  BY SearchParts
<1>2. PICK a : a = Busy
  OBVIOUS
<1>3. PICK b : b = Busy'
  OBVIOUS
<1>4. /\ b = IF x.pc = "idle" THEN a \ {c} ELSE a \cup {c}
      /\ c \in a <=> caller[c].pc # "idle"
  BY <1>1, <1>2, <1>3 DEF Busy
<1>5. IsFiniteSet(a) /\ Cardinality(a) \in Nat
  BY <1>2, SearchParts
<1>6. CASE x.pc = "idle"
  <2>1. b = a \ {c}
    BY <1>4, <1>6
  <2>2. IsFiniteSet(b) /\ Cardinality(b) = IF c \in a THEN Cardinality(a) - 1 ELSE Cardinality(a)
    BY <2>1, <1>5, FS_RemoveElement
  <2>3. Cardinality(b) \in Nat
    BY <2>2, FS_CardinalityType
  <2> QED  BY <1>1, <1>2, <1>3, <1>4, <1>5, <1>6, <2>2, <2>3
<1>7. CASE x.pc # "idle"
  <2>1. b = a \cup {c}
    BY <1>4, <1>7
  <2>2. IsFiniteSet(b) /\ Cardinality(b) = IF c \in a THEN Cardinality(a) ELSE Cardinality(a) + 1
    BY <2>1, <1>5, FS_AddElement
  <2> QED  BY <1>1, <1>2, <1>3, <1>4, <1>5, <1>7, <2>2
<1> QED  BY <1>6, <1>7

(* The cache loses what it was asked for and is too old. *)
LEMMA StoreWithout ==
  ASSUME SearchInv, NEW key, store' = Without(key), packets' = packets
  PROVE  store' \in Seq(Answer) /\ StoreInv'
<1>1. PICK w : w = Without(key)
  OBVIOUS
<1>2. /\ w \in Seq(Answer) /\ Once(w) /\ Len(w) <= Len(store)
      /\ \A i \in DOMAIN w : \E j \in DOMAIN store : w[i] = store[j]
  BY <1>1, SearchParts, WithoutKey
<1>3. Len(w) <= CacheSize
  BY <1>2, SearchParts, SearchAssumption DEF SearchInv, StoreInv
<1>4. store' = w
  BY <1>1
<1> QED  BY <1>2, <1>3, <1>4 DEF SearchInv, StoreInv, Once

(* A call that changes neither charges nor answers. *)
LEMMA CallStep ==
  ASSUME SearchInv, NEW c \in Caller, Calls(c) \/ Passes(c) \/ TurnedAway(c) \/ Fails(c)
  PROVE  SearchInv'
<1>1. /\ UNCHANGED <<now, bucket, store, asked, packets>> /\ calls' \in {calls, calls + 1}
      /\ calls' = calls => caller[c].pc # "idle"
      /\ calls' # calls => calls < MaxCalls
  BY SearchParts DEF Calls, Passes, TurnedAway, Fails
<1>2. PICK x \in [pc : {"idle", "gate", "search", "provider"}, session : Session, key : Key] :
        caller' = [caller EXCEPT ![c] = x]
  <2>1. CASE Calls(c)
    BY <2>1 DEF Calls
  <2>2. CASE Passes(c)
    <3>1. caller' = [caller EXCEPT ![c] = [caller[c] EXCEPT !.pc = "search"]]
      BY <2>2, SearchParts DEF Passes, CallGoes
    <3> QED  BY <3>1, SearchParts
  <2>3. CASE TurnedAway(c) \/ Fails(c)
    BY <2>3, IdleCall DEF TurnedAway, Fails, CallReturns
  <2> QED  BY <2>1, <2>2, <2>3
<1>3. /\ caller' \in [Caller -> [pc : {"idle", "gate", "search", "provider"},
                                 session : Session, key : Key]]
      /\ IsFiniteSet(Busy)' /\ Cardinality(Busy)' \in Nat
      /\ Cardinality(Busy)' <= Cardinality(Busy) + 1
      /\ caller[c].pc # "idle" => Cardinality(Busy)' <= Cardinality(Busy)
  BY <1>2, CallMoves
<1>5. calls' \in 0..MaxCalls /\ packets' + Cardinality(Busy)' <= calls'
  <2>1. CASE calls' = calls
    BY <1>1, <1>3, <2>1, SearchNumbers
  <2>2. CASE calls' = calls + 1 /\ calls < MaxCalls
    BY <1>1, <1>3, <2>2, SearchNumbers
  <2> QED  BY <1>1, <2>1, <2>2
<1>6. SearchTypeOK'
  BY <1>1, <1>3, <1>5 DEF SearchInv, SearchTypeOK
<1>7. ChargeInv' /\ StoreInv'
  BY <1>1 DEF SearchInv, ChargeInv, StoreInv, Once, After
<1> QED  BY <1>3, <1>5, <1>6, <1>7 DEF SearchInv, PacketsInv

LEMMA HitStep ==
  ASSUME SearchInv, NEW c \in Caller, Hits(c)
  PROVE  SearchInv'
<1>1. /\ UNCHANGED <<now, bucket, asked, packets, calls>> /\ caller[c].pc = "search"
      /\ caller' = [caller EXCEPT ![c] = NoCall]
  BY DEF Hits, CallReturns
<1>2. PICK key : key = caller[c].key
  OBVIOUS
<1>3. PICK i \in Found(key) : store' = Append(Without(key), store[i])
  BY <1>2 DEF Hits
<1>4. PICK w : w = Without(key)
  OBVIOUS
<1>5. /\ w \in Seq(Answer) /\ Once(w) /\ Len(w) + 1 = Len(store)
      /\ \A k \in DOMAIN w : w[k].key # key /\ \E j \in DOMAIN store : w[k] = store[j]
  <2>1. store \in Seq(Answer) /\ Once(store) /\ Found(key) # {}
    BY <1>3, SearchParts
  <2>2. /\ Without(key) \in Seq(Answer) /\ Once(Without(key))
        /\ Len(Without(key)) + 1 = Len(store)
        /\ \A k \in DOMAIN Without(key) :
             Without(key)[k].key # key /\ \E j \in DOMAIN store : Without(key)[k] = store[j]
    BY <2>1, WithoutKey
  <2> QED  BY <1>4, <2>2
<1>6. PICK e \in Answer : e = store[i]
  BY <1>3, SearchParts DEF Found
<1>7. i \in DOMAIN store /\ e.key = key /\ e.packet <= packets
  BY <1>3, <1>6 DEF Found, SearchInv, StoreInv
<1>8. \A k \in DOMAIN w : w[k].key # e.key /\ w[k].packet # e.packet
  <2> SUFFICES ASSUME NEW k \in DOMAIN w PROVE w[k].key # e.key /\ w[k].packet # e.packet
    OBVIOUS
  <2>1. PICK j \in DOMAIN store : w[k] = store[j] /\ w[k].key # key
    BY <1>5
  <2>2. j # i
    BY <1>6, <1>7, <2>1
  <2> QED  BY <1>6, <1>7, <2>1, <2>2, SearchParts DEF Once
<1>9. /\ store' \in Seq(Answer) /\ Len(store') = Len(w) + 1 /\ Once(store')
      /\ \A k \in DOMAIN store' : store'[k] = e \/ \E j \in DOMAIN w : store'[k] = w[j]
  BY <1>3, <1>4, <1>5, <1>6, <1>8, OnceAppend
<1>10. \A k \in DOMAIN store' : store'[k].packet <= packets
  BY <1>5, <1>7, <1>9 DEF SearchInv, StoreInv
<1>11. StoreInv'
  BY <1>1, <1>5, <1>9, <1>10 DEF SearchInv, StoreInv, Once
<1>12. /\ caller' \in [Caller -> [pc : {"idle", "gate", "search", "provider"},
                                  session : Session, key : Key]]
       /\ IsFiniteSet(Busy)' /\ Cardinality(Busy)' \in Nat /\ Cardinality(Busy)' <= Cardinality(Busy)
  BY <1>1, IdleCall, CallMoves
<1>13. PacketsInv'
  BY <1>1, <1>12, SearchNumbers DEF PacketsInv
<1>14. SearchTypeOK'
  BY <1>1, <1>9, <1>12 DEF SearchInv, SearchTypeOK
<1>15. ChargeInv'
  BY <1>1 DEF SearchInv, ChargeInv, After
<1> QED  BY <1>11, <1>13, <1>14, <1>15 DEF SearchInv

LEMMA RefusedStep ==
  ASSUME SearchInv, NEW c \in Caller, Refused(c)
  PROVE  SearchInv'
<1>1. /\ UNCHANGED <<now, asked, packets, calls>> /\ caller[c].pc = "search"
      /\ store' = Without(caller[c].key) /\ caller' = [caller EXCEPT ![c] = NoCall]
  BY DEF Refused, Misses, CallReturns
<1>2. PICK s \in Session : s = caller[c].session
  BY SearchParts
<1>3. bucket' = [bucket EXCEPT ![s] = InBucket(s)]
  BY <1>2 DEF Refused
<1>4. store' \in Seq(Answer) /\ StoreInv'
  BY <1>1, StoreWithout
<1>5. /\ caller' \in [Caller -> [pc : {"idle", "gate", "search", "provider"},
                                 session : Session, key : Key]]
      /\ IsFiniteSet(Busy)' /\ Cardinality(Busy)' \in Nat /\ Cardinality(Busy)' <= Cardinality(Busy)
  BY <1>1, IdleCall, CallMoves
<1>6. PacketsInv'
  BY <1>1, <1>5, SearchNumbers DEF PacketsInv
<1>7. /\ InBucket(s) \in Seq(0..EndOfTime)
      /\ \A t \in Int : t >= now - RateWindow =>
           Cardinality(After(InBucket(s), t)) = Cardinality(After(bucket[s], t))
  BY BucketKept DEF SearchInv
<1>8. /\ bucket' \in [Session -> Seq(0..EndOfTime)] /\ bucket'[s] = InBucket(s)
      /\ \A x \in Session : x # s => bucket'[x] = bucket[x]
  BY <1>3, <1>7, SearchParts
<1>9. SearchTypeOK'
  BY <1>1, <1>4, <1>5, <1>8 DEF SearchInv, SearchTypeOK
<1>10. ChargeInv'
  <2> SUFFICES ASSUME RateLimit > 0, NEW x \in Session, NEW t \in Int, t >= now - RateWindow
               PROVE  /\ Cardinality(After(asked[x], t)) <= Cardinality(After(bucket'[x], t))
                      /\ Cardinality(After(bucket'[x], t)) <= RateLimit
    BY <1>1 DEF ChargeInv, After
  <2>1. Cardinality(After(bucket'[x], t)) = Cardinality(After(bucket[x], t))
    BY <1>7, <1>8
  <2> QED  BY <2>1 DEF SearchInv, ChargeInv
<1> QED  BY <1>4, <1>6, <1>9, <1>10 DEF SearchInv

LEMMA ChargedStep ==
  ASSUME SearchInv, NEW c \in Caller, Charged(c)
  PROVE  SearchInv'
<1>1. /\ UNCHANGED <<now, packets, calls>> /\ caller[c].pc = "search"
      /\ store' = Without(caller[c].key)
  BY DEF Charged, Misses
<1>2. PICK s \in Session : s = caller[c].session
  BY SearchParts
<1>3. /\ RateLimit > 0 => Len(InBucket(s)) < RateLimit
      /\ bucket' = IF RateLimit = 0 THEN bucket
                   ELSE [bucket EXCEPT ![s] = Append(InBucket(s), now)]
      /\ asked' = asked \/ asked' = [asked EXCEPT ![s] = Append(asked[s], now)]
  BY <1>2 DEF Charged
<1>4. store' \in Seq(Answer) /\ StoreInv'
  BY <1>1, StoreWithout
<1>5. PICK x \in [pc : {"idle", "gate", "search", "provider"}, session : Session, key : Key] :
        caller' = [caller EXCEPT ![c] = x]
  <2>1. CASE CallReturns(c)
    BY <2>1, IdleCall DEF CallReturns
  <2>2. CASE CallGoes(c, "provider")
    <3>1. caller' = [caller EXCEPT ![c] = [caller[c] EXCEPT !.pc = "provider"]]
      BY <2>2, SearchParts DEF CallGoes
    <3> QED  BY <3>1, SearchParts
  <2> QED  BY <2>1, <2>2 DEF Charged
<1>6. /\ caller' \in [Caller -> [pc : {"idle", "gate", "search", "provider"},
                                 session : Session, key : Key]]
      /\ IsFiniteSet(Busy)' /\ Cardinality(Busy)' \in Nat /\ Cardinality(Busy)' <= Cardinality(Busy)
  BY <1>1, <1>5, CallMoves
<1>7. PacketsInv'
  BY <1>1, <1>6, SearchNumbers DEF PacketsInv
<1>8. /\ InBucket(s) \in Seq(0..EndOfTime) /\ InBucket(s) \in Seq(Nat) /\ asked[s] \in Seq(Nat)
      /\ \A t \in Int : t >= now - RateWindow =>
           Cardinality(After(InBucket(s), t)) = Cardinality(After(bucket[s], t))
  BY BucketKept DEF SearchInv
<1>9. /\ bucket' \in [Session -> Seq(0..EndOfTime)]
      /\ \A y \in Session : y # s => bucket'[y] = bucket[y]
      /\ RateLimit > 0 => bucket'[s] = Append(InBucket(s), now)
  <2>1. Append(InBucket(s), now) \in Seq(0..EndOfTime)
    BY <1>8, SearchParts
  <2>2. bucket \in [Session -> Seq(0..EndOfTime)]
    BY SearchParts
  <2> QED  BY <2>1, <2>2, <1>3
<1>10. /\ asked' \in [Session -> Seq(0..EndOfTime)]
       /\ \A y \in Session : y # s => asked'[y] = asked[y]
       /\ asked'[s] = asked[s] \/ asked'[s] = Append(asked[s], now)
  <2>1. Append(asked[s], now) \in Seq(0..EndOfTime)
    BY SearchParts
  <2> QED  BY <2>1, <1>3, SearchParts
<1>11. SearchTypeOK'
  BY <1>1, <1>4, <1>6, <1>9, <1>10 DEF SearchInv, SearchTypeOK
<1>12. ChargeInv'
  <2> SUFFICES ASSUME RateLimit > 0, NEW y \in Session, NEW t \in Int, t >= now - RateWindow
               PROVE  /\ Cardinality(After(asked'[y], t)) <= Cardinality(After(bucket'[y], t))
                      /\ Cardinality(After(bucket'[y], t)) <= RateLimit
    BY <1>1 DEF ChargeInv, After
  <2>1. /\ Cardinality(After(asked[y], t)) <= Cardinality(After(bucket[y], t))
        /\ Cardinality(After(bucket[y], t)) <= RateLimit
    BY DEF SearchInv, ChargeInv
  <2>2. CASE y # s
    BY <2>1, <2>2, <1>9, <1>10
  <2>3. CASE y = s
    <3> DEFINE one == IF now > t THEN 1 ELSE 0
    <3>1. now \in Nat /\ RateLimit \in Nat
      BY SearchParts
    <3>2. Cardinality(After(Append(InBucket(s), now), t)) = Cardinality(After(InBucket(s), t)) + one
      BY <1>8, <3>1, AfterAppend
    <3>3. Cardinality(After(Append(asked[s], now), t)) = Cardinality(After(asked[s], t)) + one
      BY <1>8, <3>1, AfterAppend
    <3>4. /\ Cardinality(After(InBucket(s), t)) \in Nat
          /\ Cardinality(After(InBucket(s), t)) <= Len(InBucket(s)) /\ Len(InBucket(s)) \in Nat
      BY <1>8, AfterFinite
    <3>5. Cardinality(After(asked[s], t)) \in Nat
      BY <1>8, AfterFinite
    <3>6. Cardinality(After(InBucket(s), t)) = Cardinality(After(bucket[s], t))
      BY <1>8
    <3>7. Len(InBucket(s)) < RateLimit
      BY <1>3
    <3>8. one \in {0, 1}
      OBVIOUS
    <3> HIDE DEF one
    <3>9. \/ Cardinality(After(asked'[s], t)) = Cardinality(After(asked[s], t))
          \/ Cardinality(After(asked'[s], t)) = Cardinality(After(asked[s], t)) + one
      BY <1>10, <3>3
    <3>10. Cardinality(After(bucket'[s], t)) = Cardinality(After(bucket[s], t)) + one
      BY <1>9, <3>2, <3>6
    <3> QED  BY <2>1, <2>3, <3>1, <3>4, <3>5, <3>6, <3>7, <3>8, <3>9, <3>10
  <2> QED  BY <2>2, <2>3
<1> QED  BY <1>4, <1>7, <1>11, <1>12 DEF SearchInv

LEMMA AnsweredStep ==
  ASSUME SearchInv, NEW c \in Caller, Answered(c)
  PROVE  SearchInv'
<1>1. /\ UNCHANGED <<now, bucket, asked, calls>> /\ caller[c].pc = "provider"
      /\ caller' = [caller EXCEPT ![c] = NoCall] /\ packets' = packets + 1
  BY DEF Answered, CallReturns
<1>2. PICK key \in Key : key = caller[c].key
  BY SearchParts
<1>3. /\ caller' \in [Caller -> [pc : {"idle", "gate", "search", "provider"},
                                 session : Session, key : Key]]
      /\ IsFiniteSet(Busy)' /\ Cardinality(Busy)' \in Nat
      /\ Cardinality(Busy)' + 1 = Cardinality(Busy)
  BY <1>1, IdleCall, CallMoves
<1>4. /\ packets' + Cardinality(Busy)' <= calls' /\ packets' \in 1..MaxCalls
      /\ packets' \in 0..MaxCalls
  <2>1. packets + 1 + Cardinality(Busy)' <= calls
    BY <1>3, SearchNumbers
  <2> QED  BY <2>1, <1>1, <1>3, SearchNumbers
<1>5. PICK e \in Answer : e = [key |-> key, at |-> now, packet |-> packets']
  BY <1>4, SearchParts DEF Answer
<1>6. PICK w : w = Without(key)
  OBVIOUS
<1>7. /\ w \in Seq(Answer) /\ Once(w)
      /\ \A i \in DOMAIN w : w[i].key # key /\ \E j \in DOMAIN store : w[i] = store[j]
  BY <1>6, SearchParts, WithoutKey
<1>8. \A i \in DOMAIN w : w[i].packet <= packets
  BY <1>7 DEF SearchInv, StoreInv
<1>9. \A i \in DOMAIN w : w[i].key # e.key /\ w[i].packet # e.packet
  BY <1>1, <1>5, <1>7, <1>8, SearchParts
<1>10. PICK all : all = Append(w, e)
  OBVIOUS
<1>11. /\ all \in Seq(Answer) /\ Once(all)
       /\ \A i \in DOMAIN all : all[i] = e \/ \E j \in DOMAIN w : all[i] = w[j]
  BY <1>7, <1>9, <1>10, OnceAppend
<1>12. \A i \in DOMAIN all : all[i].packet <= packets'
  <2> SUFFICES ASSUME NEW i \in DOMAIN all PROVE all[i].packet <= packets'
    OBVIOUS
  <2>1. CASE all[i] = e
    BY <2>1, <1>1, <1>5, SearchParts
  <2>2. CASE \E j \in DOMAIN w : all[i] = w[j]
    <3>1. PICK j \in DOMAIN w : all[i] = w[j]
      BY <2>2
    <3>2. w[j].packet <= packets /\ w[j] \in Answer
      BY <1>7, <1>8
    <3>3. w[j].packet \in Nat
      BY <3>2 DEF Answer
    <3> QED  BY <3>1, <3>2, <3>3, <1>1, SearchParts
  <2> QED  BY <1>11, <2>1, <2>2
<1>13. PICK n : n = IF Len(all) > CacheSize THEN Len(all) - CacheSize ELSE 0
  OBVIOUS
<1>14. n \in 0..Len(all) /\ Len(all) - n <= CacheSize
  <2>1. Len(all) \in Nat
    BY <1>11
  <2>2. CacheSize \in Nat
    BY SearchParts
  <2> QED  BY <2>1, <2>2, <1>13
<1>15. store' = SubSeq(all, n + 1, Len(all))
  <2>1. store' = SubSeq(all, 1 + n, Len(all))
    BY <1>2, <1>5, <1>6, <1>10, <1>13 DEF Answered, Put
  <2>2. 1 + n = n + 1
    BY <1>14
  <2> QED  BY <2>1, <2>2
<1>16. /\ store' \in Seq(Answer) /\ Len(store') = Len(all) - n /\ Once(store')
       /\ \A i \in DOMAIN store' : \E j \in DOMAIN all : store'[i] = all[j]
  BY <1>11, <1>14, <1>15, OnceCut
<1>17. StoreInv'
  BY <1>12, <1>14, <1>16 DEF StoreInv, Once
<1>18. SearchTypeOK'
  BY <1>1, <1>3, <1>4, <1>16 DEF SearchInv, SearchTypeOK
<1>19. ChargeInv'
  BY <1>1 DEF SearchInv, ChargeInv, After
<1> QED  BY <1>3, <1>4, <1>17, <1>18, <1>19 DEF SearchInv, PacketsInv

LEMMA ClockStep ==
  ASSUME SearchInv, SearchTimePasses
  PROVE  SearchInv'
<1>1. UNCHANGED <<caller, bucket, store, asked, packets, calls>> /\ now' = now + 1 /\ now < EndOfTime
  BY DEF SearchTimePasses
<1>2. now' \in 0..EndOfTime /\ \A t \in Int : t >= now' - RateWindow => t >= now - RateWindow
  <2>1. now' \in 0..EndOfTime
    BY <1>1, SearchNumbers
  <2>2. ASSUME NEW t \in Int, t >= now' - RateWindow PROVE t >= now - RateWindow
    BY <1>1, <2>2, SearchNumbers
  <2> QED  BY <2>1, <2>2
<1>3. ChargeInv'
  BY <1>1, <1>2 DEF SearchInv, ChargeInv, After
<1> QED  BY <1>1, <1>2, <1>3 DEF SearchInv, SearchTypeOK, PacketsInv, StoreInv, Busy, Once

LEMMA SearchStep == SearchInv /\ [SearchNext]_searchVars => SearchInv'
<1> SUFFICES ASSUME SearchInv, [SearchNext]_searchVars PROVE SearchInv'
  OBVIOUS
<1>1. CASE SearchNext
  BY <1>1, CallStep, HitStep, RefusedStep, ChargedStep, AnsweredStep, ClockStep DEF SearchNext
<1>2. CASE UNCHANGED searchVars
  <2>1. SearchTypeOK' /\ PacketsInv'
    BY <1>2 DEF searchVars, SearchInv, SearchTypeOK, PacketsInv, Busy
  <2>2. ChargeInv'
    BY <1>2 DEF searchVars, SearchInv, ChargeInv, After
  <2>3. StoreInv'
    BY <1>2 DEF searchVars, SearchInv, StoreInv, Once
  <2> QED  BY <2>1, <2>2, <2>3 DEF SearchInv
<1> QED  BY <1>1, <1>2

LEMMA SearchSafe == SearchSpec => []SearchBound
<1>1. SearchInv => SearchBound
  <2> SUFFICES ASSUME SearchInv PROVE SearchBound
    OBVIOUS
  <2>1. ASSUME RateLimit > 0, NEW s \in Session
        PROVE  Cardinality(After(asked[s], now - RateWindow)) <= RateLimit
    <3>1. PICK t \in Int : t = now - RateWindow
      BY SearchParts
    <3>2. /\ Cardinality(After(asked[s], t)) <= Cardinality(After(bucket[s], t))
          /\ Cardinality(After(bucket[s], t)) <= RateLimit
      BY <2>1, <3>1 DEF SearchInv, ChargeInv
    <3>3. Cardinality(After(asked[s], t)) \in Nat /\ Cardinality(After(bucket[s], t)) \in Nat
      BY BucketKept, AfterFinite DEF SearchInv
    <3> QED  BY <3>1, <3>2, <3>3, SearchParts
  <2> QED  BY <2>1 DEF SearchInv, StoreInv, Once, SearchBound, After
<1> QED  BY <1>1, SearchInvInit, SearchStep, PTL DEF SearchSpec

-----------------------------------------------------------------------------
(* The reviews of the harness.                                             *)

HarnessSpec == HarnessInit /\ [][HarnessNext]_harnessVars

(* A copy is no newer than the saves allow. *)
Dated(S) == \A c \in S : c \in Config /\ c.version <= saves + 1

(* The file is what the review makes of the configuration s it replaced. *)
Applied(s, r) ==
  \A c \in s : \E x \in review[r].snapshot : Same(file, _apply_snapshot_to_config(c, x))

ApplyInv ==
  apply.pc # "idle" =>
    /\ apply.review \in Review /\ review[apply.review].status = "approved"
    /\ apply.previous # {}
    /\ apply.pc = "mark" => activation[apply.review].previous = apply.previous
    /\ apply.review \notin overtaken =>
         IF apply.pc = "save" THEN apply.previous = {file}
         ELSE Applied(apply.previous, apply.review)

WatchInv ==
  \A r \in Review :
    /\ review[r].status = "applied" => activation[r].previous # {}
    /\ watch[r].pc # "idle" => review[r].status = "applied"
    /\ watch[r].pc = "watch" /\ r \notin overtaken => Applied(activation[r].previous, r)
    /\ watch[r].pc = "restore" /\ r \notin overtaken => Applied(watch[r].config, r)

TunerInv ==
  tuner.pc = "save" /\ "tuner" \notin overtaken =>
    \A c \in tuner.config :
      c.version = file.version /\ (c.model = file.model \/ c.budget = file.budget)

CacheInv ==
  /\ "cache" \notin overtaken => cached \subseteq {file}
  /\ "reader" \notin overtaken => reading \subseteq {file}

CopiesDated ==
  /\ Dated({file}) /\ Dated(cached) /\ Dated(reading) /\ Dated(apply.previous)
  /\ Dated(tuner.config)
  /\ \A r \in Review : Dated(activation[r].previous) /\ Dated(watch[r].config)

HarnessInv == HarnessTypeOK /\ CopiesDated /\ ApplyInv /\ WatchInv /\ TunerInv /\ CacheInv

LEMMA HarnessInvInit == HarnessInit => HarnessInv
<1> SUFFICES ASSUME HarnessInit PROVE HarnessInv
  OBVIOUS
<1> USE ReviewsAssumption
<1>1. file \in Config /\ file.version = 1 /\ saves = 0
  BY DEF HarnessInit, Config
<1>2. HarnessTypeOK
  BY <1>1 DEF HarnessInit, HarnessTypeOK, MaybeConfig, MaybeReport, AtRest, NotApplying
<1>3. CopiesDated
  BY <1>1 DEF HarnessInit, CopiesDated, Dated, AtRest, NotApplying
<1>4. ApplyInv /\ WatchInv /\ TunerInv /\ CacheInv
  BY DEF HarnessInit, ApplyInv, WatchInv, TunerInv, CacheInv, AtRest, NotApplying
<1> QED  BY <1>2, <1>3, <1>4 DEF HarnessInv

(* A configuration that replaces the file. *)
LEMMA SavedTyped ==
  ASSUME HarnessTypeOK, NEW c \in Config, c.version <= saves + 1, NEW w, save_config(c, w),
         w \in Review \cup {"tuner"}
  PROVE  /\ file' \in Config /\ file'.version = c.version + 1 /\ file'.version <= saves' + 1
         /\ file'.model = c.model /\ file'.budget = c.budget
         /\ saves' \in 0..MaxSaves /\ saves' = saves + 1
         /\ cached' \in {{}, cached}
         /\ overtaken' \subseteq Review \cup {"tuner", "reader", "cache"}
<1> USE ReviewsAssumption
<1>1. saves \in Nat /\ saves < MaxSaves /\ saves' = saves + 1 /\ c.version \in Nat \ {0}
      /\ c.model \in Model /\ c.budget \in Budget
  BY DEF save_config, HarnessTypeOK, Config
<1>2. c.version + 1 \in 1..MaxSaves + 1 /\ saves' \in 0..MaxSaves
  BY <1>1
<1>3. file' = [c EXCEPT !.version = @ + 1]
  BY DEF save_config
<1>4. file' \in Config /\ file'.version = c.version + 1
      /\ file'.model = c.model /\ file'.budget = c.budget
  BY <1>2, <1>3 DEF Config
<1>5. overtaken' \subseteq Review \cup {"tuner", "reader", "cache"} /\ cached' \in {{}, cached}
  BY DEF save_config, Holding
<1> QED  BY <1>1, <1>2, <1>4, <1>5

LEMMA TunedTyped ==
  ASSUME NEW c \in Config, NEW x \in Report
  PROVE  /\ Tuned(c, x) \in Config /\ Tuned(c, x).version = c.version
         /\ _apply_snapshot_to_config(c, x) \in Config
         /\ _apply_snapshot_to_config(c, x).version = c.version
<1>1. \A y \in Report : Tuned(c, y) \in Config /\ Tuned(c, y).version = c.version
  BY DEF Tuned, Config, Report
<1>2. [x EXCEPT !.budget = Kept] \in Report
  BY DEF Report
<1> QED  BY <1>1, <1>2 DEF _apply_snapshot_to_config

(* Reports and copies as the invariant types them. *)
LEMMA HarnessParts ==
  ASSUME HarnessInv
  PROVE  /\ file \in Config /\ saves \in Nat
         /\ \A r \in Review : \A x \in review[r].snapshot : x \in Report
         /\ review \in [Review -> [status : {"none", "proposed", "approved", "rejected", "applied"},
                                   snapshot : MaybeReport]]
         /\ activation \in [Review -> [previous : MaybeConfig, reverted : BOOLEAN]]
         /\ watch \in [Review -> [pc : {"idle", "watch", "restore"}, config : MaybeConfig]]
         /\ apply \in [pc : {"idle", "save", "activate", "mark"}, review : Review \cup {NoReview},
                       previous : MaybeConfig]
         /\ tuner \in [pc : {"idle", "save"}, config : MaybeConfig]
<1>1. \A S \in MaybeReport : \A x \in S : x \in Report
  BY DEF MaybeReport
<1> QED  BY <1>1, ReviewsAssumption DEF HarnessInv, HarnessTypeOK

LEMMA ReviewsMade ==
  ASSUME HarnessInv, NEW r \in Review, run_harness_review(r) \/ approve_harness_review(r)
  PROVE  HarnessInv'
<1>1. /\ UNCHANGED <<file, cached, reading, activation, watch, apply, tuner, sessions, order,
                     overtaken, saves>>
      /\ apply.pc = "idle" /\ review[r].status # "applied"
  BY DEF run_harness_review, approve_harness_review, ServerFree
<1>2. Proposals(file) \subseteq Report
  BY DEF Proposals
<1>3. /\ review' \in [Review -> [status : {"none", "proposed", "approved", "rejected", "applied"},
                                 snapshot : MaybeReport]]
      /\ review'[r].status # "applied" /\ \A q \in Review \ {r} : review'[q] = review[q]
  <2>1. ASSUME NEW n \in {"proposed", "rejected"}, review' = [review EXCEPT ![r].status = n]
        PROVE  /\ review' \in [Review -> [status : {"none", "proposed", "approved", "rejected",
                                                    "applied"}, snapshot : MaybeReport]]
               /\ review'[r].status # "applied" /\ \A q \in Review \ {r} : review'[q] = review[q]
    BY <2>1, HarnessParts
  <2>2. CASE \E x \in Report :
          review' = [review EXCEPT ![r] = [status |-> "approved", snapshot |-> {x}]]
    BY <2>2, HarnessParts DEF MaybeReport
  <2>3. approve_harness_review(r) => \/ review' = [review EXCEPT ![r].status = "rejected"]
                                     \/ \E x \in Report : review' =
                                          [review EXCEPT ![r] = [status |-> "approved",
                                                                 snapshot |-> {x}]]
    BY <1>2, HarnessParts DEF approve_harness_review
  <2>4. run_harness_review(r) => review' = [review EXCEPT ![r].status = "proposed"]
    BY DEF run_harness_review
  <2> QED  BY <2>1, <2>2, <2>3, <2>4
<1>4. HarnessTypeOK'
  BY <1>1, <1>3 DEF HarnessInv, HarnessTypeOK
<1>5. CopiesDated' /\ ApplyInv' /\ TunerInv' /\ CacheInv'
  BY <1>1 DEF HarnessInv, CopiesDated, Dated, ApplyInv, TunerInv, CacheInv
<1>6. WatchInv'
  <2>1. watch[r].pc = "idle"
    BY <1>1 DEF HarnessInv, WatchInv
  <2> QED  BY <2>1, <1>1, <1>3 DEF HarnessInv, WatchInv, Applied, Same, _apply_snapshot_to_config,
                                   Tuned
<1> QED  BY <1>4, <1>5, <1>6 DEF HarnessInv

LEMMA ApplyLoadsStep ==
  ASSUME HarnessInv, NEW r \in Review, ApplyLoads(r)
  PROVE  HarnessInv'
<1>1. /\ UNCHANGED <<file, cached, reading, review, activation, watch, tuner, sessions, order, saves>>
      /\ apply' = [pc |-> "save", review |-> r, previous |-> {file}]
      /\ overtaken' = overtaken \ {r} /\ review[r].status = "approved"
  BY DEF ApplyLoads
<1>2. HarnessTypeOK'
  BY <1>1, HarnessParts DEF HarnessInv, HarnessTypeOK, MaybeConfig
<1>3. CopiesDated'
  BY <1>1 DEF HarnessInv, CopiesDated, Dated
<1>4. ApplyInv'
  BY <1>1 DEF ApplyInv
<1>5. watch[r].pc = "idle"
  BY <1>1 DEF HarnessInv, WatchInv
<1>6. WatchInv'
  BY <1>1, <1>5 DEF HarnessInv, WatchInv, Applied, Same, _apply_snapshot_to_config, Tuned
<1>7. TunerInv' /\ CacheInv'
  BY <1>1, ReviewsAssumption DEF HarnessInv, TunerInv, CacheInv
<1> QED  BY <1>2, <1>3, <1>4, <1>6, <1>7 DEF HarnessInv

LEMMA ApplyRefusedStep ==
  ASSUME HarnessInv, ApplyRefused
  PROVE  HarnessInv'
<1> DEFINE r == apply.review
<1>1. /\ UNCHANGED <<file, cached, reading, review, activation, watch, tuner, sessions, order, saves>>
      /\ apply' = NotApplying /\ overtaken' = overtaken \ {r} /\ apply.pc = "save"
  BY DEF ApplyRefused
<1>2. r \in Review /\ watch[r].pc = "idle"
  BY <1>1 DEF HarnessInv, ApplyInv, WatchInv
<1>3. HarnessTypeOK'
  BY <1>1, HarnessParts DEF HarnessInv, HarnessTypeOK, MaybeConfig, NotApplying
<1>4. CopiesDated'
  BY <1>1 DEF HarnessInv, CopiesDated, Dated, NotApplying
<1>5. ApplyInv'
  BY <1>1 DEF ApplyInv, NotApplying
<1>6. WatchInv'
  BY <1>1, <1>2 DEF HarnessInv, WatchInv, Applied, Same, _apply_snapshot_to_config, Tuned
<1>7. TunerInv' /\ CacheInv'
  BY <1>1, <1>2, ReviewsAssumption DEF HarnessInv, TunerInv, CacheInv
<1> QED  BY <1>3, <1>4, <1>5, <1>6, <1>7 DEF HarnessInv

LEMMA ActivationStep ==
  ASSUME HarnessInv, snapshot_activation
  PROVE  HarnessInv'
<1> DEFINE r == apply.review
<1>1. /\ UNCHANGED <<file, cached, reading, review, watch, tuner, sessions, overtaken, saves>>
      /\ apply' = [apply EXCEPT !.pc = "mark"] /\ apply.pc = "activate"
      /\ activation' = [activation EXCEPT ![r] = [previous |-> apply.previous, reverted |-> FALSE]]
  BY DEF snapshot_activation
<1>2. r \in Review /\ watch[r].pc = "idle" /\ review[r].status # "applied"
  BY <1>1 DEF HarnessInv, ApplyInv, WatchInv
<1>3. /\ apply' \in [pc : {"idle", "save", "activate", "mark"}, review : Review \cup {NoReview},
                     previous : MaybeConfig]
      /\ apply'.pc = "mark" /\ apply'.review = r /\ apply'.previous = apply.previous
  BY <1>1, HarnessParts
<1>4. /\ activation' \in [Review -> [previous : MaybeConfig, reverted : BOOLEAN]]
      /\ activation'[r].previous = apply.previous
      /\ \A q \in Review \ {r} : activation'[q] = activation[q]
  BY <1>1, <1>2, HarnessParts
<1>5. HarnessTypeOK'
  BY <1>1, <1>3, <1>4 DEF HarnessInv, HarnessTypeOK
<1>6. CopiesDated'
  BY <1>1, <1>3, <1>4 DEF HarnessInv, CopiesDated, Dated
<1>7. ApplyInv'
  BY <1>1, <1>3, <1>4 DEF HarnessInv, ApplyInv, Applied, Same, _apply_snapshot_to_config, Tuned
<1>8. WatchInv'
  BY <1>1, <1>2, <1>4 DEF HarnessInv, WatchInv, Applied, Same, _apply_snapshot_to_config, Tuned
<1>9. TunerInv' /\ CacheInv'
  BY <1>1 DEF HarnessInv, TunerInv, CacheInv
<1> QED  BY <1>5, <1>6, <1>7, <1>8, <1>9 DEF HarnessInv

LEMMA MarkStep ==
  ASSUME HarnessInv, ApplyMarks
  PROVE  HarnessInv'
<1> DEFINE r == apply.review
<1>1. /\ UNCHANGED <<file, cached, reading, activation, tuner, sessions, overtaken, saves>>
      /\ apply' = NotApplying /\ apply.pc = "mark"
      /\ review' = [review EXCEPT ![r].status = "applied"]
      /\ watch' = [watch EXCEPT ![r].pc = "watch"]
  BY DEF ApplyMarks
<1>2. /\ r \in Review /\ apply.previous # {} /\ activation[r].previous = apply.previous
      /\ r \notin overtaken => Applied(apply.previous, r)
  BY <1>1 DEF HarnessInv, ApplyInv
<1>3. /\ review' \in [Review -> [status : {"none", "proposed", "approved", "rejected", "applied"},
                                 snapshot : MaybeReport]]
      /\ \A q \in Review : review'[q].snapshot = review[q].snapshot
      /\ \A q \in Review \ {r} : review'[q] = review[q]
      /\ review'[r].status = "applied"
  BY <1>1, <1>2, HarnessParts
<1>4. /\ watch' \in [Review -> [pc : {"idle", "watch", "restore"}, config : MaybeConfig]]
      /\ \A q \in Review \ {r} : watch'[q] = watch[q]
      /\ watch'[r].pc = "watch" /\ watch'[r].config = watch[r].config
  BY <1>1, <1>2, HarnessParts
<1>5. HarnessTypeOK'
  BY <1>1, <1>3, <1>4 DEF HarnessInv, HarnessTypeOK, MaybeConfig, NotApplying
<1>6. CopiesDated'
  BY <1>1, <1>4 DEF HarnessInv, CopiesDated, Dated, NotApplying
<1>7. ApplyInv'
  BY <1>1 DEF ApplyInv, NotApplying
<1>8. WatchInv'
  <2>1. \A S : \A q \in Review : Applied(S, q) => \A c \in S : \E x \in review'[q].snapshot :
          Same(file', _apply_snapshot_to_config(c, x))
    BY <1>1, <1>3 DEF Applied, Same
  <2>2. ASSUME NEW q \in Review \ {r}
        PROVE  /\ review'[q].status = "applied" => activation'[q].previous # {}
               /\ watch'[q].pc # "idle" => review'[q].status = "applied"
               /\ watch'[q].pc = "watch" /\ q \notin overtaken' => Applied(activation[q].previous, q)
               /\ watch'[q].pc = "restore" /\ q \notin overtaken' => Applied(watch[q].config, q)
    BY <1>1, <1>3, <1>4 DEF HarnessInv, WatchInv
  <2>3. /\ activation'[r].previous # {} /\ watch'[r].pc = "watch" /\ review'[r].status = "applied"
        /\ r \notin overtaken' => Applied(activation[r].previous, r)
    BY <1>1, <1>2, <1>3, <1>4
  <2> QED  BY <2>1, <2>2, <2>3, <1>1, <1>4 DEF WatchInv, Applied, Same, _apply_snapshot_to_config, Tuned
<1>9. TunerInv' /\ CacheInv'
  BY <1>1 DEF HarnessInv, TunerInv, CacheInv
<1> QED  BY <1>5, <1>6, <1>7, <1>8, <1>9 DEF HarnessInv

LEMMA ContentStep ==
  ASSUME HarnessInv, NEW r \in Review, WatcherIsContent(r)
  PROVE  HarnessInv'
<1>1. /\ UNCHANGED <<file, cached, reading, review, activation, apply, tuner, sessions, order, saves>>
      /\ watch' = [watch EXCEPT ![r] = AtRest({})] /\ overtaken' = overtaken \ {r}
      /\ watch[r].pc = "watch"
  BY DEF WatcherIsContent
<1>2. review[r].status = "applied"
  BY <1>1 DEF HarnessInv, WatchInv
<1>3. /\ watch' \in [Review -> [pc : {"idle", "watch", "restore"}, config : MaybeConfig]]
      /\ \A q \in Review \ {r} : watch'[q] = watch[q]
      /\ watch'[r].pc = "idle" /\ watch'[r].config = {}
  BY <1>1, HarnessParts DEF AtRest, MaybeConfig
<1>4. HarnessTypeOK'
  BY <1>1, <1>3 DEF HarnessInv, HarnessTypeOK
<1>5. CopiesDated'
  BY <1>1, <1>3 DEF HarnessInv, CopiesDated, Dated
<1>6. ApplyInv'
  BY <1>1, <1>2 DEF HarnessInv, ApplyInv, Applied, Same, _apply_snapshot_to_config, Tuned
<1>7. WatchInv'
  BY <1>1, <1>3 DEF HarnessInv, WatchInv, Applied, Same, _apply_snapshot_to_config, Tuned
<1>8. TunerInv' /\ CacheInv'
  BY <1>1, ReviewsAssumption DEF HarnessInv, TunerInv, CacheInv
<1> QED  BY <1>4, <1>5, <1>6, <1>7, <1>8 DEF HarnessInv

LEMMA RevertStep ==
  ASSUME HarnessInv, NEW r \in Review, revert_activation(r)
  PROVE  HarnessInv'
<1>1. /\ UNCHANGED <<file, cached, reading, review, apply, tuner, sessions, order, overtaken, saves>>
      /\ watch' = [watch EXCEPT ![r] = [pc |-> "restore", config |-> activation[r].previous]]
      /\ activation' = [activation EXCEPT ![r].reverted = TRUE] /\ watch[r].pc = "watch"
  BY DEF revert_activation
<1>2. review[r].status = "applied"
  BY <1>1 DEF HarnessInv, WatchInv
<1>3. /\ activation' \in [Review -> [previous : MaybeConfig, reverted : BOOLEAN]]
      /\ \A q \in Review : activation'[q].previous = activation[q].previous
  BY <1>1, HarnessParts
<1>4. /\ watch' \in [Review -> [pc : {"idle", "watch", "restore"}, config : MaybeConfig]]
      /\ \A q \in Review \ {r} : watch'[q] = watch[q]
      /\ watch'[r].pc = "restore" /\ watch'[r].config = activation[r].previous
  BY <1>1, HarnessParts
<1>5. HarnessTypeOK'
  BY <1>1, <1>3, <1>4 DEF HarnessInv, HarnessTypeOK
<1>6. CopiesDated'
  BY <1>1, <1>3, <1>4 DEF HarnessInv, CopiesDated, Dated
<1>7. ApplyInv'
  BY <1>1, <1>2, <1>3 DEF HarnessInv, ApplyInv, Applied, Same, _apply_snapshot_to_config, Tuned
<1>8. WatchInv'
  BY <1>1, <1>2, <1>3, <1>4
     DEF HarnessInv, WatchInv, Applied, Same, _apply_snapshot_to_config, Tuned
<1>9. TunerInv' /\ CacheInv'
  BY <1>1 DEF HarnessInv, TunerInv, CacheInv
<1> QED  BY <1>5, <1>6, <1>7, <1>8, <1>9 DEF HarnessInv

LEMMA TunerLoadsStep ==
  ASSUME HarnessInv, TunerLoads
  PROVE  HarnessInv'
<1>1. PICK x \in Proposals(file) :
        /\ Kept \in {x.model, x.budget}
        /\ tuner' = [pc |-> "save", config |-> {Tuned(file, x)}]
  BY DEF TunerLoads
<1>2. /\ UNCHANGED <<file, cached, reading, review, activation, watch, apply, sessions, order, saves>>
      /\ overtaken' = overtaken \ {"tuner"}
  BY DEF TunerLoads
<1>3. x \in Report /\ file \in Config
  BY HarnessParts DEF Proposals
<1>4. Tuned(file, x) \in Config /\ Tuned(file, x).version = file.version
  BY <1>3, TunedTyped
<1>5. Tuned(file, x).model = file.model \/ Tuned(file, x).budget = file.budget
  BY <1>1, <1>3 DEF Tuned, Config
<1>6. HarnessTypeOK'
  BY <1>1, <1>2, <1>4 DEF HarnessInv, HarnessTypeOK, MaybeConfig
<1>7. CopiesDated'
  BY <1>1, <1>2, <1>4 DEF HarnessInv, CopiesDated, Dated
<1>8. ApplyInv' /\ CacheInv'
  BY <1>2, ReviewsAssumption DEF HarnessInv, ApplyInv, CacheInv, Applied, Same, _apply_snapshot_to_config, Tuned
<1>9. WatchInv'
  BY <1>2, ReviewsAssumption DEF HarnessInv, WatchInv, Applied, Same, _apply_snapshot_to_config, Tuned
<1>10. TunerInv'
  BY <1>1, <1>2, <1>4, <1>5 DEF TunerInv
<1> QED  BY <1>6, <1>7, <1>8, <1>9, <1>10 DEF HarnessInv

LEMMA RecordStep ==
  ASSUME HarnessInv, record_session
  PROVE  HarnessInv'
<1>1. PICK a : a = _active_review_id
  OBVIOUS
<1>2. /\ UNCHANGED <<file, cached, reading, review, activation, watch, apply, tuner, order,
                     overtaken, saves>>
      /\ sessions[a] < MaxRecorded /\ sessions' = [sessions EXCEPT ![a] = @ + 1]
  BY <1>1 DEF record_session
<1>3. sessions' \in [Review -> 0..MaxRecorded]
  <2>1. sessions \in [Review -> 0..MaxRecorded]
    BY DEF HarnessInv, HarnessTypeOK
  <2>2. a \in Review => sessions[a] + 1 \in 0..MaxRecorded
    BY <2>1, <1>2, ReviewsAssumption
  <2> QED  BY <2>1, <2>2, <1>2
<1>4. HarnessTypeOK'
  BY <1>2, <1>3 DEF HarnessInv, HarnessTypeOK
<1>5. CopiesDated' /\ ApplyInv' /\ TunerInv' /\ CacheInv'
  BY <1>2 DEF HarnessInv, CopiesDated, Dated, ApplyInv, TunerInv, CacheInv, Applied, Same,
              _apply_snapshot_to_config, Tuned
<1>6. WatchInv'
  BY <1>2 DEF HarnessInv, WatchInv, Applied, Same, _apply_snapshot_to_config, Tuned
<1> QED  BY <1>4, <1>5, <1>6 DEF HarnessInv

LEMMA CacheStep ==
  ASSUME HarnessInv, GetConfigReads \/ GetConfigKeeps
  PROVE  HarnessInv'
<1>1. UNCHANGED <<file, review, activation, watch, apply, tuner, sessions, order, saves>>
  BY DEF GetConfigReads, GetConfigKeeps
<1>2. /\ cached' \in {cached, reading} /\ reading' \in {{}, {file}}
      /\ overtaken' \subseteq overtaken \cup {"cache"}
      /\ overtaken \subseteq overtaken' \cup {"reader", "cache"}
  BY DEF GetConfigReads, GetConfigKeeps
<1>3. HarnessTypeOK'
  BY <1>1, <1>2 DEF HarnessInv, HarnessTypeOK, MaybeConfig
<1>4. CopiesDated'
  BY <1>1, <1>2 DEF HarnessInv, CopiesDated, Dated
<1>5. ApplyInv' /\ TunerInv'
  BY <1>1, <1>2, ReviewsAssumption DEF HarnessInv, ApplyInv, TunerInv, Applied, Same,
                           _apply_snapshot_to_config, Tuned
<1>6. WatchInv'
  BY <1>1, <1>2, ReviewsAssumption DEF HarnessInv, WatchInv, Applied, Same, _apply_snapshot_to_config, Tuned
<1>7. CacheInv'
  BY <1>1 DEF HarnessInv, CacheInv, GetConfigReads, GetConfigKeeps
<1> QED  BY <1>3, <1>4, <1>5, <1>6, <1>7 DEF HarnessInv

LEMMA DiesStep ==
  ASSUME HarnessInv, HarnessServerDies
  PROVE  HarnessInv'
<1>1. /\ UNCHANGED <<file, review, activation, tuner, sessions, order, saves>>
      /\ apply' = NotApplying /\ watch' = [r \in Review |-> AtRest({})]
      /\ cached' = {} /\ reading' = {} /\ overtaken' = overtaken \cap {"tuner"}
  BY DEF HarnessServerDies
<1>2. HarnessTypeOK'
  BY <1>1 DEF HarnessInv, HarnessTypeOK, MaybeConfig, AtRest, NotApplying
<1>3. CopiesDated'
  BY <1>1 DEF HarnessInv, CopiesDated, Dated, AtRest, NotApplying
<1>4. ApplyInv' /\ TunerInv' /\ CacheInv' /\ WatchInv'
  BY <1>1 DEF HarnessInv, ApplyInv, TunerInv, CacheInv, WatchInv, AtRest, NotApplying
<1> QED  BY <1>2, <1>3, <1>4 DEF HarnessInv

(* Whoever holds a copy while another saves is overtaken. *)
LEMMA SaveOvertakes ==
  ASSUME HarnessInv, NEW c \in Config, NEW w, save_config(c, w)
  PROVE  /\ \A r \in Review \ {w} :
              apply.review = r \/ watch[r].pc # "idle" => r \in overtaken'
         /\ tuner.pc # "idle" /\ w # "tuner" => "tuner" \in overtaken'
         /\ w # "reader" /\ reading # {} => "reader" \in overtaken'
         /\ w = "tuner" /\ cached # {} => "cache" \in overtaken' /\ cached' = cached
         /\ w # "tuner" \/ cached = {} => cached' = {}
BY ReviewsAssumption DEF save_config, Holding

(* What a save leaves of the invariant, whoever makes it. *)
LEMMA SaveKeeps ==
  ASSUME HarnessInv, NEW c \in Config, c.version <= saves + 1, NEW w \in Review \cup {"tuner"},
         save_config(c, w), UNCHANGED <<reading, review, activation, sessions>>
  PROVE  /\ file' \in Config /\ cached' \in MaybeConfig /\ saves' \in 0..MaxSaves
         /\ overtaken' \subseteq Review \cup {"tuner", "reader", "cache"}
         /\ Dated({file})' /\ Dated(cached)' /\ Dated(reading)' /\ CacheInv'
         /\ \A r \in Review : \A d \in activation[r].previous \cup watch[r].config :
              d \in Config /\ d.version <= saves' + 1
         /\ \A d \in apply.previous \cup tuner.config : d \in Config /\ d.version <= saves' + 1
<1>1. /\ file' \in Config /\ file'.version <= saves' + 1 /\ saves' = saves + 1
      /\ saves' \in 0..MaxSaves /\ saves \in Nat /\ cached' \in {{}, cached}
      /\ overtaken' \subseteq Review \cup {"tuner", "reader", "cache"}
  BY SavedTyped, HarnessParts DEF HarnessInv
<1>2. \A d \in Config : d.version \in Nat
  BY ReviewsAssumption DEF Config
<1>3. ASSUME NEW d \in Config, d.version <= saves + 1 PROVE d.version <= saves' + 1
  BY <1>1, <1>2, <1>3
<1>4. cached' \in MaybeConfig
  BY <1>1 DEF HarnessInv, HarnessTypeOK, MaybeConfig
<1>5. Dated({file})' /\ Dated(cached)' /\ Dated(reading)'
  BY <1>1, <1>3 DEF HarnessInv, CopiesDated, Dated
<1>6. \A r \in Review : \A d \in activation[r].previous \cup watch[r].config :
        d \in Config /\ d.version <= saves' + 1
  BY <1>3 DEF HarnessInv, CopiesDated, Dated
<1>7. \A d \in apply.previous \cup tuner.config : d \in Config /\ d.version <= saves' + 1
  BY <1>3 DEF HarnessInv, CopiesDated, Dated
<1>8. w # "reader"
  BY ReviewsAssumption
<1>9. CacheInv'
  BY <1>8, SaveOvertakes DEF CacheInv
<1> QED  BY <1>1, <1>4, <1>5, <1>6, <1>7, <1>9

LEMMA TunerSavesStep ==
  ASSUME HarnessInv, TunerSaves
  PROVE  HarnessInv'
<1>1. /\ UNCHANGED <<reading, review, activation, watch, apply, sessions, order>>
      /\ tuner' = AtRest({}) /\ tuner.pc = "save"
  BY DEF TunerSaves
<1>2. PICK c \in tuner.config : save_config(c, "tuner")
  BY DEF TunerSaves
<1>3. c \in Config /\ c.version <= saves + 1
  BY <1>2 DEF HarnessInv, CopiesDated, Dated
<1>4. "tuner" \notin Review
  BY ReviewsAssumption
<1>5. HarnessTypeOK'
  BY <1>1, <1>2, <1>3, SaveKeeps DEF HarnessInv, HarnessTypeOK, AtRest, MaybeConfig
<1>6. CopiesDated' /\ CacheInv'
  BY <1>1, <1>2, <1>3, SaveKeeps DEF CopiesDated, Dated, AtRest
<1>7. \A r \in Review : apply.review = r \/ watch[r].pc # "idle" => r \in overtaken'
  BY <1>2, <1>3, <1>4, SaveOvertakes
<1>8. ApplyInv' /\ WatchInv' /\ TunerInv'
  BY <1>1, <1>7 DEF HarnessInv, ApplyInv, WatchInv, TunerInv, AtRest
<1> QED  BY <1>5, <1>6, <1>8 DEF HarnessInv

LEMMA ApplySavesStep ==
  ASSUME HarnessInv, ApplySaves
  PROVE  HarnessInv'
<1> DEFINE r == apply.review
<1>1. /\ UNCHANGED <<reading, review, activation, watch, tuner, sessions, order>>
      /\ apply' = [apply EXCEPT !.pc = "activate"] /\ apply.pc = "save"
  BY DEF ApplySaves
<1>2. PICK c \in apply.previous, x \in review[r].snapshot :
        save_config(_apply_snapshot_to_config(c, x), r)
  BY DEF ApplySaves
<1>3. PICK d : d = _apply_snapshot_to_config(c, x)
  OBVIOUS
<1>4. r \in Review /\ watch[r].pc = "idle"
  BY <1>1 DEF HarnessInv, ApplyInv, WatchInv
<1>5. c \in Config /\ c.version <= saves + 1 /\ x \in Report
  BY <1>2, <1>4, HarnessParts DEF HarnessInv, CopiesDated, Dated
<1>6. d \in Config /\ d.version = c.version /\ d.version <= saves + 1 /\ save_config(d, r)
  BY <1>2, <1>3, <1>5, TunedTyped
<1>7. /\ apply' \in [pc : {"idle", "save", "activate", "mark"}, review : Review \cup {NoReview},
                     previous : MaybeConfig]
      /\ apply'.pc = "activate" /\ apply'.review = r /\ apply'.previous = apply.previous
  BY <1>1, HarnessParts
<1>8. HarnessTypeOK'
  BY <1>1, <1>4, <1>6, <1>7, SaveKeeps DEF HarnessInv, HarnessTypeOK
<1>9. CopiesDated' /\ CacheInv'
  BY <1>1, <1>4, <1>6, <1>7, SaveKeeps DEF CopiesDated, Dated
<1>10. /\ \A q \in Review : watch[q].pc # "idle" => q \in overtaken'
       /\ tuner.pc # "idle" => "tuner" \in overtaken'
  <2>1. r # "tuner"
    BY <1>4, ReviewsAssumption
  <2> QED  BY <2>1, <1>4, <1>6, SaveOvertakes
<1>11. \A b \in apply.previous : \E y \in review[r].snapshot :
         Same(file', _apply_snapshot_to_config(b, y))
  <2>1. file'.model = d.model /\ file'.budget = d.budget
    BY <1>4, <1>6, SavedTyped DEF HarnessInv
  <2>2. \A b \in apply.previous : b = c
    BY <1>2, HarnessParts DEF MaybeConfig
  <2> QED  BY <2>1, <2>2, <1>2, <1>3 DEF Same
<1>12. ApplyInv'
  BY <1>1, <1>7, <1>11 DEF HarnessInv, ApplyInv, Applied, Same, _apply_snapshot_to_config, Tuned
<1>13. WatchInv' /\ TunerInv'
  BY <1>1, <1>10 DEF HarnessInv, WatchInv, TunerInv
<1> QED  BY <1>8, <1>9, <1>12, <1>13 DEF HarnessInv

LEMMA RestoreStep ==
  ASSUME HarnessInv, NEW r \in Review, _restore_from_snapshot(r)
  PROVE  HarnessInv'
<1>1. /\ UNCHANGED <<reading, review, activation, apply, tuner, sessions, order>>
      /\ watch' = [watch EXCEPT ![r] = AtRest({})] /\ watch[r].pc = "restore"
  BY DEF _restore_from_snapshot
<1>2. PICK c \in watch[r].config : save_config(c, r)
  BY DEF _restore_from_snapshot
<1>3. c \in Config /\ c.version <= saves + 1
  BY <1>2 DEF HarnessInv, CopiesDated, Dated
<1>4. review[r].status = "applied"
  BY <1>1 DEF HarnessInv, WatchInv
<1>5. /\ watch' \in [Review -> [pc : {"idle", "watch", "restore"}, config : MaybeConfig]]
      /\ \A q \in Review \ {r} : watch'[q] = watch[q]
      /\ watch'[r].pc = "idle" /\ watch'[r].config = {}
  BY <1>1, HarnessParts DEF AtRest, MaybeConfig
<1>6. HarnessTypeOK'
  BY <1>1, <1>2, <1>3, <1>5, SaveKeeps DEF HarnessInv, HarnessTypeOK
<1>7. CopiesDated' /\ CacheInv'
  BY <1>1, <1>2, <1>3, <1>5, SaveKeeps DEF HarnessInv, CopiesDated, Dated
<1>8. /\ \A q \in Review \ {r} : apply.review = q \/ watch[q].pc # "idle" => q \in overtaken'
      /\ tuner.pc # "idle" => "tuner" \in overtaken'
  <2>1. r # "tuner"
    BY ReviewsAssumption
  <2> QED  BY <2>1, <1>2, <1>3, SaveOvertakes
<1>9. ApplyInv' /\ WatchInv' /\ TunerInv'
  BY <1>1, <1>4, <1>5, <1>8 DEF HarnessInv, ApplyInv, WatchInv, TunerInv
<1> QED  BY <1>6, <1>7, <1>9 DEF HarnessInv

LEMMA HarnessStep == HarnessInv /\ [HarnessNext]_harnessVars => HarnessInv'
<1> SUFFICES ASSUME HarnessInv, [HarnessNext]_harnessVars PROVE HarnessInv'
  OBVIOUS
<1>1. CASE HarnessNext
  BY <1>1, ReviewsMade, ApplyLoadsStep, ApplyRefusedStep, ActivationStep, MarkStep, ContentStep,
     RevertStep, TunerLoadsStep, TunerSavesStep, RecordStep, CacheStep, DiesStep, ApplySavesStep,
     RestoreStep DEF HarnessNext
<1>2. CASE UNCHANGED harnessVars
  <2>1. UNCHANGED <<file, cached, reading, review, activation, watch, apply, tuner, sessions,
                    overtaken, saves>>
    BY <1>2 DEF harnessVars
  <2> QED  BY <2>1 DEF HarnessInv, HarnessTypeOK, CopiesDated, Dated, ApplyInv, WatchInv, TunerInv,
                       CacheInv, Applied, Same, _apply_snapshot_to_config, Tuned
<1> QED  BY <1>1, <1>2

LEMMA ReviewedStep == HarnessInv /\ [HarnessNext]_harnessVars => [OnlyWhatWasReviewed]_harnessVars
<1> SUFFICES ASSUME HarnessInv, HarnessNext PROVE OnlyWhatWasReviewed
  OBVIOUS
<1>1. ASSUME apply.pc = "save", apply'.pc = "activate", apply.review \notin overtaken
      PROVE  \E x \in review[apply.review].snapshot :
               Same(file', _apply_snapshot_to_config(file, x)) /\ file'.version > file.version
  <2>1. ApplySaves
    BY <1>1 DEF HarnessNext, TunerLoads, TunerSaves, record_session, HarnessServerDies,
         ApplyRefused, snapshot_activation, ApplyMarks, GetConfigReads, GetConfigKeeps,
         run_harness_review, approve_harness_review, ApplyLoads, WatcherIsContent,
         revert_activation, _restore_from_snapshot, NotApplying
  <2>2. apply.previous = {file} /\ apply.review \in Review
    BY <1>1 DEF HarnessInv, ApplyInv
  <2>3. PICK x \in review[apply.review].snapshot :
          save_config(_apply_snapshot_to_config(file, x), apply.review)
    BY <2>1, <2>2 DEF ApplySaves
  <2>4. PICK d : d = _apply_snapshot_to_config(file, x)
    OBVIOUS
  <2>5. file \in Config /\ file.version <= saves + 1 /\ x \in Report
    BY <2>2, <2>3, HarnessParts DEF HarnessInv, CopiesDated, Dated
  <2>6. d \in Config /\ d.version = file.version
    BY <2>4, <2>5, TunedTyped
  <2>7. file'.version = file.version + 1 /\ file'.model = d.model /\ file'.budget = d.budget
    BY <2>2, <2>3, <2>4, <2>5, <2>6, SavedTyped DEF HarnessInv
  <2>8. file'.version > file.version
    BY <2>5, <2>7, ReviewsAssumption DEF Config
  <2> QED  BY <2>3, <2>4, <2>7, <2>8 DEF Same
<1>2. ASSUME tuner.pc = "save", tuner'.pc = "idle", "tuner" \notin overtaken
      PROVE  file'.version > file.version /\ (file'.model = file.model \/ file'.budget = file.budget)
  <2>1. TunerSaves
    BY <1>2 DEF HarnessNext, TunerLoads, ApplySaves, record_session, HarnessServerDies,
         ApplyRefused, snapshot_activation, ApplyMarks, GetConfigReads, GetConfigKeeps,
         run_harness_review, approve_harness_review, ApplyLoads, WatcherIsContent,
         revert_activation, _restore_from_snapshot
  <2>2. PICK c \in tuner.config : save_config(c, "tuner")
    BY <2>1 DEF TunerSaves
  <2>3. c \in Config /\ c.version <= saves + 1
    BY <2>2 DEF HarnessInv, CopiesDated, Dated
  <2>4. c.version = file.version /\ (c.model = file.model \/ c.budget = file.budget)
    BY <1>2, <2>2 DEF HarnessInv, TunerInv
  <2>5. file'.version = c.version + 1 /\ file'.model = c.model /\ file'.budget = c.budget
    BY <2>2, <2>3, SavedTyped DEF HarnessInv
  <2> QED  BY <2>3, <2>4, <2>5, ReviewsAssumption DEF Config
<1>3. ASSUME NEW r \in Review, watch[r].pc = "restore", watch'[r].pc = "idle", saves' # saves,
             r \notin overtaken
      PROVE  \E x \in review[r].snapshot : Same(file, _apply_snapshot_to_config(file', x))
  <2>1. _restore_from_snapshot(r)
    <3>1. \A q \in Review : _restore_from_snapshot(q) => q = r
      <4> SUFFICES ASSUME NEW q \in Review, q # r, _restore_from_snapshot(q) PROVE FALSE
        OBVIOUS
      <4>1. watch' = [watch EXCEPT ![q] = AtRest({})]
        BY DEF _restore_from_snapshot
      <4>2. watch'[r] = watch[r]
        BY <4>1, HarnessParts
      <4> QED  BY <4>2, <1>3
    <3>2. ~TunerSaves /\ ~ApplySaves
      BY <1>3 DEF TunerSaves, ApplySaves
    <3> QED
      BY <3>1, <3>2, <1>3 DEF HarnessNext, TunerLoads, record_session, HarnessServerDies,
           ApplyRefused, snapshot_activation, ApplyMarks, GetConfigReads, GetConfigKeeps,
           run_harness_review, approve_harness_review, ApplyLoads, WatcherIsContent,
           revert_activation
  <2>2. PICK c \in watch[r].config : save_config(c, r)
    BY <2>1 DEF _restore_from_snapshot
  <2>3. c \in Config /\ c.version <= saves + 1
    BY <2>2 DEF HarnessInv, CopiesDated, Dated
  <2>4. PICK x \in review[r].snapshot : Same(file, _apply_snapshot_to_config(c, x))
    BY <1>3, <2>2 DEF HarnessInv, WatchInv, Applied
  <2>5. file' \in Config /\ file'.model = c.model /\ file'.budget = c.budget
    BY <2>2, <2>3, SavedTyped DEF HarnessInv
  <2>6. x \in Report
    BY <2>4, HarnessParts
  <2>7. /\ _apply_snapshot_to_config(file', x).model = _apply_snapshot_to_config(c, x).model
        /\ _apply_snapshot_to_config(file', x).budget = _apply_snapshot_to_config(c, x).budget
    BY <2>3, <2>5, <2>6 DEF _apply_snapshot_to_config, Tuned, Config, Report
  <2> QED  BY <2>4, <2>7 DEF Same
<1> QED  BY <1>1, <1>2, <1>3 DEF OnlyWhatWasReviewed

LEMMA ReviewsSafe ==
  HarnessSpec => [](HarnessTypeOK /\ ConfigKnown) /\ [][OnlyWhatWasReviewed]_harnessVars
<1>1. HarnessInv => HarnessTypeOK /\ ConfigKnown
  BY DEF HarnessInv, WatchInv, CacheInv, ConfigKnown
<1> QED  BY <1>1, HarnessInvInit, HarnessStep, ReviewedStep, PTL DEF HarnessSpec

-----------------------------------------------------------------------------
(* The memory of the board.                                               *)

(* What holds of 0, and of a number if it holds of the one before, holds   *)
(* of all.                                                                 *)
LEMMA Counting ==
  ASSUME NEW n \in Nat, NEW P, 0 \in P, \A i \in 1..n : i - 1 \in P => i \in P
  PROVE  \A i \in 0..n : i \in P
<1> SUFFICES ASSUME NEW k \in 0..n, k \notin P PROVE FALSE
  OBVIOUS
<1> DEFINE T == {i \in 1..n : i \notin P}
<1>1. T \subseteq 1..n /\ T # {}
  OBVIOUS
<1>2. PICK m \in T : \A j \in T : m <= j
  BY <1>1, Least
<1>3. m \in 1..n /\ m \notin P /\ m - 1 \notin P
  OBVIOUS
<1>4. m - 1 \in T /\ m - 1 < m
  BY <1>3
<1> QED  BY <1>2, <1>4

(* A function is defined by what it is at 0 and how each of its values     *)
(* follows from the one before.                                            *)
Unrolls(f, n, base, step) ==
  f = [i \in 0..n |-> IF i = 0 THEN base ELSE step[<<i, f[i - 1]>>]]

LEMMA Recursion ==
  ASSUME NEW n \in Nat, NEW X, NEW base \in X, NEW step \in [(1..n) \X X -> X]
  PROVE  \E f : Unrolls(f, n, base, step)
<1> DEFINE Unrolled(k, f) ==
      /\ f \in [0..k -> X]
      /\ f = [i \in 0..k |-> IF i = 0 THEN base ELSE step[<<i, f[i - 1]>>]]
    P == {k \in 0..n : \E f : Unrolled(k, f)}
<1>1. 0 \in P
  <2>1. PICK f : f = [i \in 0..0 |-> base]
    OBVIOUS
  <2>2. Unrolled(0, f)
    BY <2>1
  <2> QED  BY <2>2
<1>2. ASSUME NEW k \in 1..n, k - 1 \in P PROVE k \in P
  <2>1. PICK f : Unrolled(k - 1, f)
    BY <1>2
  <2>2. f[k - 1] \in X /\ <<k, f[k - 1]>> \in (1..n) \X X
    BY <2>1
  <2>3. PICK v \in X : v = step[<<k, f[k - 1]>>]
    BY <2>2
  <2>4. PICK g : g = [i \in 0..k |-> IF i = k THEN v ELSE f[i]]
    OBVIOUS
  <2>5. g \in [0..k -> X]
    BY <2>1, <2>4
  <2>6. ASSUME NEW i \in 0..k
        PROVE  g[i] = IF i = 0 THEN base ELSE step[<<i, g[i - 1]>>]
    <3>1. CASE i = k
      <4>1. g[k] = v /\ g[k - 1] = f[k - 1] /\ k # 0
        BY <2>4
      <4> QED  BY <3>1, <4>1, <2>3
    <3>2. CASE i # k
      <4>1. i \in 0..(k - 1) /\ g[i] = f[i] /\ (i # 0 => g[i - 1] = f[i - 1])
        BY <2>4, <3>2
      <4>2. f[i] = IF i = 0 THEN base ELSE step[<<i, f[i - 1]>>]
        BY <2>1, <4>1
      <4> QED  BY <4>1, <4>2
    <3> QED  BY <3>1, <3>2
  <2>7. Unrolled(k, g)
    BY <2>5, <2>6
  <2> HIDE DEF Unrolled
  <2> QED  BY <2>7
<1>3. n \in P
  <2> HIDE DEF P
  <2> QED  BY <1>1, <1>2, Counting
<1> QED  BY <1>3 DEF Unrolls

-----------------------------------------------------------------------------
LEMMA RangeAppend ==
  ASSUME NEW S, NEW q \in Seq(S), NEW x \in S
  PROVE  Append(q, x) \in Seq(S) /\ Range(Append(q, x)) = Range(q) \cup {x}
<1>1. PICK l \in Nat : l = Len(q) /\ DOMAIN q = 1..l
  OBVIOUS
<1>2. PICK w : w = Append(q, x)
  OBVIOUS
<1>3. /\ w \in Seq(S) /\ DOMAIN w = 1..(l + 1) /\ w[l + 1] = x
      /\ \A i \in 1..l : w[i] = q[i]
  BY <1>1, <1>2
<1>4. 1..(l + 1) = 1..l \cup {l + 1}
  OBVIOUS
<1>5. {w[i] : i \in 1..(l + 1)} = {q[i] : i \in 1..l} \cup {x}
  BY <1>3, <1>4
<1> QED  BY <1>1, <1>2, <1>3, <1>5 DEF Range

LEMMA RangeCat ==
  ASSUME NEW S, NEW q \in Seq(S), NEW w \in Seq(S)
  PROVE  q \o w \in Seq(S) /\ Range(q \o w) = Range(q) \cup Range(w)
<1>1. PICK l \in Nat, m \in Nat : l = Len(q) /\ m = Len(w) /\ DOMAIN q = 1..l /\ DOMAIN w = 1..m
  OBVIOUS
<1>2. PICK a : a = q \o w
  OBVIOUS
<1>3. /\ a \in Seq(S) /\ DOMAIN a = 1..(l + m)
      /\ \A i \in 1..l : a[i] = q[i]
      /\ \A i \in 1..m : a[l + i] = w[i]
  BY <1>1, <1>2
<1>4. ASSUME NEW i \in 1..(l + m) PROVE i \in 1..l \/ (i - l \in 1..m /\ l + (i - l) = i)
  OBVIOUS
<1>5. \A i \in 1..l : i \in 1..(l + m)
  OBVIOUS
<1>6. \A i \in 1..m : l + i \in 1..(l + m)
  OBVIOUS
<1>7. ASSUME NEW i \in 1..(l + m) PROVE a[i] \in Range(q) \cup Range(w)
  <2>1. CASE i \in 1..l
    BY <2>1, <1>1, <1>3 DEF Range
  <2>2. CASE i - l \in 1..m /\ l + (i - l) = i
    <3>1. PICK j \in 1..m : l + j = i
      BY <2>2
    <3> QED  BY <3>1, <1>1, <1>3 DEF Range
  <2> QED  BY <2>1, <2>2, <1>4
<1>8. Range(a) = {a[i] : i \in 1..(l + m)} /\ Range(q) = {q[i] : i \in 1..l}
      /\ Range(w) = {w[i] : i \in 1..m}
  BY <1>1, <1>3 DEF Range
<1>9. (\A i \in 1..l : q[i] \in Range(a)) /\ (\A i \in 1..m : w[i] \in Range(a))
  BY <1>3, <1>5, <1>6, <1>8
<1>10. Range(a) = Range(q) \cup Range(w)
  BY <1>7, <1>8, <1>9
<1> QED  BY <1>2, <1>3, <1>10

(* What is picked of a list is what is at the places, and nothing else. *)
LEMMA PickedOf ==
  ASSUME NEW S, NEW q \in Seq(S), NEW P
  PROVE  /\ Picked(q, P) \in Seq(S)
         /\ Range(Picked(q, P)) = {q[i] : i \in P \cap DOMAIN q}
<1> DEFINE n == Len(q)
    step == [p \in (1..n) \X Seq(S) |-> IF p[1] \in P THEN Append(p[2], q[p[1]]) ELSE p[2]]
    Makes(f) == f = [i \in 0..n |->
                  IF i = 0 THEN <<>>
                  ELSE IF i \in P THEN Append(f[i - 1], q[i]) ELSE f[i - 1]]
    F == CHOOSE f : Makes(f)
<1>1. n \in Nat /\ DOMAIN q = 1..n /\ \A i \in 1..n : q[i] \in S
  OBVIOUS
<1>2. step \in [(1..n) \X Seq(S) -> Seq(S)]
  BY <1>1
<1>3. PICK f : f = [i \in 0..n |-> IF i = 0 THEN <<>> ELSE step[<<i, f[i - 1]>>]]
  <2>1. PICK X : X = Seq(S)
    OBVIOUS
  <2>2. <<>> \in Seq(S)
    OBVIOUS
  <2>3. PICK b : b = <<>>
    OBVIOUS
  <2>4. b \in X
    BY <2>1, <2>2, <2>3
  <2> HIDE DEF step, n
  <2>5. PICK m, st : m = n /\ st = step
    OBVIOUS
  <2>6. m \in Nat /\ st \in [(1..m) \X X -> X]
    BY <2>1, <2>5, <1>1, <1>2
  <2>7. \E f : Unrolls(f, m, b, st)
    BY <2>4, <2>6, Recursion
  <2> QED  BY <2>3, <2>5, <2>7 DEF Unrolls
<1>4. Makes(f)
  <2>1. \A i \in 0..n : f[i] \in Seq(S)
    <3> DEFINE Q == {i \in 0..n : f[i] \in Seq(S)}
    <3>1. 0 \in Q
      BY <1>1, <1>3
    <3>2. ASSUME NEW i \in 1..n, i - 1 \in Q PROVE i \in Q
      <4>1. <<i, f[i - 1]>> \in (1..n) \X Seq(S) /\ i \in 0..n /\ i # 0
        BY <3>2
      <4>2. f[i] = step[<<i, f[i - 1]>>]
        BY <1>3, <4>1
      <4> HIDE DEF step
      <4> QED  BY <4>1, <4>2, <1>2
    <3> HIDE DEF Q
    <3>3. \A i \in 0..n : i \in Q
      BY <1>1, <3>1, <3>2, Counting
    <3> QED  BY <3>3 DEF Q
  <2>2. ASSUME NEW i \in 1..n
        PROVE  step[<<i, f[i - 1]>>] = IF i \in P THEN Append(f[i - 1], q[i]) ELSE f[i - 1]
    <3>1. <<i, f[i - 1]>> \in (1..n) \X Seq(S)
      BY <2>1, <1>1
    <3> QED  BY <3>1
  <2>3. ASSUME NEW i \in 0..n, i # 0 PROVE i \in 1..n
    BY <2>3, <1>1
  <2> HIDE DEF step, n
  <2> QED  BY <1>3, <2>2, <2>3
<1>5. Makes(F) /\ Picked(q, P) = F[n]
  <2>1. Picked(q, P) = F[n]
    BY DEF Picked
  <2> HIDE DEF Makes
  <2> QED  BY <1>4, <2>1
<1> DEFINE Q == {i \in 0..n : F[i] \in Seq(S) /\ Range(F[i]) = {q[j] : j \in P \cap 1..i}}
<1>6. 0 \in Q
  <2> HIDE DEF F, n
  <2>1. F[0] = <<>> /\ 0 \in 0..n
    BY <1>1, <1>5
  <2>2. F[0] \in Seq(S) /\ Range(F[0]) = {}
    BY <2>1 DEF Range
  <2>3. {q[j] : j \in P \cap 1..0} = {}
    OBVIOUS
  <2> QED  BY <2>1, <2>2, <2>3
<1>7. ASSUME NEW i \in 1..n, i - 1 \in Q PROVE i \in Q
  <2>1. PICK p \in Seq(S) : p = F[i - 1] /\ Range(p) = {q[j] : j \in P \cap 1..(i - 1)}
    BY <1>7
  <2> HIDE DEF F, n
  <2>2. F[i] = IF i \in P THEN Append(p, q[i]) ELSE p
    <3>1. i \in 0..n /\ i # 0
      BY <1>1
    <3> QED  BY <3>1, <1>5, <2>1
  <2>3. CASE i \in P
    <3>1. F[i] \in Seq(S) /\ Range(F[i]) = Range(p) \cup {q[i]}
      BY <2>2, <2>3, <1>1, RangeAppend
    <3>2. {q[j] : j \in P \cap 1..i} = {q[j] : j \in P \cap 1..(i - 1)} \cup {q[i]}
      BY <2>3, <1>1
    <3>3. i \in 0..n
      BY <1>1
    <3> QED  BY <3>1, <3>2, <3>3, <2>1
  <2>4. CASE i \notin P
    <3>1. P \cap 1..i = P \cap 1..(i - 1)
      BY <2>4, <1>1
    <3>2. F[i] = p /\ i \in 0..n
      BY <2>2, <2>4, <1>1
    <3> QED  BY <3>1, <3>2, <2>1
  <2> QED  BY <2>3, <2>4
<1>8. n \in Q
  <2> HIDE DEF Q, n
  <2> QED  BY <1>1, <1>6, <1>7, Counting
<1> HIDE DEF F, n
<1> QED  BY <1>1, <1>5, <1>8
-----------------------------------------------------------------------------
(* What a consolidation makes of the rows.                                 *)

Resolved(id) == [id EXCEPT !.section = "Resolved"]

(* An entry is still told by some ids, by its own or by what says the same. *)
Told(id, ids) ==
  \/ id \in ids \/ Resolved(id) \in ids
  \/ \E other \in ids : <<id.text, other.text>> \in Alike

Sorting == [kept : Seq(Row), retired : Seq(Row)]
AllIds(acc) == Ids(acc.kept) \cup Ids(acc.retired)

LEMMA IdsOf == \A q : Ids(q) = {r.id : r \in Range(q)}
BY DEF Ids, Range

LEMMA ResolvedId ==
  ASSUME NEW id \in Id
  PROVE  Resolved(id) \in Id /\ Resolved(id).text = id.text /\ Resolved(Resolved(id)) = Resolved(id)
BY DEF Resolved, Id

(* A row retired tells what it told before. *)
LEMMA StillTold ==
  ASSUME NEW id \in Id, NEW old \in SUBSET Id, NEW new \in SUBSET Id, Told(id, old),
         \A k \in old : k \in new \/ Resolved(k) \in new
  PROVE  Told(id, new)
<1>1. CASE id \in old \/ Resolved(id) \in old
  BY <1>1, ResolvedId DEF Told
<1>2. CASE \E other \in old : <<id.text, other.text>> \in Alike
  <2>1. PICK other \in old : <<id.text, other.text>> \in Alike
    BY <1>2
  <2>2. Resolved(other).text = other.text
    BY ResolvedId
  <2> QED  BY <2>1, <2>2 DEF Told
<1> QED  BY <1>1, <1>2 DEF Told

LEMMA SortedIds == \A acc \in Sorting : AllIds(acc) \subseteq Id
<1>1. ASSUME NEW q \in Seq(Row) PROVE Ids(q) \subseteq Id
  <2>1. \A i \in DOMAIN q : q[i] \in Row
    OBVIOUS
  <2> QED  BY <2>1 DEF Ids, Row
<1> QED  BY <1>1 DEF Sorting, AllIds

LEMMA SortedTells ==
  ASSUME NEW acc \in Sorting, NEW row \in Row, NEW contradicts
  PROVE  LET new == Sorted(acc, row, contradicts)
         IN /\ new \in Sorting /\ Told(row.id, AllIds(new))
            /\ \A k \in AllIds(acc) : k \in AllIds(new) \/ Resolved(k) \in AllIds(new)
<1>1. PICK kept \in Seq(Row), retired \in Seq(Row) : kept = acc.kept /\ retired = acc.retired
  BY DEF Sorting
<1>2. PICK l \in Nat : l = Len(kept) /\ DOMAIN kept = 1..l
  OBVIOUS
<1>3. PICK hits : hits = {i \in 1..l : /\ kept[i].id.section = row.id.section
                                       /\ <<row.id.text, kept[i].id.text>> \in Alike}
  OBVIOUS
<1>4. PICK first : first = CHOOSE i \in hits : \A j \in hits : i <= j
  OBVIOUS
<1>5. PICK new : new = Sorted(acc, row, contradicts)
  OBVIOUS
<1>6. new = IF hits = {} THEN [acc EXCEPT !.kept = Append(@, row)]
            ELSE IF contradicts /\ row.id.section = "live"
              THEN [kept |-> Append(Picked(kept, 1..l \ {first}), row),
                    retired |-> Append(retired, Retired(kept[first]))]
            ELSE acc
  BY <1>1, <1>2, <1>3, <1>4, <1>5 DEF Sorted
<1>7. CASE hits = {}
  <2>1. new = [kept |-> Append(kept, row), retired |-> retired]
    BY <1>1, <1>6, <1>7 DEF Sorting
  <2>2. Append(kept, row) \in Seq(Row) /\ Range(Append(kept, row)) = Range(kept) \cup {row}
    BY RangeAppend
  <2>3. new \in Sorting /\ new.kept = Append(kept, row) /\ new.retired = retired
    BY <2>1, <2>2 DEF Sorting
  <2>4. Ids(new.kept) = Ids(kept) \cup {row.id}
    BY <2>2, <2>3, IdsOf
  <2> QED  BY <1>1, <1>5, <2>3, <2>4 DEF AllIds, Told
<1>8. ASSUME hits # {} PROVE first \in 1..l /\ <<row.id.text, kept[first].id.text>> \in Alike
  <2>1. \E i \in hits : \A j \in hits : i <= j
    BY <1>3, <1>8, Least
  <2> QED  BY <1>3, <1>4, <2>1
<1>9. CASE hits # {} /\ contradicts /\ row.id.section = "live"
  <2>1. PICK rest : rest = Picked(kept, 1..l \ {first})
    OBVIOUS
  <2>2. rest \in Seq(Row) /\ Range(rest) = {kept[i] : i \in 1..l \ {first}}
    BY <1>2, <2>1, PickedOf
  <2>3. PICK out : out = Retired(kept[first])
    OBVIOUS
  <2>4. out \in Row /\ out.id = Resolved(kept[first].id) /\ out.id.text = kept[first].id.text
    <3>1. PICK old \in Row : old = kept[first]
      BY <1>2, <1>8, <1>9
    <3>2. out = [id |-> Resolved(old.id), until |-> old.until]
      BY <2>3, <3>1 DEF Retired, Resolved
    <3>3. old.id \in Id /\ old.until \in 0..Never
      BY DEF Row
    <3> QED  BY <3>1, <3>2, <3>3, ResolvedId DEF Row
  <2>5. /\ new.kept = Append(rest, row) /\ new.retired = Append(retired, out)
        /\ new = [kept |-> Append(rest, row), retired |-> Append(retired, out)]
    BY <1>6, <1>9, <2>1, <2>3
  <2>6. /\ new.kept \in Seq(Row) /\ Range(new.kept) = Range(rest) \cup {row}
        /\ new.retired \in Seq(Row) /\ Range(new.retired) = Range(retired) \cup {out}
    BY <2>2, <2>4, <2>5, RangeAppend
  <2>7. new \in Sorting
    BY <2>5, <2>6 DEF Sorting
  <2>8. row.id \in Ids(new.kept) /\ out.id \in Ids(new.retired)
        /\ Ids(retired) \subseteq Ids(new.retired)
    BY <2>6, IdsOf
  <2>9. ASSUME NEW k \in Ids(kept) PROVE k \in Ids(new.kept) \/ Resolved(k) \in Ids(new.retired)
    <3>1. PICK i \in 1..l : k = kept[i].id
      BY <1>2, <2>9 DEF Ids
    <3>2. CASE i = first
      BY <3>1, <3>2, <2>4, <2>8
    <3>3. CASE i # first
      BY <3>1, <3>3, <2>2, <2>6, IdsOf
    <3> QED  BY <3>2, <3>3
  <2> QED  BY <1>1, <1>5, <2>7, <2>8, <2>9 DEF AllIds, Told
<1>10. CASE hits # {} /\ ~(contradicts /\ row.id.section = "live")
  <2>1. new = acc
    BY <1>6, <1>10
  <2>2. kept[first].id \in Ids(kept)
    BY <1>2, <1>8, <1>10 DEF Ids
  <2>3. Told(row.id, AllIds(acc))
    BY <1>1, <1>8, <1>10, <2>2 DEF Told, AllIds
  <2> QED  BY <1>5, <2>1, <2>3
<1> QED  BY <1>7, <1>9, <1>10

(* A consolidation tells what every row told. *)
LEMMA ConsolidatedTells ==
  ASSUME NEW rows \in Seq(Row), NEW contradicting
  PROVE  /\ Consolidated(rows, contradicting) \in Seq(Row)
         /\ \A id \in Ids(rows) : Told(id, Ids(Consolidated(rows, contradicting)))
<1> DEFINE n == Len(rows)
    step == [p \in (1..n) \X Sorting |-> Sorted(p[2], rows[p[1]], p[1] \in contradicting)]
    Makes(f) == f = [i \in 0..n |->
                  IF i = 0 THEN [kept |-> <<>>, retired |-> <<>>]
                  ELSE Sorted(f[i - 1], rows[i], i \in contradicting)]
    F == CHOOSE f : Makes(f)
<1>1. n \in Nat /\ DOMAIN rows = 1..n /\ \A i \in 1..n : rows[i] \in Row
  OBVIOUS
<1>2. step \in [(1..n) \X Sorting -> Sorting]
  <2> SUFFICES ASSUME NEW p \in (1..n) \X Sorting
               PROVE  Sorted(p[2], rows[p[1]], p[1] \in contradicting) \in Sorting
    OBVIOUS
  <2>1. p[2] \in Sorting /\ rows[p[1]] \in Row
    BY <1>1
  <2> QED  BY <2>1, SortedTells
<1>3. PICK none \in Sorting : none = [kept |-> <<>>, retired |-> <<>>]
  <2>1. <<>> \in Seq(Row)
    OBVIOUS
  <2> QED  BY <2>1 DEF Sorting
<1>4. PICK f : f = [i \in 0..n |-> IF i = 0 THEN none ELSE step[<<i, f[i - 1]>>]]
  <2> HIDE DEF step, n
  <2>1. PICK m, st : m = n /\ st = step
    OBVIOUS
  <2>2. m \in Nat /\ st \in [(1..m) \X Sorting -> Sorting]
    BY <2>1, <1>1, <1>2
  <2>3. \E f : Unrolls(f, m, none, st)
    BY <2>2, Recursion
  <2> QED  BY <2>1, <2>3 DEF Unrolls
<1>5. Makes(f)
  <2>1. \A i \in 0..n : f[i] \in Sorting
    <3> DEFINE Q == {i \in 0..n : f[i] \in Sorting}
    <3>1. 0 \in Q
      BY <1>1, <1>4
    <3>2. ASSUME NEW i \in 1..n, i - 1 \in Q PROVE i \in Q
      <4>1. <<i, f[i - 1]>> \in (1..n) \X Sorting /\ i \in 0..n /\ i # 0
        BY <3>2
      <4> HIDE DEF step
      <4>2. f[i] = step[<<i, f[i - 1]>>]
        BY <1>4, <4>1
      <4> QED  BY <4>1, <4>2, <1>2
    <3> HIDE DEF Q
    <3>3. \A i \in 0..n : i \in Q
      BY <1>1, <3>1, <3>2, Counting
    <3> QED  BY <3>3 DEF Q
  <2>2. ASSUME NEW i \in 1..n
        PROVE  step[<<i, f[i - 1]>>] = Sorted(f[i - 1], rows[i], i \in contradicting)
    <3>1. <<i, f[i - 1]>> \in (1..n) \X Sorting
      BY <2>1, <1>1
    <3> QED  BY <3>1
  <2>3. ASSUME NEW i \in 0..n, i # 0 PROVE i \in 1..n
    BY <2>3, <1>1
  <2> HIDE DEF step, n
  <2> QED  BY <1>3, <1>4, <2>2, <2>3
<1>6. PICK c : c = Consolidated(rows, contradicting)
  OBVIOUS
<1>7. Makes(F) /\ c = Picked(F[n].kept, {i \in DOMAIN F[n].kept : F[n].kept[i].id.section = "live"})
                      \o Picked(F[n].kept, {i \in DOMAIN F[n].kept : F[n].kept[i].id.section = "Resolved"})
                      \o F[n].retired
  <2>1. c = Picked(F[n].kept, {i \in DOMAIN F[n].kept : F[n].kept[i].id.section = "live"})
              \o Picked(F[n].kept, {i \in DOMAIN F[n].kept : F[n].kept[i].id.section = "Resolved"})
              \o F[n].retired
    BY <1>6 DEF Consolidated
  <2> HIDE DEF Makes
  <2> QED  BY <1>5, <2>1
<1> DEFINE Q == {i \in 0..n : /\ F[i] \in Sorting
                              /\ \A j \in 1..i : Told(rows[j].id, AllIds(F[i]))}
<1>8. 0 \in Q
  <2> HIDE DEF F, n
  <2>a. 0 \in 0..n
    BY <1>1
  <2>1. F[0] = [kept |-> <<>>, retired |-> <<>>] /\ 0 \in 0..n
    BY <2>a, <1>7
  <2>2. F[0] \in Sorting
    BY <2>1, <1>3
  <2> QED  BY <2>1, <2>2
<1>9. ASSUME NEW i \in 1..n, i - 1 \in Q PROVE i \in Q
  <2> HIDE DEF F, n
  <2>1. i \in 0..n /\ i # 0 /\ rows[i] \in Row
    BY <1>1
  <2>2. PICK acc \in Sorting : /\ acc = F[i - 1]
                              /\ \A j \in 1..(i - 1) : Told(rows[j].id, AllIds(acc))
    BY <1>9
  <2>3. F[i] = Sorted(acc, rows[i], i \in contradicting)
    BY <1>7, <2>1, <2>2
  <2>4. /\ F[i] \in Sorting /\ Told(rows[i].id, AllIds(F[i]))
        /\ \A k \in AllIds(acc) : k \in AllIds(F[i]) \/ Resolved(k) \in AllIds(F[i])
    BY <2>1, <2>2, <2>3, SortedTells
  <2>5. AllIds(acc) \subseteq Id /\ AllIds(F[i]) \subseteq Id
    BY <2>2, <2>4, SortedIds
  <2>6. ASSUME NEW j \in 1..i, j # i PROVE Told(rows[j].id, AllIds(F[i]))
    <3>1. j \in 1..(i - 1) /\ j \in 1..n
      BY <2>6, <1>1
    <3>2. rows[j].id \in Id /\ Told(rows[j].id, AllIds(acc))
      BY <3>1, <2>2, <1>1 DEF Row
    <3> QED  BY <3>2, <2>4, <2>5, StillTold
  <2> QED  BY <2>1, <2>4, <2>6
<1>10. n \in Q
  <2> HIDE DEF Q, n
  <2> QED  BY <1>1, <1>8, <1>9, Counting
<1>11. PICK all \in Sorting : /\ all = F[n]
                             /\ \A j \in 1..n : Told(rows[j].id, AllIds(all))
  <2> HIDE DEF F, n
  <2> QED  BY <1>10
<1> HIDE DEF F, n, Q
<1>12. all.kept \in Seq(Row) /\ all.retired \in Seq(Row)
  BY DEF Sorting
<1> DEFINE In(section) == {i \in DOMAIN all.kept : all.kept[i].id.section = section}
<1>13. /\ Picked(all.kept, In("live")) \in Seq(Row) /\ Picked(all.kept, In("Resolved")) \in Seq(Row)
       /\ Range(Picked(all.kept, In("live"))) = {all.kept[i] : i \in In("live")}
       /\ Range(Picked(all.kept, In("Resolved"))) = {all.kept[i] : i \in In("Resolved")}
  <2> HIDE DEF In
  <2>1. \A s : In(s) \cap DOMAIN all.kept = In(s)
    BY DEF In
  <2> QED  BY <2>1, <1>12, PickedOf
<1>14. PICK x \in Seq(Row), y \in Seq(Row) :
         x = Picked(all.kept, In("live")) /\ y = Picked(all.kept, In("Resolved"))
  BY <1>13
<1>15. c = x \o y \o all.retired
  BY <1>7, <1>11, <1>14
<1>16. c \in Seq(Row) /\ Range(c) = Range(x) \cup Range(y) \cup Range(all.retired)
  <2>1. x \o y \in Seq(Row) /\ Range(x \o y) = Range(x) \cup Range(y)
    BY RangeCat
  <2>2. PICK xy \in Seq(Row) : xy = x \o y /\ Range(xy) = Range(x) \cup Range(y)
    BY <2>1
  <2>3. xy \o all.retired \in Seq(Row)
        /\ Range(xy \o all.retired) = Range(xy) \cup Range(all.retired)
    BY <1>12, RangeCat
  <2> QED  BY <2>2, <2>3, <1>15
<1>17. Range(all.kept) \subseteq Range(x) \cup Range(y)
  <2> SUFFICES ASSUME NEW i \in DOMAIN all.kept PROVE i \in In("live") \cup In("Resolved")
    <3>1. Range(x) \cup Range(y) = {all.kept[i] : i \in In("live") \cup In("Resolved")}
      BY <1>13, <1>14
    <3> HIDE DEF In
    <3> QED  BY <3>1 DEF Range
  <2>1. all.kept[i].id \in Id
    <3>1. all.kept[i] \in Row
      BY <1>12
    <3> QED  BY <3>1 DEF Row
  <2> QED  BY <2>1 DEF Id
<1>18. AllIds(all) \subseteq Ids(c)
  BY <1>16, <1>17, IdsOf DEF AllIds
<1>19. ASSUME NEW id \in Ids(rows) PROVE Told(id, Ids(c))
  <2>1. PICK j \in 1..n : id = rows[j].id
    BY <1>1, <1>19 DEF Ids
  <2> QED  BY <2>1, <1>11, <1>18 DEF Told
<1> QED  BY <1>6, <1>16, <1>19
-----------------------------------------------------------------------------
(* The memory.                                                             *)

(* A row is current until a day that is a number. *)
LEMMA Untils ==
  ASSUME MemoryTypeOK
  PROVE  /\ clock \in 0..Never /\ clock + Life \in 0..Never /\ Never \in 0..Never
         /\ \A id \in Id, until \in 0..Never : [id |-> id, until |-> until] \in Row
<1>1. MaxClock \in Nat /\ Life \in Nat
  BY MemoryAssumption
<1>2. clock \in 0..MaxClock
  BY DEF MemoryTypeOK
<1>3. \A id \in Id, until \in 0..Never : [id |-> id, until |-> until] \in Row
  BY DEF Row
<1>4. /\ clock \in 0..Never /\ clock + Life \in 0..Never /\ Never \in 0..Never
  BY <1>1, <1>2 DEF Never
<1> QED  BY <1>3, <1>4

LEMMA DefaultRows ==
  ASSUME MemoryTypeOK, NEW q \in Seq(Id)
  PROVE  /\ [i \in DOMAIN q |-> DefaultRow(q[i])] \in Seq(Row)
         /\ Ids([i \in DOMAIN q |-> DefaultRow(q[i])]) = Range(q)
<1>1. PICK l \in Nat : l = Len(q) /\ DOMAIN q = 1..l /\ \A i \in 1..l : q[i] \in Id
  OBVIOUS
<1>2. PICK w : w = [i \in 1..l |-> DefaultRow(q[i])]
  OBVIOUS
<1>3. \A id \in Id : DefaultRow(id) \in Row /\ DefaultRow(id).id = id
  BY Untils DEF DefaultRow
<1>4. DOMAIN w = 1..l /\ \A i \in 1..l : w[i] \in Row /\ w[i].id = q[i]
  BY <1>1, <1>2, <1>3
<1>5. w \in Seq(Row)
  BY <1>2, <1>4
<1>6. Ids(w) = Range(q)
  BY <1>1, <1>4 DEF Ids, Range
<1> QED  BY <1>1, <1>2, <1>5, <1>6

LEMMA ParsedRows ==
  ASSUME MemoryTypeOK, NEW q \in Seq(Id), NEW explicit \in BOOLEAN
  PROVE  /\ [i \in DOMAIN q |-> ParsedRow(q[i], explicit)] \in Seq(Row)
         /\ Ids([i \in DOMAIN q |-> ParsedRow(q[i], explicit)]) = Range(q)
<1>1. PICK l \in Nat : l = Len(q) /\ DOMAIN q = 1..l /\ \A i \in 1..l : q[i] \in Id
  OBVIOUS
<1>2. PICK w : w = [i \in 1..l |-> ParsedRow(q[i], explicit)]
  OBVIOUS
<1>3. \A id \in Id : ParsedRow(id, explicit) \in Row /\ ParsedRow(id, explicit).id = id
  BY Untils DEF ParsedRow, DefaultRow
<1>4. DOMAIN w = 1..l /\ \A i \in 1..l : w[i] \in Row /\ w[i].id = q[i]
  BY <1>1, <1>2, <1>3
<1>5. w \in Seq(Row)
  BY <1>2, <1>4
<1>6. Ids(w) = Range(q)
  BY <1>1, <1>4 DEF Ids, Range
<1> QED  BY <1>1, <1>2, <1>5, <1>6

LEMMA Bullets ==
  ASSUME NEW rows \in Seq(Row)
  PROVE  /\ [i \in DOMAIN rows |-> rows[i].id] \in Seq(Id)
         /\ Range([i \in DOMAIN rows |-> rows[i].id]) = Ids(rows)
<1>1. PICK l \in Nat : l = Len(rows) /\ DOMAIN rows = 1..l /\ \A i \in 1..l : rows[i] \in Row
  OBVIOUS
<1>2. PICK w : w = [i \in 1..l |-> rows[i].id]
  OBVIOUS
<1>3. DOMAIN w = 1..l /\ \A i \in 1..l : w[i] \in Id /\ w[i] = rows[i].id
  BY <1>1, <1>2 DEF Row
<1>4. w \in Seq(Id)
  BY <1>2, <1>3
<1>5. Range(w) = Ids(rows)
  BY <1>1, <1>3 DEF Ids, Range
<1> QED  BY <1>1, <1>2, <1>4, <1>5

LEMMA IdsCat ==
  ASSUME NEW q \in Seq(Row), NEW w \in Seq(Row)
  PROVE  q \o w \in Seq(Row) /\ Ids(q \o w) = Ids(q) \cup Ids(w)
<1>1. q \o w \in Seq(Row) /\ Range(q \o w) = Range(q) \cup Range(w)
  BY RangeCat
<1> QED  BY <1>1, IdsOf

(* Every bullet has a row once the index has been read. *)
LEMMA ReadCovers ==
  ASSUME MemoryTypeOK
  PROVE  read_sotb_index \in Seq(Row) /\ Range(md) \subseteq Ids(read_sotb_index)
<1>1. md \in Seq(Id) /\ DOMAIN md = 1..Len(md) /\ Len(md) \in Nat
  BY DEF MemoryTypeOK
<1>2. CASE index = {}
  <2>1. read_sotb_index = [i \in DOMAIN md |-> DefaultRow(md[i])]
    BY <1>2 DEF read_sotb_index, Bootstrapped
  <2> QED  BY <2>1, <1>1, DefaultRows
<1>3. CASE index # {}
  <2>1. Rows \in Seq(Row)
    BY <1>3 DEF MemoryTypeOK
  <2>2. PICK left \in Seq(Row) : left = Survivors
    BY <2>1, PickedOf DEF Survivors
  <2>3. PICK new : new = {i \in DOMAIN md : /\ md[i] \notin Ids(left)
                                           /\ \A j \in 1..(i - 1) : md[j] # md[i]}
    OBVIOUS
  <2>4. Additions = Picked(md, new)
    BY <2>2, <2>3 DEF Additions
  <2>5. PICK add \in Seq(Id) : add = Additions /\ Range(add) = {md[i] : i \in new}
    <3>1. new \cap DOMAIN md = new
      BY <2>3
    <3>2. Picked(md, new) \in Seq(Id) /\ Range(Picked(md, new)) = {md[i] : i \in new}
      BY <3>1, <1>1, PickedOf
    <3> QED  BY <3>2, <2>4
  <2>6. PICK rows \in Seq(Row) : rows = [i \in DOMAIN add |-> DefaultRow(add[i])]
                                /\ Ids(rows) = Range(add)
    BY DefaultRows
  <2>7. read_sotb_index = left \o rows
    BY <1>3, <2>2, <2>5, <2>6 DEF read_sotb_index
  <2>8. read_sotb_index \in Seq(Row) /\ Ids(read_sotb_index) = Ids(left) \cup Range(add)
    BY <2>6, <2>7, IdsCat
  <2>9. ASSUME NEW id \in Range(md), id \notin Ids(left) PROVE id \in Range(add)
    <3> DEFINE T == {i \in 1..Len(md) : md[i] = id}
    <3>1. T \subseteq 1..Len(md) /\ T # {}
      BY <1>1, <2>9 DEF Range
    <3>2. PICK m \in T : \A j \in T : m <= j
      BY <1>1, <3>1, Least
    <3>3. \A j \in 1..(m - 1) : j \in 1..Len(md) /\ ~(m <= j)
      BY <1>1
    <3>4. m \in new
      BY <1>1, <2>3, <2>9, <3>2, <3>3
    <3> QED  BY <2>5, <3>4
  <2> QED  BY <2>8, <2>9
<1> QED  BY <1>2, <1>3

(* Whoever has the event loop keeps it to its last write. *)
LoopKept ==
  /\ upd.pc \in {"md", "index"} => rol.pc = "idle"
  /\ upd.pc \in {"md", "index"} \/ rol.pc = "index" => con.cli \/ con.pc \in {"idle", "judging"}

(* What an update that nobody overtook or interrupted knows of the files. *)
UpdateInv ==
  /\ upd.pc = "judging" =>
       /\ Range(upd.md) \subseteq Ids(upd.rows)
       /\ "update" \notin late => Range(md) \subseteq Ids(upd.rows)
  /\ upd.pc = "md" =>
       /\ "update" \notin torn => Range(md) \subseteq Range(upd.md)
       /\ "update" \notin late => Range(upd.md) \subseteq Ids(upd.rows)
  /\ upd.pc = "index" /\ "update" \notin late \cup torn => Range(md) \subseteq Ids(upd.rows)

(* What a consolidation knows: the bullets it read have a row or are swept *)
(* away, and are those of its snapshot; the markdown it wrote has its rows. *)
ConsolidateInv ==
  /\ con.pc = "reading" /\ con.snap # 0 /\ "consolidate" \notin torn => md = snaps[con.snap].md
  /\ con.pc = "judging" =>
       /\ con.seen \subseteq con.gone \cup Ids(con.rows)
       /\ con.snap # 0 /\ "consolidate" \notin torn => con.seen \subseteq Range(snaps[con.snap].md)
  /\ con.pc = "index" /\ "consolidate" \notin torn => Range(md) = Ids(con.rows)

RollbackInv == rol.pc = "index" /\ "rollback" \notin torn => md = snaps[rol.snap].md

MemoryInv == MemoryTypeOK /\ LoopKept /\ UpdateInv /\ ConsolidateInv /\ RollbackInv

LEMMA MemoryInvInit == MemoryInit => MemoryInv
<1> SUFFICES ASSUME MemoryInit PROVE MemoryInv
  OBVIOUS
<1>1. md \in Seq(Id) /\ 0 \in 0..MaxClock /\ <<>> \in Seq(Row) /\ <<>> \in Seq(Id)
      /\ snaps \in Seq(SnapshotRow) /\ 0 \in 0..Len(snaps)
  BY MemoryAssumption DEF MemoryInit
<1>2. MemoryTypeOK
  BY <1>1 DEF MemoryInit, MemoryTypeOK, NoUpdate, NoConsolidation, NoRollback
<1>3. LoopKept /\ UpdateInv /\ ConsolidateInv /\ RollbackInv
  BY DEF MemoryInit, NoUpdate, NoConsolidation, NoRollback, LoopKept, UpdateInv, ConsolidateInv,
         RollbackInv
<1> QED  BY <1>2, <1>3 DEF MemoryInv

(* The only index there is. *)
LEMMA IndexIs ==
  ASSUME NEW q, index' = {q}
  PROVE  Rows' = q
BY DEF Rows

LEMMA MemoryParts ==
  ASSUME MemoryInv
  PROVE  /\ md \in Seq(Id) /\ clock \in 0..MaxClock /\ MaxClock \in Nat
         /\ snaps \in Seq(SnapshotRow) /\ Len(snaps) \in Nat
         /\ upd \in [pc : {"idle", "judging", "md", "index"}, rows : Seq(Row), md : Seq(Id)]
         /\ con \in [pc : {"idle", "reading", "judging", "index"}, cli : BOOLEAN, rows : Seq(Row),
                     gone : SUBSET Id, seen : SUBSET Id, snap : 0..Len(snaps)]
         /\ rol \in [pc : {"idle", "index"}, snap : 0..Len(snaps)]
         /\ (rol.pc = "idle" <=> rol.snap = 0)
         /\ \A n \in 1..Len(snaps) : snaps[n].md \in Seq(Id) /\ snaps[n].index \in Seq(Row)
<1>1. PICK q \in Seq(SnapshotRow) : q = snaps
  BY DEF MemoryInv, MemoryTypeOK
<1>2. Len(q) \in Nat /\ \A n \in 1..Len(q) : q[n] \in SnapshotRow
  OBVIOUS
<1>3. \A n \in 1..Len(q) : q[n].md \in Seq(Id) /\ q[n].index \in Seq(Row)
  BY <1>2 DEF SnapshotRow
<1>4. MaxClock \in Nat
  BY MemoryAssumption
<1> QED  BY <1>1, <1>2, <1>3, <1>4 DEF MemoryInv, MemoryTypeOK

(* A snapshot is added, and the others stay. *)
LEMMA SnapshotAdded ==
  ASSUME MemoryInv, NEW snap, capture_snapshot(snap)
  PROVE  /\ snaps' \in Seq(SnapshotRow)
         /\ Len(snaps') \in Nat /\ Len(snaps) <= Len(snaps') /\ snap \in 0..Len(snaps')
         /\ \A n \in 1..Len(snaps) : snaps'[n] = snaps[n]
         /\ snap # 0 => snaps'[snap].md = md
<1>1. PICK l \in Nat, q \in Seq(SnapshotRow) : q = snaps /\ l = Len(q)
  BY MemoryParts
<1>2. CASE snap = l + 1
  <2>1. PICK x : x = [md |-> md, index |-> IF index = {} THEN <<>> ELSE Rows]
    OBVIOUS
  <2>2. <<>> \in Seq(Row) /\ (index # {} => Rows \in Seq(Row))
    BY DEF MemoryInv, MemoryTypeOK
  <2>3. x \in SnapshotRow /\ x.md = md
    BY <2>1, <2>2, MemoryParts DEF SnapshotRow
  <2>4. snaps' = Append(q, x)
    BY <1>1, <1>2, <2>1 DEF capture_snapshot
  <2>5. PICK w : w = Append(q, x)
    OBVIOUS
  <2>6. w \in Seq(SnapshotRow) /\ Len(w) = l + 1 /\ w[l + 1] = x
        /\ \A n \in 1..l : w[n] = q[n]
    BY <1>1, <2>3, <2>5
  <2>7. l + 1 \in 0..(l + 1) /\ l <= l + 1
    OBVIOUS
  <2> QED  BY <1>1, <1>2, <2>3, <2>4, <2>5, <2>6, <2>7
<1>3. CASE snap = 0 /\ snaps' = snaps
  BY <1>1, <1>3
<1> QED  BY <1>1, <1>2, <1>3 DEF capture_snapshot

LEMMA EditStep ==
  ASSUME MemoryInv, update_sotb
  PROVE  MemoryInv'
<1>1. /\ md' \in Seq(Id) /\ UNCHANGED <<index, snaps, clock, upd, con, rol>> /\ LoopFree
      /\ late' = late \cup {"update"} /\ torn' = torn \cup Interrupted(FALSE)
  BY MemoryAssumption DEF update_sotb, Continues
<1>2. Interrupted(FALSE) = IF con.cli THEN {"consolidate"} ELSE {}
  BY DEF Interrupted
<1>3. MemoryTypeOK'
  BY <1>1, <1>2 DEF MemoryInv, MemoryTypeOK, Rows
<1>4. LoopKept' /\ RollbackInv'
  BY <1>1 DEF MemoryInv, LoopKept, RollbackInv, LoopFree
<1>5. UpdateInv'
  BY <1>1 DEF MemoryInv, UpdateInv, LoopFree
<1>6. ConsolidateInv'
  BY <1>1, <1>2 DEF MemoryInv, ConsolidateInv, LoopFree
<1> QED  BY <1>3, <1>4, <1>5, <1>6 DEF MemoryInv

LEMMA ReadStep ==
  ASSUME MemoryInv, read_sotb_governed
  PROVE  MemoryInv'
<1>1. /\ index' = {read_sotb_index} /\ read_sotb_index \in Seq(Row)
      /\ UNCHANGED <<md, snaps, clock, upd, con, rol, late, torn, ops>>
  BY ReadCovers DEF read_sotb_governed, MemoryInv
<1>2. Rows' = read_sotb_index
  BY <1>1, IndexIs
<1>3. MemoryTypeOK'
  BY <1>1, <1>2 DEF MemoryInv, MemoryTypeOK
<1> QED  BY <1>1, <1>3 DEF MemoryInv, LoopKept, UpdateInv, ConsolidateInv, RollbackInv

LEMMA UpdateReadsStep ==
  ASSUME MemoryInv, UpdateReads
  PROVE  MemoryInv'
<1>1. PICK new \in Update, explicit \in BOOLEAN :
        upd' = [pc |-> "judging", md |-> new,
                rows |-> read_sotb_index \o [i \in DOMAIN new |-> ParsedRow(new[i], explicit)]]
  BY DEF UpdateReads
<1>2. /\ index' = {read_sotb_index} /\ LoopFree /\ late' = late \ {"update"}
      /\ UNCHANGED <<md, snaps, clock, con, rol, torn>>
  BY DEF UpdateReads
<1>3. read_sotb_index \in Seq(Row) /\ Range(md) \subseteq Ids(read_sotb_index)
  BY ReadCovers DEF MemoryInv
<1>4. new \in Seq(Id)
  BY MemoryAssumption
<1>5. PICK add \in Seq(Row) : /\ add = [i \in DOMAIN new |-> ParsedRow(new[i], explicit)]
                             /\ Ids(add) = Range(new)
  BY <1>4, ParsedRows DEF MemoryInv
<1>6. PICK rows \in Seq(Row) : rows = read_sotb_index \o add
                              /\ Ids(rows) = Ids(read_sotb_index) \cup Range(new)
  <2>1. PICK read \in Seq(Row) : read = read_sotb_index
    BY <1>3
  <2>2. read \o add \in Seq(Row) /\ Ids(read \o add) = Ids(read) \cup Ids(add)
    BY IdsCat
  <2> QED  BY <2>1, <2>2, <1>5
<1>7. upd' = [pc |-> "judging", md |-> new, rows |-> rows]
  BY <1>1, <1>5, <1>6
<1>8. Rows' = read_sotb_index
  BY <1>2, IndexIs
<1>9. MemoryTypeOK'
  BY <1>2, <1>3, <1>4, <1>7, <1>8 DEF MemoryInv, MemoryTypeOK
<1>10. LoopKept'
  BY <1>2, <1>7 DEF MemoryInv, LoopKept
<1>11. UpdateInv'
  BY <1>2, <1>3, <1>6, <1>7 DEF UpdateInv
<1>12. ConsolidateInv' /\ RollbackInv'
  BY <1>2 DEF MemoryInv, ConsolidateInv, RollbackInv
<1> QED  BY <1>9, <1>10, <1>11, <1>12 DEF MemoryInv

LEMMA UpdateStartsStep ==
  ASSUME MemoryInv, UpdateStarts
  PROVE  MemoryInv'
<1>1. PICK snap : capture_snapshot(snap)
  BY DEF UpdateStarts
<1>2. /\ upd' = [upd EXCEPT !.pc = "md", !.md = _append_entries_to_md(md, upd.md)]
      /\ upd.pc = "judging" /\ LoopFree /\ torn' = torn \ {"update"}
      /\ UNCHANGED <<md, index, clock, con, rol, late>>
  BY DEF UpdateStarts
<1>3. PICK text \in Seq(Id) : /\ text = _append_entries_to_md(md, upd.md)
                             /\ Range(md) \subseteq Range(text)
                             /\ Range(text) \subseteq Range(md) \cup Range(upd.md)
  <2>1. PICK new \in Seq(Id) : new = upd.md
    BY MemoryParts
  <2>2. PICK add \in Seq(Id) : /\ add = Picked(new, {i \in DOMAIN new : new[i] \notin Range(md)})
                              /\ Range(add) \subseteq Range(new)
    <3>1. PICK places : places = {i \in DOMAIN new : new[i] \notin Range(md)}
      OBVIOUS
    <3>2. /\ Picked(new, places) \in Seq(Id)
          /\ Range(Picked(new, places)) = {new[i] : i \in places \cap DOMAIN new}
      BY PickedOf
    <3>3. \A i \in DOMAIN new : new[i] \in Range(new)
      BY DEF Range
    <3> QED  BY <3>1, <3>2, <3>3
  <2>3. _append_entries_to_md(md, upd.md) = md \o add
    BY <2>1, <2>2 DEF _append_entries_to_md
  <2>4. md \o add \in Seq(Id) /\ Range(md \o add) = Range(md) \cup Range(add)
    BY MemoryParts, RangeCat
  <2> QED  BY <2>1, <2>2, <2>3, <2>4
<1>4. upd' = [pc |-> "md", rows |-> upd.rows, md |-> text]
  BY <1>2, <1>3, MemoryParts
<1>5. /\ snaps' \in Seq(SnapshotRow)
      /\ Len(snaps') \in Nat /\ Len(snaps) <= Len(snaps')
      /\ \A n \in 1..Len(snaps) : snaps'[n] = snaps[n]
  BY <1>1, SnapshotAdded
<1>6. \A n \in 0..Len(snaps) : n \in 0..Len(snaps') /\ (n # 0 => snaps'[n] = snaps[n])
  BY <1>5, MemoryParts
<1>7. MemoryTypeOK'
  BY <1>2, <1>4, <1>5, <1>6, MemoryParts DEF MemoryInv, MemoryTypeOK, Rows
<1>8. LoopKept'
  BY <1>2, <1>4 DEF MemoryInv, LoopKept, LoopFree
<1>9. UpdateInv'
  BY <1>2, <1>3, <1>4, MemoryParts DEF MemoryInv, UpdateInv
<1>10. ConsolidateInv' /\ RollbackInv'
  BY <1>2, <1>6, MemoryParts DEF MemoryInv, ConsolidateInv, RollbackInv
<1> QED  BY <1>7, <1>8, <1>9, <1>10 DEF MemoryInv

LEMMA UpdateMarkdownStep ==
  ASSUME MemoryInv, UpdateWritesMarkdown
  PROVE  MemoryInv'
<1>1. /\ md' = upd.md /\ upd.pc = "md" /\ late' = late /\ torn' = torn \cup Interrupted(FALSE)
      /\ UNCHANGED <<index, snaps, clock, con, rol>>
  BY DEF UpdateWritesMarkdown, Continues
<1>2. /\ Interrupted(FALSE) \subseteq {"consolidate"}
      /\ Interrupted(FALSE) = IF con.cli THEN {"consolidate"} ELSE {}
  BY DEF Interrupted
<1>3. upd' = [pc |-> "index", rows |-> upd.rows, md |-> upd.md]
  BY MemoryParts DEF UpdateWritesMarkdown
<1>4. MemoryTypeOK'
  BY <1>1, <1>2, <1>3, MemoryParts DEF MemoryInv, MemoryTypeOK, Rows
<1>5. LoopKept' /\ rol.pc = "idle" /\ (con.cli \/ con.pc \in {"idle", "judging"})
  BY <1>1, <1>3 DEF MemoryInv, LoopKept
<1>6. UpdateInv'
  BY <1>1, <1>2, <1>3 DEF MemoryInv, UpdateInv
<1>7. ConsolidateInv' /\ RollbackInv'
  BY <1>1, <1>2, <1>5 DEF MemoryInv, ConsolidateInv, RollbackInv
<1> QED  BY <1>4, <1>5, <1>6, <1>7 DEF MemoryInv

LEMMA UpdateIndexStep ==
  ASSUME MemoryInv, UpdateWritesIndex
  PROVE  MemoryInv'
<1>1. /\ index' = {upd.rows} /\ upd' = NoUpdate /\ upd.pc = "index"
      /\ late' = late /\ torn' = torn \cup Interrupted(FALSE)
      /\ UNCHANGED <<md, snaps, clock, con, rol>>
  BY DEF UpdateWritesIndex, Continues
<1>2. Interrupted(FALSE) \subseteq {"consolidate"}
  BY DEF Interrupted
<1>3. Rows' = upd.rows /\ upd.rows \in Seq(Row) /\ <<>> \in Seq(Row) /\ <<>> \in Seq(Id)
  <2>1. Rows' = upd.rows
    BY <1>1, IndexIs
  <2>2. upd.rows \in Seq(Row)
    BY MemoryParts
  <2> QED  BY <2>1, <2>2
<1>4. MemoryTypeOK'
  BY <1>1, <1>2, <1>3 DEF MemoryInv, MemoryTypeOK, NoUpdate
<1>5. LoopKept' /\ rol.pc = "idle"
  BY <1>1 DEF MemoryInv, LoopKept, NoUpdate
<1>6. UpdateInv'
  BY <1>1 DEF UpdateInv, NoUpdate
<1>7. ConsolidateInv' /\ RollbackInv'
  BY <1>1, <1>2, <1>5 DEF MemoryInv, ConsolidateInv, RollbackInv
<1> QED  BY <1>4, <1>5, <1>6, <1>7 DEF MemoryInv

LEMMA ConsolidateStartsStep ==
  ASSUME MemoryInv, NEW cli \in BOOLEAN, ConsolidateStarts(cli)
  PROVE  MemoryInv'
<1>1. PICK snap : /\ capture_snapshot(snap)
                  /\ con' = [NoConsolidation EXCEPT !.pc = "reading", !.cli = cli, !.snap = snap]
  BY DEF ConsolidateStarts
<1>2. /\ (cli \/ LoopFree) /\ torn' = torn \ {"consolidate"}
      /\ UNCHANGED <<md, index, clock, upd, rol, late>>
  BY DEF ConsolidateStarts
<1>3. /\ snaps' \in Seq(SnapshotRow) /\ snap \in 0..Len(snaps') /\ (snap # 0 => snaps'[snap].md = md)
      /\ \A n \in 0..Len(snaps) : n \in 0..Len(snaps') /\ (n # 0 => snaps'[n] = snaps[n])
  BY <1>1, SnapshotAdded, MemoryParts
<1>4. con' = [pc |-> "reading", cli |-> cli, rows |-> <<>>, gone |-> {}, seen |-> {}, snap |-> snap]
  BY <1>1 DEF NoConsolidation
<1>5. MemoryTypeOK'
  <2>1. <<>> \in Seq(Row)
    OBVIOUS
  <2> QED  BY <1>2, <1>3, <1>4, <2>1, MemoryParts DEF MemoryInv, MemoryTypeOK, Rows
<1>6. LoopKept'
  BY <1>2, <1>4 DEF MemoryInv, LoopKept, LoopFree
<1>7. UpdateInv' /\ RollbackInv'
  BY <1>2, <1>3, MemoryParts DEF MemoryInv, UpdateInv, RollbackInv
<1>8. ConsolidateInv'
  BY <1>2, <1>3, <1>4 DEF ConsolidateInv
<1> QED  BY <1>5, <1>6, <1>7, <1>8 DEF MemoryInv

LEMMA ConsolidateReadsStep ==
  ASSUME MemoryInv, ConsolidateReads
  PROVE  MemoryInv'
<1>1. PICK read \in Seq(Row) : read = read_sotb_index /\ Range(md) \subseteq Ids(read)
  BY ReadCovers DEF MemoryInv
<1>2. PICK expired : expired = {r.id : r \in {x \in Range(read) : Expired(x)}}
  OBVIOUS
<1>3. PICK rows : rows = Picked(read, {i \in DOMAIN read : read[i].id \notin expired})
  OBVIOUS
<1>4. /\ con.pc = "reading" /\ index' = {read} /\ Rows' = read
      /\ UNCHANGED <<md, snaps, clock, upd, rol, late, torn, ops>>
  BY <1>1, IndexIs DEF ConsolidateReads
<1>5. con' = [con EXCEPT !.pc = "judging", !.gone = expired, !.seen = Range(md), !.rows = rows]
  BY <1>1, <1>2, <1>3 DEF ConsolidateReads
<1>6. con' = [pc |-> "judging", cli |-> con.cli, rows |-> rows, gone |-> expired,
              seen |-> Range(md), snap |-> con.snap]
  BY <1>5, MemoryParts
<1>7. rows \in Seq(Row) /\ Range(rows) = {read[i] : i \in {j \in DOMAIN read : read[j].id \notin expired}}
  <2>1. PICK places : places = {i \in DOMAIN read : read[i].id \notin expired}
    OBVIOUS
  <2>2. places \cap DOMAIN read = places
    BY <2>1
  <2>3. Picked(read, places) \in Seq(Row) /\ Range(Picked(read, places)) = {read[i] : i \in places}
    BY <2>2, PickedOf
  <2> QED  BY <2>1, <2>3, <1>3
<1>8. expired \subseteq Id /\ Range(md) \subseteq Id
  <2>1. (\A i \in DOMAIN read : read[i] \in Row) /\ (\A i \in DOMAIN md : md[i] \in Id)
    BY MemoryParts
  <2> QED  BY <2>1, <1>2 DEF Range, Row
<1>9. Range(md) \subseteq expired \cup Ids(rows)
  <2> SUFFICES ASSUME NEW id \in Range(md), id \notin expired PROVE id \in Ids(rows)
    OBVIOUS
  <2>1. PICK i \in DOMAIN read : read[i].id = id
    BY <1>1 DEF Ids
  <2> QED  BY <2>1, <1>7, IdsOf
<1>10. MemoryTypeOK'
  BY <1>4, <1>6, <1>7, <1>8, MemoryParts DEF MemoryInv, MemoryTypeOK
<1>11. LoopKept'
  BY <1>4, <1>6 DEF MemoryInv, LoopKept
<1>12. UpdateInv' /\ RollbackInv'
  BY <1>4 DEF MemoryInv, UpdateInv, RollbackInv
<1>13. ConsolidateInv'
  BY <1>4, <1>6, <1>9 DEF MemoryInv, ConsolidateInv
<1> QED  BY <1>10, <1>11, <1>12, <1>13 DEF MemoryInv

LEMMA ConsolidateMarkdownStep ==
  ASSUME MemoryInv, ConsolidateWritesMarkdown
  PROVE  MemoryInv'
<1>1. PICK contradicting : con' = [con EXCEPT !.pc = "index",
                                              !.rows = Consolidated(con.rows, contradicting)]
        /\ md' = [i \in DOMAIN Consolidated(con.rows, contradicting) |->
                    Consolidated(con.rows, contradicting)[i].id]
  BY DEF ConsolidateWritesMarkdown
<1>2. PICK final \in Seq(Row) : final = Consolidated(con.rows, contradicting)
  <2>1. con.rows \in Seq(Row)
    BY MemoryParts
  <2> QED  BY <2>1, ConsolidatedTells
<1>3. md' \in Seq(Id) /\ Range(md') = Ids(final)
  BY <1>1, <1>2, Bullets
<1>4. con' = [pc |-> "index", cli |-> con.cli, rows |-> final, gone |-> con.gone,
              seen |-> con.seen, snap |-> con.snap]
  BY <1>1, <1>2, MemoryParts
<1>5. con.pc = "judging" /\ (con.cli \/ LoopFree) /\ UNCHANGED <<index, snaps, clock, upd, rol, ops>>
  BY DEF ConsolidateWritesMarkdown
<1>6. /\ late' = late \cup {"update"}
      /\ con.cli => torn' = torn \cup Interrupted(TRUE)
      /\ ~con.cli => torn' = torn \ {"consolidate"}
  BY MemoryParts DEF ConsolidateWritesMarkdown, Continues, Writes, Interrupted
<1>7. /\ upd.pc \in {"md", "index"} => "update" \in Interrupted(TRUE)
      /\ rol.pc = "index" => "rollback" \in Interrupted(TRUE)
      /\ Interrupted(TRUE) \subseteq {"update", "rollback"}
  BY DEF Interrupted
<1>8. MemoryTypeOK'
  BY <1>2, <1>3, <1>4, <1>5, <1>6, <1>7, MemoryParts DEF MemoryInv, MemoryTypeOK, Rows
<1>9. LoopKept'
  BY <1>4, <1>5 DEF MemoryInv, LoopKept, LoopFree
<1>10. UpdateInv'
  BY <1>5, <1>6, <1>7, MemoryParts DEF MemoryInv, UpdateInv, LoopFree
<1>11. RollbackInv'
  BY <1>5, <1>6, <1>7, MemoryParts DEF MemoryInv, RollbackInv, LoopFree
<1>12. ConsolidateInv'
  BY <1>3, <1>4 DEF ConsolidateInv
<1> QED  BY <1>8, <1>9, <1>10, <1>11, <1>12 DEF MemoryInv

LEMMA ConsolidateIndexStep ==
  ASSUME MemoryInv, ConsolidateWritesIndex
  PROVE  MemoryInv'
<1>1. /\ index' = {con.rows} /\ con' = NoConsolidation /\ con.pc = "index"
      /\ UNCHANGED <<md, snaps, clock, upd, rol>>
      /\ late \subseteq late' /\ late' \subseteq late \cup {"update"}
      /\ torn \subseteq torn' /\ torn' \subseteq torn \cup {"update", "consolidate", "rollback"}
  BY DEF ConsolidateWritesIndex, Continues, Interrupted
<1>2. Rows' = con.rows
  BY <1>1, IndexIs
<1>3. con.rows \in Seq(Row) /\ <<>> \in Seq(Row) /\ 0 \in 0..Len(snaps)
  BY MemoryParts
<1>4. MemoryTypeOK'
  BY <1>1, <1>2, <1>3 DEF MemoryInv, MemoryTypeOK, NoConsolidation
<1>5. LoopKept' /\ ConsolidateInv'
  BY <1>1 DEF MemoryInv, LoopKept, ConsolidateInv, NoConsolidation
<1>6. UpdateInv'
  BY <1>1 DEF MemoryInv, UpdateInv
<1>7. RollbackInv'
  BY <1>1 DEF MemoryInv, RollbackInv
<1> QED  BY <1>4, <1>5, <1>6, <1>7 DEF MemoryInv

LEMMA RollbackMarkdownStep ==
  ASSUME MemoryInv, NEW snap \in DOMAIN snaps, RollbackWritesMarkdown(snap)
  PROVE  MemoryInv'
<1>1. /\ md' = snaps[snap].md /\ rol' = [pc |-> "index", snap |-> snap] /\ LoopFree
      /\ late' = late \cup {"update"} /\ torn' = (torn \ {"rollback"}) \cup Interrupted(FALSE)
      /\ UNCHANGED <<index, snaps, clock, upd, con>>
  BY DEF RollbackWritesMarkdown, Writes
<1>2. Interrupted(FALSE) = IF con.cli THEN {"consolidate"} ELSE {}
  BY DEF Interrupted
<1>3. snap \in 1..Len(snaps) /\ snap \in 0..Len(snaps) /\ snap # 0
  <2>1. DOMAIN snaps = 1..Len(snaps) /\ Len(snaps) \in Nat
    BY MemoryParts
  <2> QED  BY <2>1
<1>4. md' \in Seq(Id)
  BY <1>1, <1>3, MemoryParts
<1>5. MemoryTypeOK'
  BY <1>1, <1>2, <1>3, <1>4 DEF MemoryInv, MemoryTypeOK, Rows
<1>6. LoopKept'
  BY <1>1 DEF LoopKept, LoopFree
<1>7. UpdateInv'
  BY <1>1, <1>2 DEF MemoryInv, UpdateInv, LoopFree
<1>8. ConsolidateInv'
  BY <1>1, <1>2 DEF MemoryInv, ConsolidateInv, LoopFree
<1>9. RollbackInv'
  BY <1>1 DEF RollbackInv
<1> QED  BY <1>5, <1>6, <1>7, <1>8, <1>9 DEF MemoryInv

LEMMA RollbackIndexStep ==
  ASSUME MemoryInv, RollbackWritesIndex
  PROVE  MemoryInv'
<1>1. /\ index' = {snaps[rol.snap].index} /\ rol' = NoRollback /\ rol.pc = "index"
      /\ late' = late \cup {"update"} /\ torn' = torn \cup Interrupted(FALSE)
      /\ UNCHANGED <<md, snaps, clock, upd, con>>
  BY DEF RollbackWritesIndex, Continues
<1>2. Interrupted(FALSE) \subseteq {"consolidate"}
  BY DEF Interrupted
<1>3. Rows' = snaps[rol.snap].index
  BY <1>1, IndexIs
<1>4. rol.snap \in 1..Len(snaps) /\ snaps[rol.snap].index \in Seq(Row) /\ 0 \in 0..Len(snaps)
  <2>1. rol.snap \in 0..Len(snaps) /\ rol.snap # 0 /\ Len(snaps) \in Nat
    BY <1>1, MemoryParts
  <2>2. rol.snap \in 1..Len(snaps) /\ 0 \in 0..Len(snaps)
    BY <2>1
  <2> QED  BY <2>2, MemoryParts
<1>5. MemoryTypeOK'
  BY <1>1, <1>2, <1>3, <1>4 DEF MemoryInv, MemoryTypeOK, NoRollback
<1>6. LoopKept' /\ RollbackInv' /\ upd.pc \notin {"md", "index"}
  BY <1>1 DEF MemoryInv, LoopKept, RollbackInv, NoRollback
<1>7. UpdateInv'
  BY <1>1, <1>6, MemoryParts DEF MemoryInv, UpdateInv
<1>8. ConsolidateInv'
  BY <1>1, <1>2 DEF MemoryInv, ConsolidateInv
<1> QED  BY <1>5, <1>6, <1>7, <1>8 DEF MemoryInv

LEMMA ServerDiesStep ==
  ASSUME MemoryInv, ServerDies
  PROVE  MemoryInv'
<1>1. /\ upd' = NoUpdate /\ rol' = NoRollback /\ con' = IF con.cli THEN con ELSE NoConsolidation
      /\ late' = late \cup {"update"} /\ torn' = torn \cup Interrupted(FALSE)
      /\ md' \in {md, <<>>} /\ UNCHANGED <<index, snaps, clock>>
  BY DEF ServerDies, Continues
<1>2. Interrupted(FALSE) = IF con.cli THEN {"consolidate"} ELSE {}
  BY DEF Interrupted
<1>3. <<>> \in Seq(Row) /\ <<>> \in Seq(Id)
  OBVIOUS
<1>4. md' \in Seq(Id) /\ 0 \in 0..Len(snaps)
  <2>1. md \in Seq(Id) /\ Len(snaps) \in Nat
    BY MemoryParts
  <2>2. md' = md \/ md' = <<>>
    BY <1>1
  <2>3. md' \in Seq(Id)
    BY <1>3, <2>1, <2>2, Zenon
  <2>4. 0 \in 0..Len(snaps)
    BY <2>1
  <2> QED  BY <2>3, <2>4
<1>5. MemoryTypeOK'
  BY <1>1, <1>2, <1>3, <1>4
     DEF MemoryInv, MemoryTypeOK, Rows, NoUpdate, NoRollback, NoConsolidation
<1>6. LoopKept' /\ RollbackInv' /\ UpdateInv'
  BY <1>1 DEF LoopKept, RollbackInv, UpdateInv, NoUpdate, NoRollback
<1>7. ConsolidateInv'
  BY <1>1, <1>2 DEF MemoryInv, ConsolidateInv, NoConsolidation
<1> QED  BY <1>5, <1>6, <1>7 DEF MemoryInv

LEMMA CommandDiesStep ==
  ASSUME MemoryInv, CommandDies
  PROVE  MemoryInv'
<1>1. con' = NoConsolidation /\ UNCHANGED <<md, index, snaps, clock, upd, rol, late, torn, ops>>
  BY DEF CommandDies
<1>2. <<>> \in Seq(Row) /\ 0 \in 0..Len(snaps)
  BY MemoryParts
<1>3. MemoryTypeOK'
  BY <1>1, <1>2 DEF MemoryInv, MemoryTypeOK, Rows, NoConsolidation
<1>4. LoopKept' /\ ConsolidateInv'
  BY <1>1 DEF MemoryInv, LoopKept, ConsolidateInv, NoConsolidation
<1>5. UpdateInv' /\ RollbackInv'
  BY <1>1 DEF MemoryInv, UpdateInv, RollbackInv
<1> QED  BY <1>3, <1>4, <1>5 DEF MemoryInv

LEMMA DayStep ==
  ASSUME MemoryInv, DayPasses
  PROVE  MemoryInv'
<1>1. clock' \in 0..MaxClock /\ UNCHANGED <<md, index, snaps, upd, con, rol, late, torn, ops>>
  BY MemoryParts DEF DayPasses
<1>2. MemoryTypeOK'
  BY <1>1 DEF MemoryInv, MemoryTypeOK, Rows
<1> QED  BY <1>1, <1>2 DEF MemoryInv, LoopKept, UpdateInv, ConsolidateInv, RollbackInv

LEMMA MemoryStep == MemoryInv /\ [MemoryNext]_memoryVars => MemoryInv'
<1> SUFFICES ASSUME MemoryInv, [MemoryNext]_memoryVars PROVE MemoryInv'
  OBVIOUS
<1>1. CASE MemoryNext
  BY <1>1, EditStep, ReadStep, UpdateReadsStep, UpdateStartsStep, UpdateMarkdownStep,
     UpdateIndexStep, ConsolidateStartsStep, ConsolidateReadsStep, ConsolidateMarkdownStep,
     ConsolidateIndexStep, RollbackMarkdownStep, RollbackIndexStep, ServerDiesStep,
     CommandDiesStep, DayStep DEF MemoryNext
<1>2. CASE UNCHANGED memoryVars
  BY <1>2 DEF memoryVars, MemoryInv, MemoryTypeOK, Rows, LoopKept, UpdateInv, ConsolidateInv,
              RollbackInv
<1> QED  BY <1>1, <1>2

-----------------------------------------------------------------------------
(* What a step of the memory may do. *)

(* A write of the markdown: an update appends, and a consolidation tells   *)
(* what it read.                                                           *)
LEMMA MarkdownWritten ==
  ASSUME MemoryInv, MemoryNext
  PROVE  UpdateAppends /\ ConsolidationAccounts
<1>1. ASSUME upd.pc = "md", upd'.pc = "index" PROVE UpdateWritesMarkdown
  <2>1. upd' # upd /\ upd' # NoUpdate
    BY <1>1 DEF NoUpdate
  <2>2. ~(read_sotb_governed \/ update_sotb \/ DayPasses \/ CommandDies \/ ServerDies)
    BY <2>1 DEF read_sotb_governed, update_sotb, DayPasses, CommandDies, ServerDies
  <2>3. ~(UpdateReads \/ UpdateStarts \/ UpdateWritesIndex)
    BY <1>1 DEF UpdateReads, UpdateStarts, UpdateWritesIndex
  <2>4. /\ \A cli \in BOOLEAN : ~ConsolidateStarts(cli)
        /\ ~(ConsolidateReads \/ ConsolidateWritesMarkdown \/ ConsolidateWritesIndex)
    BY <2>1 DEF ConsolidateStarts, ConsolidateReads, ConsolidateWritesMarkdown,
                ConsolidateWritesIndex
  <2>5. (\A snap \in DOMAIN snaps : ~RollbackWritesMarkdown(snap)) /\ ~RollbackWritesIndex
    BY <2>1 DEF RollbackWritesMarkdown, RollbackWritesIndex
  <2> QED  BY <2>2, <2>3, <2>4, <2>5 DEF MemoryNext
<1>2. ASSUME con.pc = "judging", con'.pc = "index" PROVE ConsolidateWritesMarkdown
  <2>1. con' # con /\ con' # NoConsolidation
    BY <1>2 DEF NoConsolidation
  <2>2. ~(read_sotb_governed \/ update_sotb \/ DayPasses \/ CommandDies \/ ServerDies)
    BY <2>1 DEF read_sotb_governed, update_sotb, DayPasses, CommandDies, ServerDies
  <2>3. ~(UpdateReads \/ UpdateStarts \/ UpdateWritesMarkdown \/ UpdateWritesIndex)
    BY <2>1 DEF UpdateReads, UpdateStarts, UpdateWritesMarkdown, UpdateWritesIndex
  <2>4. /\ \A cli \in BOOLEAN : ~ConsolidateStarts(cli)
        /\ ~(ConsolidateReads \/ ConsolidateWritesIndex)
    BY <1>2 DEF ConsolidateStarts, ConsolidateReads, ConsolidateWritesIndex
  <2>5. (\A snap \in DOMAIN snaps : ~RollbackWritesMarkdown(snap)) /\ ~RollbackWritesIndex
    BY <2>1 DEF RollbackWritesMarkdown, RollbackWritesIndex
  <2> QED  BY <2>2, <2>3, <2>4, <2>5 DEF MemoryNext
<1>3. UpdateAppends
  BY <1>1 DEF UpdateAppends, UpdateWritesMarkdown, MemoryInv, UpdateInv, Gone
<1>4. ASSUME con.pc = "judging", con'.pc = "index", NEW id \in Gone \cap con.seen, id \notin con.gone
      PROVE  \/ [id EXCEPT !.section = "Resolved"] \in Range(md')
             \/ \E other \in Range(md') : <<id.text, other.text>> \in Alike
  <2>1. PICK contradicting : md' = [i \in DOMAIN Consolidated(con.rows, contradicting) |->
                                      Consolidated(con.rows, contradicting)[i].id]
    BY <1>2, <1>4 DEF ConsolidateWritesMarkdown
  <2>2. con.rows \in Seq(Row)
    BY MemoryParts
  <2>3. Range(md') = Ids(Consolidated(con.rows, contradicting))
    BY <2>1, <2>2, ConsolidatedTells, Bullets
  <2>4. id \in Ids(con.rows) /\ id \notin Range(md')
    BY <1>4 DEF MemoryInv, ConsolidateInv, Gone
  <2>5. Told(id, Range(md'))
    BY <2>2, <2>3, <2>4, ConsolidatedTells
  <2> QED  BY <2>4, <2>5 DEF Told, Resolved
<1>5. ConsolidationAccounts
  BY <1>4 DEF ConsolidationAccounts, MemoryInv, ConsolidateInv
<1> QED  BY <1>3, <1>5

(* A write of the index ends an operation. *)
LEMMA IndexWritten ==
  ASSUME MemoryInv, MemoryNext
  PROVE  FilesAgree
<1>1. ASSUME upd.pc = "index", upd'.pc = "idle" PROVE md' = md
  BY <1>1, MemoryParts DEF MemoryNext, read_sotb_governed, update_sotb, UpdateReads, UpdateStarts,
     UpdateWritesMarkdown, UpdateWritesIndex, ConsolidateStarts, ConsolidateReads,
     ConsolidateWritesMarkdown, ConsolidateWritesIndex, RollbackWritesMarkdown,
     RollbackWritesIndex, ServerDies, CommandDies, DayPasses, NoUpdate
<1>2. ASSUME con.pc = "index", con'.pc = "idle" PROVE md' = md
  BY <1>2, MemoryParts DEF MemoryInv, LoopKept, MemoryNext, read_sotb_governed, update_sotb,
     UpdateReads, UpdateStarts, UpdateWritesMarkdown, UpdateWritesIndex, ConsolidateStarts,
     ConsolidateReads, ConsolidateWritesMarkdown, ConsolidateWritesIndex, RollbackWritesMarkdown,
     RollbackWritesIndex, ServerDies, CommandDies, DayPasses, NoConsolidation
<1>3. ASSUME rol.pc = "index", rol'.pc = "idle" PROVE md' = md
  BY <1>3, MemoryParts DEF MemoryInv, LoopKept, MemoryNext, read_sotb_governed, update_sotb,
     UpdateReads, UpdateStarts, UpdateWritesMarkdown, UpdateWritesIndex, ConsolidateStarts,
     ConsolidateReads, ConsolidateWritesMarkdown, ConsolidateWritesIndex, RollbackWritesMarkdown,
     RollbackWritesIndex, ServerDies, CommandDies, DayPasses, NoRollback
<1>4. \A q : index' = {q} => Rows' = q
  BY IndexIs
<1>5. ASSUME upd.pc = "index", index' = {upd.rows}, upd'.pc = "idle", "update" \notin late \cup torn
      PROVE  Range(md') \subseteq Ids(Rows')
  BY <1>1, <1>4, <1>5 DEF MemoryInv, UpdateInv
<1>6. ASSUME con.pc = "index", index' = {con.rows}, con'.pc = "idle", "consolidate" \notin torn
      PROVE  Range(md') = Ids(Rows')
  BY <1>2, <1>4, <1>6 DEF MemoryInv, ConsolidateInv
<1>7. ASSUME rol.pc = "index", rol'.pc = "idle", "rollback" \notin torn
      PROVE  md' = snaps[rol.snap].md
  BY <1>3, <1>7 DEF MemoryInv, RollbackInv
<1> QED  BY <1>5, <1>6, <1>7 DEF FilesAgree

MemorySpec == MemoryInit /\ [][MemoryNext]_memoryVars

LEMMA MemoryHolds == MemorySpec => MemoryKept
<1>1. MemoryInv /\ [MemoryNext]_memoryVars => [UpdateAppends /\ ConsolidationAccounts /\ FilesAgree]_memoryVars
  BY MarkdownWritten, IndexWritten
<1>2. MemoryInv => MemoryTypeOK
  BY DEF MemoryInv
<1> QED  BY <1>1, <1>2, MemoryInvInit, MemoryStep, PTL DEF MemorySpec, MemoryKept

-----------------------------------------------------------------------------
(* The composition.                                                        *)

(* A behaviour of the composition is one of each part. *)
LEMMA PartsFollow ==
  AllSpec => InitiativesSpec /\ StartSpec /\ SearchSpec /\ HarnessSpec /\ MemorySpec
<1>1. AllInit => InitiativesInit /\ StartInit /\ SearchInit /\ HarnessInit /\ MemoryInit
  BY DEF AllInit
<1>2. [AllNext]_allVars => /\ [InitiativesNext]_initiativeVars /\ [StartNext]_startVars
                           /\ [SearchNext]_searchVars /\ [HarnessNext]_harnessVars
                           /\ [MemoryNext]_memoryVars
  <2> SUFFICES ASSUME [AllNext]_allVars
               PROVE  /\ [InitiativesNext]_initiativeVars /\ [StartNext]_startVars
                      /\ [SearchNext]_searchVars /\ [HarnessNext]_harnessVars
                      /\ [MemoryNext]_memoryVars
    OBVIOUS
  <2>1. CASE OneInitiative
    BY <2>1 DEF OneInitiative
  <2>2. CASE OneCandidate
    BY <2>2 DEF OneCandidate
  <2>3. CASE OneSearch
    BY <2>3 DEF OneSearch
  <2>4. CASE OneHarness
    BY <2>4 DEF OneHarness
  <2>5. CASE OneGate
    BY <2>5 DEF OneGate
  <2>6. CASE OneMemory
    BY <2>6 DEF OneMemory
  <2>7. CASE UNCHANGED allVars
    BY <2>7 DEF allVars
  <2> QED  BY <2>1, <2>2, <2>3, <2>4, <2>5, <2>6, <2>7 DEF AllNext
<1> QED  BY <1>1, <1>2, PTL
         DEF AllSpec, InitiativesSpec, StartSpec, SearchSpec, HarnessSpec, MemorySpec

(* The newest closeout of an initiative survives every migration, a closed *)
(* initiative stays closed but for writers that loaded it before, what a   *)
(* promotion and a session name exists, and a command that nobody overtook *)
(* undoes nothing of a candidate: for every number of processes,           *)
(* operations, ventures and sources.                                       *)
THEOREM RecordsHold == AllSpec => RecordsKept
<1>1. AllSpec => [](InitiativesTypeOK /\ CloseoutKept) /\ [](StartTypeOK /\ StartGrounded)
  BY PartsFollow, CloseoutSurvives, PromotionsGrounded
<1>2. AllSpec => [][ClosedStays]_initiativeVars /\ [][StartKept]_startVars
  BY PartsFollow, ClosedInitiativeStays, CandidateKept
<1> QED  BY <1>1, <1>2, PTL DEF RecordsKept

(* web_search: however the calls of a session interleave, it reaches a     *)
(* provider at most RateLimit times in any window, and the cache holds one *)
(* answer for a question, as many as fit, each with a packet of its own:   *)
(* for every number of callers, sessions, keys and every limit.            *)
THEOREM SearchesBounded == AllSpec => []SearchBound
BY PartsFollow, SearchSafe

(* apply_harness_review and the watcher: an application, a tuning or a     *)
(* revert that nobody overtook changes what it is about and nothing else,  *)
(* and the server knows the configuration it has applied: for every number *)
(* of reviews and saves, killed anywhere.                                  *)
THEOREM ReviewsHold == AllSpec => ReviewsApplied
<1>1. AllSpec => [](HarnessTypeOK /\ ConfigKnown) /\ [][OnlyWhatWasReviewed]_harnessVars
  BY PartsFollow, ReviewsSafe
<1> QED  BY <1>1 DEF ReviewsApplied

(* The memory of the board: an update that nobody interrupted loses no     *)
(* bullet; a consolidation accounts for each bullet that it read and takes *)
(* away, and has it in its snapshot if nobody wrote since; and the last    *)
(* write of an operation that nobody overtook leaves markdown and index in *)
(* agreement: for all entries, whichever say the same or contradict each   *)
(* other, and every number of operations, killed anywhere.                 *)
THEOREM MemoryKeeps == AllSpec => MemoryKept
BY PartsFollow, MemoryHolds

=============================================================================
