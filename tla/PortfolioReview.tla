---------------------------- MODULE PortfolioReview ----------------------------
(***************************************************************************)
(* The review-portfolio command (discovery/cli.py): a board compares the   *)
(* ready candidates of a week (discovery/portfolio_review.py), its         *)
(* decisions are written to the candidate files, the review is recorded,   *)
(* and an experiment with its venture and initiative is created for each   *)
(* selected candidate within the capacity (experiments/service.py).        *)
(*                                                                         *)
(* The command writes to three stores of files and four tables, one after  *)
(* the other, and may stop anywhere; running it again is the only          *)
(* recovery.  Each store operation of the command (one file read and       *)
(* replaced, one transaction) is one step; the commands with which the     *)
(* founder changes a candidate read its file in one step and write it back *)
(* whole in a later one.  Titles, ranks, rationales and timestamps are     *)
(* abstracted: a result keeps the candidates it selects, the two           *)
(* identifiers it carries, and which selections no experiment can be made  *)
(* of.                                                                     *)
(***************************************************************************)
EXTENDS Integers, FiniteSets

CONSTANTS
  Candidate,      \* candidates of the week's reports, with evidence
  Proc,           \* processes that run the command
  Session,        \* identifiers of board sessions
  Misnamed,       \* bound: other review ids an answer of the board may carry
  Refusable,      \* bound: candidates whose selection may be no valid experiment
  MinBatch,       \* fewest candidates a review compares (5)
  MaxBatch,       \* most candidates a review compares (10)
  DefaultSelect,  \* default_select
  MaxActive,      \* maximum_active
  MaxStops,       \* bound: how often a command fails or is killed
  MaxEdits        \* bound: how often the founder changes a candidate

(* A review id is a digest of the week and of the candidates compared. *)
Review == SUBSET Candidate

ASSUME PortfolioAssumption ==
  /\ IsFiniteSet(Candidate)
  /\ IsFiniteSet(Proc) /\ Proc # {}
  /\ Session # {} /\ Misnamed \subseteq Review /\ Refusable \subseteq Candidate
  /\ MinBatch \in Nat \ {0} /\ MaxBatch \in Nat
  /\ DefaultSelect \in Nat /\ MaxActive \in Nat
  /\ MaxStops \in Nat /\ MaxEdits \in Nat

VARIABLES
  cand,        \* the candidate files
  record,      \* the review files
  venture,     \* candidates whose venture exists
  initiative,  \* the validation initiatives that exist, with their session
  experiment,  \* the validation_experiments table
  cmd,         \* the state of each process
  stops,       \* how many commands have failed or been killed
  edit,        \* the candidate files that commands of the founder have read
  edits,       \* how often the founder has begun to change a candidate
  applied,     \* history: reviews whose decisions were all written
  torn,        \* history: decisions were left half written (see ApplyFails, Stops)
  overlap,     \* history: two commands have run at the same time
  steered      \* history: candidates whose discovery_status the founder has changed

founder == <<edit, edits>>
history == <<applied, torn, overlap, steered>>
vars == <<cand, record, venture, initiative, experiment, cmd, stops, founder, history>>

(* The discovery_status of a candidate, absent before its import, its      *)
(* validation_state, and whether the founder disposed of it.               *)
Cand == [status   : {"absent", "ready_for_board", "reviewed"},
         val      : {"not_selected", "queued", "validating"},
         disposed : BOOLEAN]
Absent == [status |-> "absent", val |-> "not_selected", disposed |-> FALSE]

(* A validated PortfolioReviewResult: its selection, the review_id and the *)
(* board_session_id that it carries, and the selections that               *)
(* ValidationExperiment refuses although PortfolioDecision accepts them    *)
(* (an assumption, a signal or a stop condition of blanks).                *)
Outcome == [picked : SUBSET Candidate, as : Review, by : Session, unfit : SUBSET Candidate]
NoOutcome == [picked |-> {}, as |-> {}, by |-> CHOOSE s \in Session : TRUE, unfit |-> {}]
Record == [status : {"none", "failed"}] \cup [status : {"completed"}, outcome : Outcome]

(* The status of an experiment is kept as open (one that counts in         *)
(* ACTIVE_EXPERIMENT_STATUSES) or over (validated, iterate, rejected),     *)
(* which no transition leaves.  Experiments and initiatives are keyed by   *)
(* the review id that the result carries (an initiative by its first       *)
(* twelve characters, which are taken to tell ids apart).                  *)
Experiment == [cand : Candidate, review : Review, open : BOOLEAN]
Initiative == [cand : Candidate, review : Review, by : Session,
               status : {"draft", "active", "closed"}]

CmdPC == {"idle", "load", "ask", "check", "apply", "undo", "record", "failed",
          "create", "initiative", "activate", "insert", "mark"}
Cmd == [pc      : CmdPC,
        batch   : Review,                  \* the candidates under review
        outcome : Outcome,                 \* the result it works on
        again   : BOOLEAN,                 \* second attempt
        left    : SUBSET Candidate,        \* decisions not yet handled
        old     : [Candidate -> Cand],     \* the candidates the check read
        cap     : Nat,                     \* capacity
        now     : SUBSET Candidate]        \* the one being given an experiment
Idle == [pc |-> "idle", batch |-> {}, outcome |-> NoOutcome, again |-> FALSE, left |-> {},
         old |-> [c \in Candidate |-> Absent], cap |-> 0, now |-> {}]

TypeOK ==
  /\ cand \in [Candidate -> Cand]
  /\ record \in [Review -> Record]
  /\ venture \subseteq Candidate
  /\ initiative \subseteq Initiative
  /\ experiment \subseteq Experiment
  /\ cmd \in [Proc -> Cmd]
  /\ stops \in 0..MaxStops
  /\ edit \in [Candidate -> Cand]
  /\ edits \in 0..MaxEdits
  /\ applied \subseteq Review
  /\ torn \in BOOLEAN
  /\ overlap \in BOOLEAN
  /\ steered \subseteq Candidate

Init ==
  /\ cand = [c \in Candidate |-> Absent]
  /\ record = [r \in Review |-> [status |-> "none"]]
  /\ venture = {}
  /\ initiative = {}
  /\ experiment = {}
  /\ cmd = [p \in Proc |-> Idle]
  /\ stops = 0
  /\ edit = [c \in Candidate |-> Absent]
  /\ edits = 0
  /\ applied = {}
  /\ torn = FALSE
  /\ overlap = FALSE
  /\ steered = {}

-----------------------------------------------------------------------------
Open == {e \in experiment : e.open}

(* available_capacity *)
Capacity == IF Cardinality(Open) < MaxActive THEN MaxActive - Cardinality(Open) ELSE 0

Completed == {r \in Review : record[r].status = "completed"}

Ready(c) == cand[c].status = "ready_for_board"

Eligible == {c \in Candidate : Ready(c) /\ ~cand[c].disposed}

(* validate_against: what a result may select, given the capacity its      *)
(* request was made with.                                                  *)
Selectable(picked, cap) == Cardinality(picked) <= (IF DefaultSelect < MaxActive
  THEN (IF DefaultSelect < cap THEN DefaultSelect ELSE cap)
  ELSE (IF MaxActive < cap THEN MaxActive ELSE cap))

(* Slip: only the experiments under way are looked for. *)
HasOpenExperiment(c, r) == \E e \in Open : e.cand = c /\ e.review = r

HasExperiment(c, r) == \E e \in experiment : e.cand = c /\ e.review = r

Update(c, val) == cand' = [cand EXCEPT ![c].status = "reviewed", ![c].val = val]

Moves(p, state) == cmd' = [cmd EXCEPT ![p] = state]
MovesTo(p, pc) == Moves(p, [cmd[p] EXCEPT !.pc = pc])

(* create_selected begins: the capacity is read once. *)
Creating(outcome) ==
  [Idle EXCEPT !.pc = "create", !.outcome = outcome, !.left = outcome.picked, !.cap = Capacity]

-----------------------------------------------------------------------------
(* PortfolioReviewService.review.                                          *)

(* Slip: a week without eligible candidates is an error. *)
ListsAnew(p) ==
  /\ cmd[p].pc = "idle"
  /\ overlap' = (overlap \/ \E q \in Proc : cmd[q].pc # "idle")
  /\ Cardinality(Eligible) \in MinBatch..MaxBatch
  /\ Moves(p, [Idle EXCEPT !.pc = "load", !.batch = Eligible])
  /\ UNCHANGED <<cand, record, venture, initiative, experiment, stops, founder, applied, torn, steered>>

(* The eligible candidates are listed.  When there is none, the recorded   *)
(* review of the week, if any, is what the command goes on with; with too  *)
(* few or too many it fails and changes nothing.                           *)
Lists(p) ==
  /\ cmd[p].pc = "idle"
  /\ overlap' = (overlap \/ \E q \in Proc : cmd[q].pc # "idle")
  /\ \/ /\ Eligible # {}
        /\ Cardinality(Eligible) \in MinBatch..MaxBatch
        /\ Moves(p, [Idle EXCEPT !.pc = "load", !.batch = Eligible])
     \/ /\ Eligible = {}
        /\ \E r \in Completed : Moves(p, Creating(record[r].outcome))
  /\ UNCHANGED <<cand, record, venture, initiative, experiment, stops, founder, applied, torn, steered>>

(* The review file of this batch is read, and the request made: a review   *)
(* that another process completed meanwhile is taken over, unless its      *)
(* selection no longer fits the capacity; otherwise the board is asked.    *)
Loads(p) ==
  LET r == cmd[p].batch IN
  /\ cmd[p].pc = "load"
  /\ IF r \in Completed
     THEN Moves(p, IF Selectable(record[r].outcome.picked, Capacity)
                   THEN Creating(record[r].outcome) ELSE Idle)
     ELSE Moves(p, [cmd[p] EXCEPT !.pc = "ask", !.cap = Capacity])
  /\ UNCHANGED <<cand, record, venture, initiative, experiment, stops, founder, history>>

(* A contract error: asked once more, then the review is recorded failed. *)
Rejected(p) ==
  LET k == cmd[p] IN
  Moves(p, [Idle EXCEPT !.pc = IF k.again THEN "failed" ELSE "ask",
                        !.batch = k.batch, !.again = TRUE, !.cap = k.cap])

(* The board answers after any time, with a valid result or not.  The ids  *)
(* of the review and of the session are what the answer says they are.     *)
BoardAnswers(p) ==
  LET k == cmd[p] IN
  /\ k.pc = "ask"
  /\ \/ \E picked \in SUBSET k.batch, as \in {k.batch} \cup Misnamed, by \in Session :
        \E unfit \in SUBSET (picked \cap Refusable) :
          /\ Selectable(picked, k.cap)
          /\ Moves(p, [k EXCEPT !.pc = "check", !.outcome =
                         [picked |-> picked, as |-> as, by |-> by, unfit |-> unfit]])
     \/ Rejected(p)
  /\ UNCHANGED <<cand, record, venture, initiative, experiment, stops, founder, history>>

(* _apply_atomically reads every candidate before it writes any. *)
Checks(p) ==
  LET r == cmd[p].batch IN
  /\ cmd[p].pc = "check"
  /\ \/ /\ \A c \in r : Ready(c)
        /\ Moves(p, [cmd[p] EXCEPT !.pc = "apply", !.left = r, !.old = cand])
     \/ /\ \E c \in r : ~Ready(c)
        /\ Rejected(p)
  /\ UNCHANGED <<cand, record, venture, initiative, experiment, stops, founder, history>>

Verdict(k, c) == IF c \in k.outcome.picked THEN "queued" ELSE "not_selected"

(* One decision is written; after the last one the review is applied. *)
Applies(p) ==
  LET k == cmd[p] IN
  /\ k.pc = "apply"
  /\ \E c \in k.left :
       /\ Update(c, Verdict(k, c))
       /\ Moves(p, [k EXCEPT !.left = @ \ {c},
                             !.pc = IF k.left = {c} THEN "record" ELSE "apply"])
       /\ applied' = IF k.left = {c} THEN applied \cup {k.batch} ELSE applied
  /\ UNCHANGED <<record, venture, initiative, experiment, stops, founder, torn, overlap, steered>>

(* A write fails or is interrupted: the written candidates are restored.   *)
(* A candidate whose file was replaced, but whose index could not be       *)
(* rebuilt, does not count as written.                                     *)
ApplyFails(p) ==
  LET k == cmd[p] IN
  /\ stops < MaxStops
  /\ k.pc = "apply"
  /\ stops' = stops + 1
  /\ Moves(p, [k EXCEPT !.pc = "undo", !.left = k.batch \ @])
  /\ \/ UNCHANGED <<cand, torn>>
     \/ \E c \in k.left : Update(c, Verdict(k, c)) /\ torn' = TRUE
  /\ UNCHANGED <<record, venture, initiative, experiment, founder, applied, overlap, steered>>

(* Slip: the batch is left as the failed write left it. *)
ForgetsUndo(p) ==
  /\ cmd[p].pc = "undo"
  /\ Moves(p, Idle)
  /\ UNCHANGED <<cand, record, venture, initiative, experiment, stops, founder, history>>

Undoes(p) ==
  LET k == cmd[p] IN
  /\ k.pc = "undo"
  /\ \/ \E c \in k.left :
          /\ cand' = [cand EXCEPT ![c] = k.old[c]]
          /\ Moves(p, [k EXCEPT !.left = @ \ {c}])
     \/ k.left = {} /\ Moves(p, Idle) /\ UNCHANGED cand
  /\ UNCHANGED <<record, venture, initiative, experiment, stops, founder, history>>

(* The review file is written. *)
Records(p) ==
  LET k == cmd[p] IN
  /\ k.pc = "record"
  /\ record' = [record EXCEPT ![k.batch] = [status |-> "completed", outcome |-> k.outcome]]
  /\ Moves(p, Creating(k.outcome))
  /\ UNCHANGED <<cand, venture, initiative, experiment, stops, founder, history>>

RecordsFailure(p) ==
  /\ cmd[p].pc = "failed"
  /\ record' = [record EXCEPT ![cmd[p].batch] = [status |-> "failed"]]
  /\ Moves(p, Idle)
  /\ UNCHANGED <<cand, venture, initiative, experiment, stops, founder, history>>

-----------------------------------------------------------------------------
(* ExperimentService.create_selected.                                      *)

(* Slip: the capacity is not looked at. *)
CreatesUncapped(p) ==
  LET k == cmd[p] IN
  /\ k.pc = "create"
  /\ \/ \E c \in k.left :
          \/ /\ HasExperiment(c, k.outcome.as)
             /\ Moves(p, [k EXCEPT !.left = @ \ {c}])
             /\ UNCHANGED venture
          \/ /\ ~HasExperiment(c, k.outcome.as)
             /\ venture' = venture \cup {c}
             /\ Moves(p, [k EXCEPT !.left = @ \ {c}, !.now = {c},
                                   !.pc = "initiative"])
     \/ k.left = {} /\ Moves(p, Idle) /\ UNCHANGED venture
  /\ UNCHANGED <<cand, record, initiative, experiment, stops, founder, history>>

(* The next decision: it has its experiment already, it is queued for want *)
(* of capacity, or its venture is made.                                    *)
Creates(p) ==
  LET k == cmd[p] IN
  /\ k.pc = "create"
  /\ \/ \E c \in k.left :
          \/ /\ HasExperiment(c, k.outcome.as)
             /\ Moves(p, [k EXCEPT !.left = @ \ {c}])
             /\ UNCHANGED <<cand, venture>>
          \/ /\ ~HasExperiment(c, k.outcome.as) /\ k.cap = 0
             /\ cand' = [cand EXCEPT ![c].val = "queued"]
             /\ Moves(p, [k EXCEPT !.left = @ \ {c}])
             /\ UNCHANGED venture
          \/ /\ ~HasExperiment(c, k.outcome.as) /\ k.cap > 0
             /\ venture' = venture \cup {c}
             /\ Moves(p, [k EXCEPT !.left = @ \ {c}, !.now = {c},
                                   !.pc = "initiative"])
             /\ UNCHANGED cand
     \/ k.left = {} /\ Moves(p, Idle) /\ UNCHANGED <<cand, venture>>
  /\ UNCHANGED <<record, initiative, experiment, stops, founder, history>>

OfCommand(k, i) == i.cand \in k.now /\ i.review = k.outcome.as
Drafts(k) == {[cand |-> c, review |-> k.outcome.as, by |-> k.outcome.by, status |-> "draft"] :
                c \in k.now}

(* Slip: an initiative that is there already is taken to be active. *)
CreatesInitiativeTrusted(p) ==
  LET k == cmd[p] IN
  /\ k.pc = "initiative"
  /\ \/ /\ \A i \in initiative : ~OfCommand(k, i)
        /\ initiative' = initiative \cup Drafts(k)
        /\ MovesTo(p, "activate")
     \/ /\ \E i \in initiative : OfCommand(k, i) /\ MovesTo(p, "insert")
        /\ UNCHANGED initiative
  /\ UNCHANGED <<cand, record, venture, experiment, stops, founder, history>>

(* create_initiative returns an initiative of the same session and refuses *)
(* one of another.                                                         *)
CreatesInitiative(p) ==
  LET k == cmd[p] IN
  /\ k.pc = "initiative"
  /\ \/ /\ \A i \in initiative : ~OfCommand(k, i)
        /\ initiative' = initiative \cup Drafts(k)
        /\ MovesTo(p, "activate")
     \/ /\ \E i \in initiative :
             /\ OfCommand(k, i)
             /\ Moves(p, IF i.by = k.outcome.by THEN [k EXCEPT !.pc = "activate"] ELSE Idle)
        /\ UNCHANGED initiative
  /\ UNCHANGED <<cand, record, venture, experiment, stops, founder, history>>

(* activate_initiative refuses a closed initiative: the command fails. *)
Activates(p) ==
  LET k == cmd[p] IN
  /\ k.pc = "activate"
  /\ \E i \in initiative :
       /\ OfCommand(k, i)
       /\ IF i.status = "closed"
          THEN Moves(p, Idle) /\ UNCHANGED initiative
          ELSE /\ MovesTo(p, "insert")
               /\ initiative' = (initiative \ {i}) \cup {[i EXCEPT !.status = "active"]}
  /\ UNCHANGED <<cand, record, venture, experiment, stops, founder, history>>

(* A selection that ValidationExperiment refuses ends the command.         *)
(* ExperimentStore.create: the candidate and the review are a unique key.  *)
Inserts(p) ==
  LET k == cmd[p] IN
  /\ k.pc = "insert"
  /\ \/ /\ k.now \cap k.outcome.unfit = {}
        /\ experiment' = experiment \cup
             {[cand |-> c, review |-> k.outcome.as, open |-> TRUE] :
                c \in {d \in k.now : ~HasExperiment(d, k.outcome.as)}}
        /\ MovesTo(p, "mark")
     \/ /\ k.now \cap k.outcome.unfit # {}
        /\ Moves(p, Idle) /\ UNCHANGED experiment
  /\ UNCHANGED <<cand, record, venture, initiative, stops, founder, history>>

(* Slip: the capacity left is not counted down. *)
MarksUncounted(p) ==
  /\ cmd[p].pc = "mark"
  /\ cand' = [c \in Candidate |->
       IF c \in cmd[p].now THEN [cand[c] EXCEPT !.val = "validating"] ELSE cand[c]]
  /\ Moves(p, [cmd[p] EXCEPT !.pc = "create", !.now = {}])
  /\ UNCHANGED <<record, venture, initiative, experiment, stops, founder, history>>

Marks(p) ==
  /\ cmd[p].pc = "mark"
  /\ cand' = [c \in Candidate |->
       IF c \in cmd[p].now THEN [cand[c] EXCEPT !.val = "validating"] ELSE cand[c]]
  /\ Moves(p, [cmd[p] EXCEPT !.pc = "create", !.now = {}, !.cap = @ - 1])
  /\ UNCHANGED <<record, venture, initiative, experiment, stops, founder, history>>

CommandStep(p) ==
  \/ Lists(p) \/ Loads(p) \/ BoardAnswers(p) \/ Checks(p) \/ Applies(p)
  \/ Undoes(p) \/ Records(p) \/ RecordsFailure(p)
  \/ Creates(p) \/ CreatesInitiative(p) \/ Activates(p) \/ Inserts(p) \/ Marks(p)

-----------------------------------------------------------------------------
(* The command is killed, or fails outside the write of the decisions. *)
Stops(p) ==
  /\ stops < MaxStops
  /\ cmd[p].pc # "idle"
  /\ stops' = stops + 1
  /\ torn' = (torn \/ cmd[p].pc \in {"apply", "undo"})
  /\ Moves(p, Idle)
  /\ UNCHANGED <<cand, record, venture, initiative, experiment, founder, applied, overlap, steered>>

(* import_report writes one candidate file after the other; importing a    *)
(* report again adds what is missing.                                      *)
Imports(c) ==
  /\ cand[c].status = "absent"
  /\ cand' = [cand EXCEPT ![c].status = "ready_for_board"]
  /\ UNCHANGED <<record, venture, initiative, experiment, cmd, stops, founder, history>>

(* A command of the founder reads the candidate.                           *)
Edits(c) ==
  /\ cand[c].status # "absent" /\ edit[c] = Absent
  /\ edits < MaxEdits
  /\ edits' = edits + 1
  /\ edit' = [edit EXCEPT ![c] = cand[c]]
  /\ UNCHANGED <<cand, record, venture, initiative, experiment, cmd, stops, history>>

(* What it writes: dispose and restore, shortlist, legacy-promote, and     *)
(* legacy-start-board when its session is over.  None of them looks at     *)
(* what a review has decided.                                              *)
Edited(k) ==
  {[k EXCEPT !.disposed = d] : d \in BOOLEAN} \cup
  {[k EXCEPT !.status = "ready_for_board"], [k EXCEPT !.status = "reviewed", !.val = "queued"]} \cup
  (IF k.status = "reviewed" THEN {[k EXCEPT !.val = "validating"]} ELSE {})

Replaces(c, new) ==
  /\ cand' = [cand EXCEPT ![c] = new]
  /\ steered' = IF new.status = cand[c].status THEN steered ELSE steered \cup {c}

Writes(c) ==
  /\ edit[c] # Absent
  /\ \E new \in Edited(edit[c]) : Replaces(c, new)
  /\ edit' = [edit EXCEPT ![c] = Absent]
  /\ UNCHANGED <<record, venture, initiative, experiment, cmd, stops, edits, applied, torn, overlap>>

(* legacy-start-board writes the candidate it has read before its session  *)
(* too.                                                                    *)
StartsBoard(c) ==
  /\ edit[c].status = "reviewed"
  /\ Replaces(c, edit[c])
  /\ UNCHANGED <<record, venture, initiative, experiment, cmd, stops, founder, applied, torn, overlap>>

(* The API activates and closes initiatives. *)
InitiativeActivates(i) ==
  /\ i.status = "draft"
  /\ initiative' = (initiative \ {i}) \cup {[i EXCEPT !.status = "active"]}
  /\ UNCHANGED <<cand, record, venture, experiment, cmd, stops, founder, history>>

InitiativeCloses(i) ==
  /\ i.status # "closed"
  /\ initiative' = (initiative \ {i}) \cup {[i EXCEPT !.status = "closed"]}
  /\ UNCHANGED <<cand, record, venture, experiment, cmd, stops, founder, history>>

(* An experiment reaches its day-7 or day-14 decision. *)
ExperimentEnds(e) ==
  /\ e.open
  /\ experiment' = (experiment \ {e}) \cup {[e EXCEPT !.open = FALSE]}
  /\ UNCHANGED <<cand, record, venture, initiative, cmd, stops, founder, history>>

Next ==
  \/ \E p \in Proc : CommandStep(p) \/ ApplyFails(p) \/ Stops(p)
  \/ \E c \in Candidate : Imports(c) \/ Edits(c) \/ Writes(c) \/ StartsBoard(c)
  \/ \E i \in initiative : InitiativeActivates(i) \/ InitiativeCloses(i)
  \/ \E e \in experiment : ExperimentEnds(e)

Spec == Init /\ [][Next]_vars

(* A command that has begun goes on, the founder runs it again and again,  *)
(* and an experiment is decided on some day.                               *)
FairSpec ==
  /\ Spec
  /\ \A p \in Proc : WF_vars(cmd[p].pc # "idle" /\ CommandStep(p))
  /\ WF_vars(\E p \in Proc : Lists(p))
  /\ WF_vars(\E e \in experiment : ExperimentEnds(e))

-----------------------------------------------------------------------------
(* Properties.                                                             *)

Ceiling == IF overlap THEN Cardinality(Proc) * MaxActive ELSE MaxActive

(* Commands that run one after the other keep the number of experiments    *)
(* under way within maximum_active, although the capacity is read once and *)
(* the experiments are inserted later, and a command may be killed between *)
(* any two of them.  Commands that overlap overshoot, each by what it read *)
(* at most (available_capacity, create_selected).                          *)
CapacityBound == Cardinality(Open) <= Ceiling

Unused(p) ==
  IF cmd[p].pc \in {"create", "initiative", "activate", "insert"} THEN cmd[p].cap
  ELSE IF cmd[p].pc = "mark" THEN cmd[p].cap - 1 ELSE 0
Reserved == {t \in Proc \X (1..MaxActive) : t[2] <= Unused(t[1])}

(* What a command has read of the capacity and not used up yet is part of  *)
(* the same bound: two commands that read it together are the worst case.  *)
CapacityReserved == Cardinality(Open) + Cardinality(Reserved) <= Ceiling

(* The rest of the invariant that CapacityReserved needs: a command that is *)
(* making an experiment makes one and has capacity left for it, and without *)
(* overlap one process at most is not idle.                                *)
Inserting == {"initiative", "activate", "insert", "mark"}
Sound(k) ==
  /\ k.cap <= MaxActive
  /\ k.pc \in Inserting => k.cap > 0 /\ \E c \in Candidate : k.now = {c}
CommandInv ==
  /\ \A p \in Proc : Sound(cmd[p])
  /\ ~overlap => \A p, q \in Proc : cmd[p].pc # "idle" /\ cmd[q].pc # "idle" => p = q

(* _apply_atomically: between commands, the reviewed candidates are those  *)
(* of the reviews whose decisions were all written, unless a command was   *)
(* killed while it wrote them, an index could not be rebuilt, commands     *)
(* overlapped, or the founder changed the status of the candidate: with a  *)
(* shortlist or a promotion, or by writing a file that was read before the *)
(* review.                                                                 *)
AllOrNone ==
  (/\ ~torn /\ ~overlap
   /\ \A p \in Proc : cmd[p].pc \notin {"apply", "undo"})
    => {c \in Candidate : cand[c].status = "reviewed"} \ steered = (UNION applied) \ steered

Activated(c, r) ==
  \E i \in initiative : i.cand = c /\ i.review = r /\ i.status # "draft"

(* _create_one: whatever was killed or raced, an experiment has its        *)
(* venture, and an initiative that was activated.                          *)
ExperimentGrounded ==
  \A e \in experiment : e.cand \in venture /\ Activated(e.cand, e.review)

(* Inductive: what _create_one has made when it comes to the insert. *)
CommandGrounded(p) ==
  /\ cmd[p].pc \in Inserting => cmd[p].now \subseteq venture
  /\ cmd[p].pc = "insert" => \A c \in cmd[p].now : Activated(c, cmd[p].outcome.as)
GroundedInv == ExperimentGrounded /\ \A p \in Proc : CommandGrounded(p)

(* create_selected, while commands do not overlap: an experiment was       *)
(* selected by a completed review, under the id that its result carries,   *)
(* and a candidate whose status the founder leaves alone has at most one,  *)
(* however often the command is repeated and whatever batches it compares. *)
ExperimentDecided ==
  ~overlap =>
    \A e \in experiment :
      /\ \E r \in Completed :
           record[r].outcome.as = e.review /\ e.cand \in record[r].outcome.picked
      /\ e.cand \notin steered => \A f \in experiment : f.cand = e.cand => f = e

Settled ==
  /\ ~overlap /\ Eligible = {} /\ Cardinality(Completed) = 1
  /\ \A r \in Completed : record[r].outcome.unfit = {}
  /\ \A i \in initiative : i.status = "closed" => HasExperiment(i.cand, i.review)

SelectedHave ==
  \A r \in Completed : \A c \in record[r].outcome.picked :
    HasExperiment(c, record[r].outcome.as)

(* Repeating the command is the recovery: when no candidate is left to     *)
(* review, commands do not overlap, nobody closes an initiative before its *)
(* experiment exists and ValidationExperiment refuses none of the          *)
(* selections, every candidate that the completed review selected gets its *)
(* experiment, after any kill and although the capacity was exhausted.     *)
SelectedGetExperiments == <>[]Settled => <>[]SelectedHave
=============================================================================
