---------------------------- MODULE HarnessReviews ----------------------------
(***************************************************************************)
(* The harness configuration file, the reviews that change it and the      *)
(* watcher that takes a change back (server/harness/reviews.py, config.py, *)
(* shadow.py).  The API server applies a review in its event loop and      *)
(* watches it in a thread; the tuning command is a process of its own;     *)
(* each reads the file, computes, and writes it whole.                     *)
(***************************************************************************)
EXTENDS Integers, Sequences, FiniteSets

CONSTANTS
  Review,      \* reviews that may be made
  Model,       \* models a member may be assigned
  Budget,      \* token budgets, thresholds and routing, as one value
  Kept,        \* a report without changes
  NoReview,    \* no review is active
  SessionsWatched,         \* sessions the watcher needs (window)
  MaxSaves, MaxRecorded    \* bounds: saves of the file, sessions recorded

ASSUME ReviewsAssumption ==
  /\ SessionsWatched \in Nat \ {0} /\ MaxSaves \in Nat /\ MaxRecorded \in Nat
  /\ Kept \notin Model \cup Budget /\ NoReview \notin Review
  /\ Review \cap {"tuner", "reader", "cache"} = {}   \* the others who hold a copy

VARIABLES
  file,      \* harness_config.json
  cached,    \* what the server's get_config answers with: {} or {a config}
  reading,   \* what a get_config under way has read: {} or {a config}
  review, activation, watch,  \* by review: its file, its ledger row, its watcher
  apply, tuner,  \* the apply handler and the command under way
  sessions,  \* ledger rows of each review: recorded while it was active
  order,     \* reviews in the order of activated_at
  overtaken, \* whose copy of the file someone else has since replaced
  saves

harnessVars == <<file, cached, reading, review, activation, watch, apply, tuner,
                 sessions, order, overtaken, saves>>

Config == [model : Model, budget : Budget, version : 1..MaxSaves + 1]
Report == [model : Model \cup {Kept}, budget : Budget \cup {Kept}]
MaybeConfig == {{}} \cup {{c} : c \in Config}
MaybeReport == {{}} \cup {{x} : x \in Report}

NotApplying == [pc |-> "idle", review |-> NoReview, previous |-> {}]
AtRest(c) == [pc |-> "idle", config |-> c]

HarnessTypeOK ==
  /\ file \in Config /\ cached \in MaybeConfig /\ reading \in MaybeConfig
  /\ review \in [Review -> [status : {"none", "proposed", "approved", "rejected", "applied"},
                            snapshot : MaybeReport]]
  /\ activation \in [Review -> [previous : MaybeConfig, reverted : BOOLEAN]]
  /\ watch \in [Review -> [pc : {"idle", "watch", "restore"}, config : MaybeConfig]]
  /\ apply \in [pc : {"idle", "save", "activate", "mark"}, review : Review \cup {NoReview},
                previous : MaybeConfig]
  /\ tuner \in [pc : {"idle", "save"}, config : MaybeConfig]
  /\ sessions \in [Review -> 0..MaxRecorded]
  /\ overtaken \subseteq Review \cup {"tuner", "reader", "cache"} /\ saves \in 0..MaxSaves

HarnessInit ==
  /\ file \in {c \in Config : c.version = 1}
  /\ cached = {} /\ reading = {}
  /\ review = [r \in Review |-> [status |-> "none", snapshot |-> {}]]
  /\ activation = [r \in Review |-> [previous |-> {}, reverted |-> FALSE]]
  /\ watch = [r \in Review |-> AtRest({})] /\ apply = NotApplying /\ tuner = AtRest({})
  /\ sessions = [r \in Review |-> 0]
  /\ order = <<>> /\ overtaken = {} /\ saves = 0

ServerFree == apply.pc = "idle"

Holding == {r \in Review : apply.review = r \/ watch[r].pc # "idle"}
           \cup (IF tuner.pc = "idle" THEN {} ELSE {"tuner"})
           \cup (IF reading = {} THEN {} ELSE {"reader"})

(* save_config: the copy with its own version raised; the cache that is    *)
(* dropped is that of the process that saves.                              *)
save_config(c, writer) ==
  /\ saves < MaxSaves /\ saves' = saves + 1
  /\ file' = [c EXCEPT !.version = @ + 1]
  /\ cached' = IF writer = "tuner" THEN cached ELSE {}
  /\ overtaken' = (Holding \ {writer})
                   \cup (IF writer = "tuner" /\ cached # {} THEN {"cache"} ELSE {})

-----------------------------------------------------------------------------
(* The tuners compare the ledger with the configuration they load, and     *)
(* report what they would change, or change it.                            *)
Proposals(c) == {x \in Report : x.model # c.model /\ x.budget # c.budget}
Tuned(c, x) == [c EXCEPT !.model = IF x.model = Kept THEN @ ELSE x.model,
                         !.budget = IF x.budget = Kept THEN @ ELSE x.budget]

(* One tuner of the command line loads the file. *)
TunerLoads ==
  /\ tuner.pc = "idle" /\ saves < MaxSaves
  /\ \E x \in Proposals(file) :
       /\ Kept \in {x.model, x.budget} /\ {x.model, x.budget} # {Kept}
       /\ tuner' = [pc |-> "save", config |-> {Tuned(file, x)}]
  /\ overtaken' = overtaken \ {"tuner"}
  /\ UNCHANGED <<file, cached, reading, review, activation, watch, apply, sessions, order, saves>>

TunerSaves ==
  /\ tuner.pc = "save" /\ tuner' = AtRest({})
  /\ \E c \in tuner.config : save_config(c, "tuner")
  /\ UNCHANGED <<reading, review, activation, watch, apply, sessions, order>>

-----------------------------------------------------------------------------
(* run_harness_review: what it shows is not what an approval freezes. *)
run_harness_review(r) ==
  /\ ServerFree /\ saves < MaxSaves /\ review[r].status = "none"
  /\ review' = [review EXCEPT ![r].status = "proposed"]
  /\ UNCHANGED <<file, cached, reading, activation, watch, apply, tuner, sessions, order,
                 overtaken, saves>>

(* approve_harness_review: the first approval runs the tuners again and    *)
(* freezes what they say; a later one keeps that.                          *)
approve_harness_review(r) ==
  /\ ServerFree /\ saves < MaxSaves /\ review[r].status \in {"proposed", "approved", "rejected"}
  /\ \/ review' = [review EXCEPT ![r].status = "rejected"]
     \/ \E snapshot \in IF review[r].snapshot # {} THEN review[r].snapshot ELSE Proposals(file) :
          review' = [review EXCEPT ![r] = [status |-> "approved", snapshot |-> {snapshot}]]
  /\ UNCHANGED <<file, cached, reading, activation, watch, apply, tuner, sessions, order,
                 overtaken, saves>>

(* Only the model assignments of a snapshot are merged. *)
_apply_snapshot_to_config(c, x) == Tuned(c, [x EXCEPT !.budget = Kept])

(* Slip: the review is merged into the cached configuration. *)
ApplyLoadsCached(r) ==
  /\ ServerFree /\ review[r].status = "approved" /\ saves < MaxSaves
  /\ apply' = [pc |-> "save", review |-> r, previous |-> IF cached = {} THEN {file} ELSE cached]
  /\ overtaken' = overtaken \ {r}
  /\ UNCHANGED <<file, cached, reading, review, activation, watch, tuner, sessions, order, saves>>

(* apply_harness_review: the merged configuration may be refused.          *)
ApplyLoads(r) ==
  /\ ServerFree /\ review[r].status = "approved" /\ saves < MaxSaves
  /\ apply' = [pc |-> "save", review |-> r, previous |-> {file}]
  /\ overtaken' = overtaken \ {r}
  /\ UNCHANGED <<file, cached, reading, review, activation, watch, tuner, sessions, order, saves>>

ApplySaves ==
  /\ apply.pc = "save" /\ apply' = [apply EXCEPT !.pc = "activate"]
  /\ \E c \in apply.previous, x \in review[apply.review].snapshot :
       save_config(_apply_snapshot_to_config(c, x), apply.review)
  /\ UNCHANGED <<reading, review, activation, watch, tuner, sessions, order>>

ApplyRefused ==
  /\ apply.pc = "save" /\ apply' = NotApplying
  /\ overtaken' = overtaken \ {apply.review}
  /\ UNCHANGED <<file, cached, reading, review, activation, watch, tuner, sessions, order, saves>>

(* snapshot_activation: INSERT OR REPLACE. *)
snapshot_activation ==
  /\ apply.pc = "activate" /\ apply' = [apply EXCEPT !.pc = "mark"]
  /\ activation' = [activation EXCEPT ![apply.review] =
       [previous |-> apply.previous, reverted |-> FALSE]]
  /\ order' = Append(SelectSeq(order, LAMBDA r : r # apply.review), apply.review)
  /\ UNCHANGED <<file, cached, reading, review, watch, tuner, sessions, overtaken, saves>>

(* The review is saved, and its watcher starts in a thread. *)
ApplyMarks ==
  /\ apply.pc = "mark" /\ apply' = NotApplying
  /\ review' = [review EXCEPT ![apply.review].status = "applied"]
  /\ watch' = [watch EXCEPT ![apply.review].pc = "watch"]
  /\ UNCHANGED <<file, cached, reading, activation, tuner, sessions, order, overtaken, saves>>

-----------------------------------------------------------------------------
(* record_session, under the newest activation that stands. *)
_active_review_id ==
  LET standing == {i \in DOMAIN order : ~activation[order[i]].reverted}
  IN IF standing = {} THEN NoReview
     ELSE order[CHOOSE i \in standing : \A j \in standing : j <= i]
record_session ==
  /\ saves < MaxSaves /\ _active_review_id # NoReview /\ sessions[_active_review_id] < MaxRecorded
  /\ sessions' = [sessions EXCEPT ![_active_review_id] = @ + 1]
  /\ UNCHANGED <<file, cached, reading, review, activation, watch, apply, tuner, order,
                 overtaken, saves>>

(* watch_after_apply looks once: without the sessions it needs, or without *)
(* a regression against the older ones, nothing happens.                   *)
WatcherIsContent(r) ==
  /\ watch[r].pc = "watch" /\ watch' = [watch EXCEPT ![r] = AtRest({})]
  /\ overtaken' = overtaken \ {r}
  /\ UNCHANGED <<file, cached, reading, review, activation, apply, tuner, sessions, order, saves>>

revert_activation(r) ==
  /\ watch[r].pc = "watch" /\ sessions[r] >= SessionsWatched
  /\ activation' = [activation EXCEPT ![r].reverted = TRUE]
  /\ watch' = [watch EXCEPT ![r] = [pc |-> "restore", config |-> activation[r].previous]]
  /\ UNCHANGED <<file, cached, reading, review, apply, tuner, sessions, order, overtaken, saves>>

_restore_from_snapshot(r) ==
  /\ watch[r].pc = "restore" /\ watch' = [watch EXCEPT ![r] = AtRest({})]
  /\ \E c \in watch[r].config : save_config(c, r)
  /\ UNCHANGED <<reading, review, activation, apply, tuner, sessions, order>>

(* get_config of the server: lru_cache keeps what load_config returns,     *)
(* even if the cache was cleared while it was reading.                     *)
GetConfigReads ==
  /\ ServerFree /\ saves < MaxSaves /\ cached = {} /\ reading = {} /\ reading' = {file}
  /\ overtaken' = overtaken \ {"reader"}
  /\ UNCHANGED <<file, cached, review, activation, watch, apply, tuner, sessions, order, saves>>
GetConfigKeeps ==
  /\ reading # {} /\ cached' = reading /\ reading' = {}
  /\ overtaken' = (overtaken \ {"reader", "cache"})
                   \cup (IF "reader" \in overtaken THEN {"cache"} ELSE {})
  /\ UNCHANGED <<file, review, activation, watch, apply, tuner, sessions, order, saves>>

HarnessServerDies ==
  /\ apply' = NotApplying /\ watch' = [r \in Review |-> AtRest({})]
  /\ cached' = {} /\ reading' = {} /\ overtaken' = overtaken \cap {"tuner"}
  /\ UNCHANGED <<file, review, activation, tuner, sessions, order, saves>>

HarnessNext ==
  \/ TunerLoads \/ TunerSaves \/ record_session \/ HarnessServerDies
  \/ ApplySaves \/ ApplyRefused \/ snapshot_activation \/ ApplyMarks
  \/ GetConfigReads \/ GetConfigKeeps
  \/ \E r \in Review :
       \/ run_harness_review(r) \/ approve_harness_review(r) \/ ApplyLoads(r)
       \/ WatcherIsContent(r) \/ revert_activation(r) \/ _restore_from_snapshot(r)

-----------------------------------------------------------------------------
Same(c, d) == c.model = d.model /\ c.budget = d.budget

(* What the ledger and the cache say of the configuration: an applied      *)
(* review has the row a revert needs, and the server answers from an older *)
(* file only after another process saved or when it was reading meanwhile. *)
ConfigKnown ==
  /\ \A r \in Review : review[r].status = "applied" => activation[r].previous # {}
  /\ "cache" \notin overtaken => cached \subseteq {file}

(* An application or a tuning that nobody overtook changes what it is      *)
(* about and nothing else, and a revert that nobody overtook takes back    *)
(* exactly what its review changed.                                        *)
OnlyWhatWasReviewed ==
  /\ apply.pc = "save" /\ apply'.pc = "activate" /\ apply.review \notin overtaken =>
       \E x \in review[apply.review].snapshot :
         Same(file', _apply_snapshot_to_config(file, x)) /\ file'.version > file.version
  /\ tuner.pc = "save" /\ tuner'.pc = "idle" /\ "tuner" \notin overtaken =>
       file'.version > file.version /\ (file'.model = file.model \/ file'.budget = file.budget)
  /\ \A r \in Review :
       watch[r].pc = "restore" /\ watch'[r].pc = "idle" /\ saves' # saves /\ r \notin overtaken =>
         \E x \in review[r].snapshot : Same(file, _apply_snapshot_to_config(file', x))
=============================================================================
