# Agentic Board: TLA+ models, checks and proofs

Agentic Board is a FastAPI application in which a board of LLM members
deliberates on a question, delegates tasks to execution agents, keeps a state of
the business (SOTB) memory, and screens, validates and promotes opportunities.
Everything is stored in one SQLite database and a tree of JSON and markdown
files. Several processes work on that store: the API server, the command line
and the always-on scheduler. This directory holds TLA+ models of the parts where
order, failure and concurrency decide whether the program is right, the TLC runs
that check them and TLAPS proofs of what matters most.

## 1. Inventory

Paths are relative to `server/`.

| component | state it keeps | operations | what is hard |
|---|---|---|---|
| delegated task store `execution/tasks.py` | `delegated_tasks` rows | record, approve, approve external action, plan, set status, attach | load and save are separate connections with the hook gate between them; several processes |
| task runner `execution/runner.py` | local to `run_task`; writes rows and artifact files | plan, sub-agents in chunks, attach, synthesise, complete, block | awaits between decisions and writes, denials, exceptions, two runs of one task, budgets |
| scheduler `execution/scheduler.py` | `task_runs` rows | tick, gates, run_forever | stale clock and task list, several schedulers, kills |
| hooks `harness/hooks`, `harness/ledger.py` | `hook_events` rows | pre-hooks, counting hooks, recording | count and insert in separate transactions |
| web search `execution/web_search.py`, `search_cache.py` | buckets per session, cache files | gate, cache, bucket, provider | per-process buckets, await before recording |
| evidence, units `execution/evidence.py`, `units.py` | append-only files, static data | record, read | nothing concurrent |
| SOTB memory `memory/*.py` | index file, markdown files, snapshots | apply, verify freshness, consolidate, finalize, roll back | a judge is awaited between read and write; two files per write; crashes |
| ventures `ventures/store.py` | `ventures` rows | create, update, archive | read, merge and write apart |
| initiatives `initiatives/store.py` | `initiatives`, links and closeout rows | create, update, activate, link, close | load and save of a row in separate connections |
| configuration, reviews, tuning `harness/config.py`, `reviews.py`, `tuning.py` | configuration file (cached), review records, activation snapshots | propose, approve, apply, activate, revert | cached configuration, approvals older than the configuration |
| LLM access `board/llm.py` | none | query, fall back, stream | retries, partial streams |
| tools `board/tools.py`, `mcp_client.py` | tool budget of a turn | execute | tool calls gathered in parallel on one budget |
| deliberation `board/deliberation/*` | the session | four stages with quorum, verification, synthesis, save, record the plan | members that fail or time out |
| live meetings `board/deliberation/live.py`, `followup.py`, `api/routes/board.py` | the meeting's file, the event queue of a request, the follow-up buffer | open, continue, adjourn, stream messages and events, follow up | a round is held on a copy; producer and client at different speeds; a stream that breaks midway |
| rebuttals `board/deliberation/auto_promote.py` | the transcript | chair and two members in turn, validate, summarize | order of turns, failing calls |
| discovery `discovery/*` | candidates, index, scan reports | import, update, transition, review, start a board, promote | several files per operation, await between read and save |
| experiments `experiments/*` | `validation_experiments` rows | create selected, transition, publish | capacity read before insert; a chain of stores |
| API, CLI, channels, profiles, UI, evals, scripts | none of their own | call the components above | none of their own |

Interactions. A deliberation ends by saving its session file and recording its
delegation plan in the task store. API clients approve, plan and update tasks.
`POST /run` and the scheduler call `run_task`, which writes through the same task
store; every store operation passes the pre-hooks of the tool `delegated_task`,
whose verdicts are rows of the ledger. Agents of a run reach the LLM access and
the tools, `web_search` among them, which has a hook gate of its own. A portfolio
review selects candidates and experiments are created for them in their own
ventures and initiatives. Closing an initiative proposes a memory entry, which
the memory component applies after approval.

What makes each component correct:

* task store: no operation on a row is lost inside one process, except to a later
  deliberation of the same session; a runnable status is reached only by a request
  that asked for it.
* runner: work starts only on approved and externally cleared tasks; every run
  ends; budgets bound each agent; a completed run has nothing left running.
* scheduler: budget, cooldown, concurrency and dependencies hold for the runs it
  records; an approved task is fired eventually.
* hooks: the limit of a window is never passed by more than the processes racing
  for it.
* memory: markdown and index agree at rest; a rollback restores what a snapshot
  captured; an entry is never superseded by a stale verdict.
* initiatives: a closed initiative stays closed and has its closeout record.
* reviews: what is applied is what was approved; a revert restores what was
  active.
* discovery, experiments: a review is applied to all its candidates or none; the
  number of active experiments stays within the capacity.
* deliberation: a session that is saved had its quorum in every stage.
* member turn: of the calls it offers, less than one batch passes its budget; a verdict
  of record is backed by its sources, or is a quotation of the claim.
* live meetings: the file tells one consistent story; a message shows one attempt
  of each part; a client sees every event once, in order, and the stream ends.
* web search: a session reaches providers no more often than its limit allows.
* promotion: a promotion and a session name a venture and evidence that exist.

## 2. Plan

Done, in this order: the task store and its runner (`TaskRows`, `TaskStore`,
`DelegatedTasks`), the scheduler (`TaskScheduler`), hooks and agent loops (`HookGate`,
`AgentRun`), the portfolio (`PortfolioReview`), each with its proofs;
then the providers, tools and turns of a member (`LlmAccess`, `BoardTools`,
`MemberTurn`), streamed messages and live research (`MessageStream`, `LiveResearch`),
the board session (`BoardJudges`, `LiveRebuttal`, `Deliberation`, `LiveMeeting`,
`BoardStream`), and what is stored around it (`SotbMemory`, `Initiatives`,
`BoardStart`, `HarnessReviews`, `WebSearch`); then the proofs of the whole runs
`board`, `turns` and `hooks`, of the refinement of `TaskStore` and the decisions of
the portfolio.

Composition. `Deliberation` holds `BoardJudges` and runs `LiveRebuttal` inside its
own steps; `MemberTurn` and `MessageStream` make their calls through `LlmAccess`, the
turn also through `BoardTools`; `DelegatedTasks` implements the abstract `TaskStore`
(`Store == INSTANCE TaskStore WITH row <- row`, checked as `RefinesStore`). Modules
that share no state are checked in one run (`MCTurns`, `MCBoard`, `MCHookGate`): a
variable `focus`, chosen at the start, says which of them a behaviour follows, so
that the run explores the sum of their state spaces and not the product.

Left for later, in order of worth: the links of an initiative; the finalized snapshots
of the memory.

## 3. Modules

### TaskRows, TaskStore, DelegatedTasks

`TaskRows` holds the payload of a row (status, subtask plan, the two external
action flags, artifacts) and what each operation makes of it. `TaskStore` is the
abstract specification: each operation happens at one instant on the current row.
`DelegatedTasks` is the detailed one. Its actions and the code:

| actions | code |
|---|---|
| `BoardSavesSession`, `BoardDropsPlan` | end of `BoardOrchestrator.deliberate`, with a plan and without: `session.save`, `record_delegation_plan` |
| `ClientGetsPlan` | `GET /sessions/{id}/delegation-plan` |
| `ClientApproves`, `ClientApprovesExternal`, `ClientPlans`, `ClientSetsStatus`, `ClientAttaches` | the routes of `api/routes/execution.py` and the functions of `tasks.py` they call, up to the hook gate |
| `ClientSaves`, `ClientDenied` | the rest of the operation: gate passed and row replaced, or `HookDeniedError` |
| `StartRun` | `run_task` up to the planning step: not found, skipped, external refusal |
| `RunPlanLoads/Refused/Saves`, `RunReloads` | planning, reading the row back, starting the sub-agents |
| `RunSubagentsReturn`, `RunAttach...`, `RunSynthesises`, `RunSynthesisReturns`, `RunComplete...` | the rest of the run, split at each await and each connection |
| `RunDenied`, `RunRaises`, `RunBlock...` | denials, exceptions, `_block` and the exception handler |
| `Crash` | a process dies: handlers and runs vanish, the database stays |

`holder[p]` says who occupies the event loop of process `p`: a request handler or a
run keeps it from one await to the next, since the store operations are
synchronous (the gate itself runs in a thread the loop waits for).
`inflight[p]` is the operation that has loaded its row and not saved it. Other
processes interleave freely between the two. `granted` is a history variable: the
tasks for which some request asked for `approved` and was saved.

A session id is the client's (`schemas.py:12`) or made of the second, so a deliberation
may end under the id of an earlier one: its plan replaces the rows there are, approved
ones included (`tasks.py:355`), and a plan without tasks leaves them. `TaskStore`
promises that this is the only way a row starts over: `Record` takes a plan that is
`due`, one whose deliberation has just ended and not been denied, or finds no row.
`granted` is by task id: an approval of the row that was replaced counts for the row that
took its place, whose status is `proposed` again until somebody asks.

Left out: titles, objectives, agents, timestamps, evidence; requests that name a
wrong manager (an error that changes nothing); one task id in the plans of two
sessions, since the chair's schema has no id and the default id contains the
session's.

### TaskScheduler

One process of `run_forever` per element of `Sched`. A tick lists the approved
tasks once, reads its clock once, and considers the tasks in `created_at` order:
`TaskSkipped`, or `TaskPasses` (dependencies, the tick's own count, and
`evaluate_gates`), then `RecordsStart`, `RunBegins`, `RunReturns`,
`RecordsFinish`, each a separate connection. `run_task` is seen from outside: it
skips, blocks, keeps or moves the status. `Killed` leaves the row of `task_runs`
open, `Interrupted` (Ctrl-C) closes it. Time is kept as the age of each run and
the lag of each tick's clock, capped where no gate distinguishes further.

### HookGate

The gate of one session and tool: `HookCounts` (the bundled hook counts the
window), `OtherHookDenies`, `Records` (the verdict is inserted), `Dies` between the
two, `TimePasses`.

### AgentRun

Inside `run_task`: chunks of sub-agents under `asyncio.gather` and the manager's
synthesis, each an instance of `_run_agent_loop` with its turn, tool-call and wall
limits. A failed gather leaves the siblings of its chunk running, as asyncio does.

### PortfolioReview

The command `review-portfolio`, run by any number of processes over the
candidates of one week:

| actions | code |
|---|---|
| `Lists`, `Loads` | `PortfolioReviewService.review` up to the board: eligible candidates, their number, the recorded review |
| `BoardAnswers`, `Rejected` | the two attempts of `review`, `_invoke`, `validate_against` |
| `Checks`, `Applies`, `ApplyFails`, `Undoes` | `_apply_atomically`: read all, write one by one, restore what was written |
| `Records`, `RecordsFailure` | the review file |
| `Creates`, `CreatesInitiative`, `Activates`, `Inserts`, `Marks` | `ExperimentService.create_selected` and `_create_one`, one step per store |
| `Stops` | a kill or an error anywhere |
| `Imports` | `import_report`, a candidate at a time |
| `Edits`, `Writes`, `StartsBoard` | the founder's commands: `dispose`, `restore`, `shortlist`, `legacy-promote`, `legacy-start-board` |
| `InitiativeActivates`, `InitiativeCloses`, `ExperimentEnds` | the API on initiatives, the decision on an experiment |

`cmd[p]` is where process `p` is in the command: the review it works on, the
selection, the decisions left, the candidates as the check read them, the capacity
it read. A review id is a digest of week and candidates, so it is kept as that set.
The result of the board carries a review id and a session id of its own, which nobody
compares with the request's: experiments and initiatives are keyed by what it says
(`outcome.as`, `outcome.by`). It also carries `unfit`, the selections which
`ValidationExperiment` refuses although `PortfolioDecision` accepts them: `Inserts` then
ends the command, after the venture and the initiative were made, and every repetition
ends there again.

Each operation that the command makes on a store is one step. A command of the founder
reads a candidate (`Edits`) and writes the file whole later (`Writes`), whatever was
decided in between, and none looks at what a review has decided: `shortlist` makes a
reviewed candidate ready again, `legacy-promote` a ready one reviewed without a review.
What `Writes` may leave behind is a superset of what `legacy-promote` accepts: its
checks on evidence and ventures are those of `BoardStart`. Two operations that race
inside one table are left to the modules of those stores. Titles, labels, ranks and
rationales are abstracted, experiments are open or over.

History variables: `applied` (reviews whose decisions were all written), `torn` (a
command was killed while it wrote or restored them, or an index could not be
rebuilt after its file was replaced), `overlap` (two `review-portfolio` commands have
been under way at once), `steered` (candidates whose `discovery_status` a command of the
founder has changed).

### LlmAccess, BoardTools, MemberTurn

`LlmAccess` is one call of `query_llm`: `LlmCall` builds the list of providers
(primary, free fallbacks, paid last resort), `LlmStep` works through it, with what
each handler makes of a response: an answer, a retry, a failure that moves on to the
next provider, or an exception that leaves `query_llm` at once. `BoardTools` gives
the results a tool can have; `validate_claim` downgrades a SUPPORTED verdict whose
sources fall short of `passes_authority_threshold`. A result has a summary and a text.
The text begins with the claim in its own words, so it holds the verdicts that the claim
quotes as well as the judge's; the record takes the verdict of the summary, and that of
the text where the summary is none (an empty search, a judge that failed).

`MemberTurn` is `agentic_member_turn`: `TurnAsks` (filter the tools by what the budget
still allows, tell the member to write up when none are left), `ToolsCalled`,
`ToolsCalledUnasked`, `ToolStarts`, `ToolReturns` (one browser at a time),
`BatchRecorded` (spend, count forced revisions, keep a record), `TurnCompletes`,
`TurnAborts`, `TurnRaises`. Nothing compares the calls of a response with the tools it
was offered: a tool past its cap, or one never offered, runs and is charged like any
other, and a name nobody registered is charged for an error (`ToolsCalledUnasked`).
`offered` is a history variable: those charges whose tool was on offer.

### MessageStream, LiveResearch

`MessageStream` is one streamed message: the worker thread of
`_stream_openai_compatible` and its queue, the fallback to a whole answer that is
streamed by simulation, and the two readers of the chunks, a member's message with
its continuations and the secretary's brief. Text is kept as the sequence of the
attempts its deltas came from. `LiveResearch` is `run_live_research`: intake, the
gathered first round, the brief, and the rounds of follow-ups that a user types
meanwhile.

### Deliberation, BoardJudges, LiveRebuttal

`Deliberation` is `BoardOrchestrator.deliberate`; its actions carry the names of the
methods:

| actions | code |
|---|---|
| `deliberate`, `Classified`, `run_secretary_shortcut`, `stage0_intake` | the call, selection and routing, the shortcut, the pause for clarification |
| `Asks`, `_query_member`, `stage1`, `_atomize_stage1`, `stage2` | the two gathered stages with their quorums, atomizer and contradiction judge |
| `Promote`, `run_live_rebuttal`, `RebuttalTurn`, `RebuttalRecorded`, `RebuttalsOver` | disagreement score, the pairs, the rebuttals one after the other |
| `stage3`, `VerifySynthesis`, `ReviseSynthesis`, `ReverifySynthesis` | synthesis, verification, the one revision |
| `stage4_secretary_brief`, `_metadata_for_decision`, `build_delegation_plan`, `RepairPlan` | brief, decision, delegation plan and its one repair |
| `SaveSession`, `record_delegation_plan`, `_record_to_ledger`, `Killed` | what is stored, and the end of the process |

Texts are versions: a synthesis is number 1 or its revision number 2, and whatever is
made of it carries that number; `Deferral` is the decision of a session that waits for
clarification, a fixed text saved without any stage behind it. `BoardJudges` holds the pure parts (which
contradictions may be found in which claims, `compute_disagreement`,
`pick_top_pairs`, what a verifier may say). `pick_top_pairs` sorts the findings and
takes the first of each pair; the model states the same list without the sort, as one
in which each finding comes before all that are left when it is taken. `LiveRebuttal` is the dialogue of the
chair with two members.

### LiveMeeting, BoardStream

`LiveMeeting` is `LiveBoardConversation.discuss` and the routes that open, continue
and adjourn a meeting. `call[r].held` is the copy a request works on, `late` says that
the file was written by someone else since it was read. `OpenMeeting` never looks at the
file: the id of a meeting is the client's or the second's, and a new meeting is saved
over one that has it, running or adjourned. Such a request is late from the start.
`BoardStream` is the
generator behind the streaming routes with its queue, keepalives, drain and end.

### SotbMemory

One venture's memory: the markdown `md` and the index (`{}` while there is no file),
the snapshots, and the update, consolidation and rollback under way, file by file.

| actions | code |
|---|---|
| `read_sotb_governed` | read with reconciliation: orphans dropped, rows made for new bullets |
| `UpdateReads`, `UpdateStarts`, `UpdateWritesMarkdown`, `UpdateWritesIndex` | `apply_sotb_update_governed` before and after the judge |
| `ConsolidateStarts`, `ConsolidateReads`, `ConsolidateWritesMarkdown`, `ConsolidateWritesIndex` | `consolidate_sotb`, in the server or as a command: the snapshot, the read, and after the judge each file |
| `RollbackWritesMarkdown`, `RollbackWritesIndex` | `rollback_to` |
| `update_sotb`, `DayPasses`, `ServerDies`, `CommandDies` | `PUT /memory/sotb`, expiry, crashes |

### Initiatives

One initiative and its closeout. Every function opens a connection for each thing it
does, and every connection first migrates the schema, statement by statement:
`CreatesTables`, `Recovers`, `ChecksColumn`, `Renames`, `CreatesNullable`, `Copies`;
then `FindsAbsent`/`Inserts`, `Loads`/`_save_initiative`, `close_initiative`. `Stops` is
an exception, a refusal or a kill at any of them. `PortfolioReview` uses initiatives
too and takes each store operation as one step; this module opens them up.

### BoardStart

`promote_candidate` (`ChoosesVenture`, `create_evidence_packet`, `SavesPromotion`),
`start_board` (`SavesAttempt`, `Deliberates`, `SavesSession`,
`record_discovery_provenance`, `SavesCompleted`, `SavesFailed`) and the decisions of
the founder, by any number of processes on one candidate. The commands read their
copy of the candidate once; the checks that follow without an await are taken with
the read. The row of a session in the ledger (`recorded`) may be missing, since a failed
insert is only logged (`orchestrator.py:2177`); its provenance is then an update of no
row, and the attempt is completed all the same.

### HarnessReviews

The configuration file with its version, the server's `lru_cache` (`GetConfigReads`,
`GetConfigKeeps`), the reviews (`run_harness_review`, `approve_harness_review`,
`ApplyLoads`, `ApplySaves`, `ApplyRefused`, `snapshot_activation`, `ApplyMarks`), the
watcher (`WatcherIsContent`, `revert_activation`, `_restore_from_snapshot`), the tuning
command in a process of its own, recorded sessions and the end of the server.

### WebSearch

`web_search` as its callers interleave in one event loop: gate (`Passes`,
`TurnedAway`), cache (`Hits`), bucket (`Refused`, `Charged`), provider (`Answered`,
`Fails`). `asked` is a history variable: when a session's calls reached a provider.

History variables of these modules: `late`, `torn`, `stale`, `outdated`, `overtaken`
(whose copy somebody else has replaced since it was read, or whose writes somebody
interrupted), `last` (the newest closeout), `asked`, `fate` (what became of a
follow-up). They guard the action properties: the code does not lock, so what a
property promises is what an operation does that nobody overtook, and what no
interleaving may do at all.

Definitions marked "Slip" are plausible mistakes in the definition below them.
No specification uses them; each property is shown to fail when one of them takes
the place of the definition (`PROJECT.json`, "mutants").

## 4. Runs

| run | shows | instance and why it is enough |
|---|---|---|
| `tasks_two_processes` | approval gate across processes | one task, API server and a second process with one run each, one subtask; a lost update needs two processes and one row |
| `tasks_one_process` | types, cleared start, atomic store, every run ends | one task, two runs and all requests in one process, deliberations that end under the same id again and again, plans with an external action and without, one subtask (two iterate the attach loop: `tasks_planner_status`) |
| `tasks_planner_status` | violation: a chair's JSON with `"status": "approved"` gets work done without an approval | as above with two possible planner statuses |
| `scheduler_one` | types, cooldown, dependencies, eventual firing | two tasks of one venture, one depending on the other; budget 2 a day of one unit, cooldown 1, a tick of at most one unit, one death that keeps one of two slots |
| `scheduler_two` | concurrency, budget with two schedulers | budget 1 and concurrency 1, one death, three rows: one more than the bound allows |
| `scheduler_double_fire` | violation: two schedulers work on the same task | no deaths |
| `agents` | parallelism and budgets (`AgentBounds`), quiet completion, every loop ends | three subtasks in chunks of two, two turns, three tool calls, batches of two |
| `portfolio_one` | capacity, all-or-none, grounded experiments, one experiment per selected candidate, repetition as recovery | two candidates, reviews of one or two, capacity 2: reviews of a week share it, a review has a second selection and a candidate may be reviewed again; one kill or failed write, one command of the founder (`MaxEdits`), answers under the id of another batch (`Misnamed`), one candidate whose selection may be refused (`Refusable`) |
| `portfolio_two` | capacity with two overlapping commands | two candidates, reviews of one, capacity 1, two sessions, any selection may be refused; no command of the founder (they are in `portfolio_one`, and in the proofs without a bound): two commands with one or two reviews use the same capacity |
| `turns` | budgets of a turn, backed verdicts, unmixed messages, follow-ups, everything ends | all keys set, so that every fallback exists and each may fail; one member model that calls tools it was not offered, any of them in one response (`MaxUnasked`: enough to pass a budget that is spent, or one of none) and an unregistered name in every later one; one forced revision, where the default is two; claims that quote SUPPORTED or nothing (`Quoted`); batches of two against budgets of none and of several calls; two deltas, so that a stream breaks before, between and after them; one continuation; three follow-ups over two rounds, so that some come too late |
| `board` | a saved decision and what it rests on, rebuttals, the meeting's file, the stream, everything ends | three members, one suppressed by routing and one that gates, quorums 3 and 2 (one failure is fatal in stage 1 and not in stage 2), two topics, two pairs; two requests on one meeting, of which one opens it, and opens it again, at any time (`Opener`), rounds of two turns, two continuations; three events |
| `hooks` | the rate bounds of gate and search; what memory, initiatives, candidates and reviews keep | gate: limit 2, two processes, five rows (the bound is 3). Search: two callers, one session, limit 2, cache of 2, four keys, one of an unknown provider. Memory: three bullets of which two say the same, two operations, expiry after one of two days. Initiative: two writers, two sources, four operations: a migration left by one is met by the next. Start: two commands at a time, three in all, two ventures. Harness: two reviews, two models, two budgets, three saves, one session watched; the cache is followed with one review |

The largest is `portfolio_two` with 2.9 million distinct states; `tasks_two_processes` has
2.1 million, `portfolio_one` 1.6 million, `hooks`, `turns` and `board` about 700 000 each.

Symmetry is used only for sets whose elements the specification and the properties
treat alike (rows of `task_runs`, rows of the ledger, the processes of the gate, which are also the callers, writers and commands of `hooks`, reviews, models, budgets, candidates) and
never in a run with a liveness property. The specifications of `AgentRun`,
`MCTurns` and `MCBoard` stop when what they follow is over, a week of `PortfolioReview`
may end with nothing to review and no completed review to go on with, and the
components of `MCHookGate` stop when their bounds are used up, so these runs do not
check for deadlock; all others do.

Fairness. `DelegatedTasks`: strong fairness of a run's steps, because asyncio
queues ready callbacks first-in first-out, so a run whose await has returned is
resumed although handlers occupy the loop again and again in between, and because
requests to providers are assumed to return (see below); weak fairness of the end of a
handler that holds the loop. Nothing is assumed about clients or crashes. `TaskScheduler`: weak fairness
of each poll loop and of time; eventual firing is claimed only once clients stay
quiet, and without runs that leave their task approved (`RunMayKeepStatus`), since
such a task really is fired again on every tick and uses up its venture's budget.
`AgentRun`: weak fairness of each loop and of the run. `PortfolioReview`: a command
that has begun goes on, the founder repeats it as long as it can do something, and
experiments are decided (day 14 at the latest).
`MCTurns`: weak fairness of the turn, of the message and of the research, because the
event loop runs what is ready and requests to providers are assumed to return; nothing
has to send another delta, type a follow-up or run the wall clock out.
`MCBoard`: weak fairness of the deliberation, of one followed request of the meeting
(the other may stall where it likes) and of the stream with the task behind it; no
request, hang-up, cancellation or kill has to happen. `BoardEnds` and `TurnsEnd` need
nothing more: retries, fallbacks, tool loops, continuations, rounds and the one
revision are bounded by the code itself. `MCHookGate` states no fairness: its
properties are about safety.

That a request to a provider returns, with an answer or an error, is an assumption about
the environment on which `RunsEnd`, `AgentsEnd`, `TurnsEnd` and `BoardEnds` rest. Most
senders of `board/llm.py` pass the caller's timeout to their client, which makes it true;
the Gemini sender (`llm.py:634-750`) takes the argument and does not use it, so there it
rests on the defaults of the client library.

What the portfolio properties leave out, because the code does otherwise.
`AllOrNone` holds while nothing is `torn`: there is no recovery from a kill in the
middle of the writes, and a candidate whose file was replaced before its index
failed is not restored, although
`docs/architecture/opportunity-validation-user-experience.html:433` says that all
written candidates are. It speaks of the candidates whose status no command of the
founder has changed (`steered`): a shortlist makes a reviewed candidate ready again, a
promotion a ready one reviewed, and a command that read the file before the review
writes it back over the decision. A kill between the last decision and the review file leaves
reviewed candidates without a review. `SelectedGetExperiments` assumes one
completed review in the week, since only the last one by digest is taken up again;
no eligible candidate left, since a candidate that is restored or imported later
makes the command ask for five again; no initiative closed before its
experiment exists; and a review without a selection that `ValidationExperiment` refuses,
since such a one ends every repetition of the command, with those ranked behind it.
`ExperimentDecided` assumes that commands do not overlap: an
overlapping one may record a completed review as failed; and that a candidate has one
experiment it claims only of those the founder did not make ready again, since a
candidate that is reviewed twice is selected twice. `CapacityBound` is
`maximum_active` without overlap and that per process with it, although
`design/2026-07-12-opportunity-to-validation-operating-system-plan.md:148` says
"never more than configured max 5 active".

Behaviour the models record that a reader may not expect: a run writes the default
subtask plan over a plan a client stored; a run that completes overwrites any
status set while it worked; the update in the exception handler is subject to the
gate and may be lost; a loop may make `max_turns + 1` model calls, the last without
tools; a loop that a budget cut short still completes its task; denied calls count
in the window of the counting hooks.

What the code does otherwise than its documents or a reader may expect, found while
the modules of the board and its records were written. The properties are stated so
that they hold with it.

* Memory. The index is appended without looking for the entry in it, so an entry that
  is affirmed again while its older row has expired stays hidden, and the next
  consolidation removes it with both rows. Retired entries share the words
  "superseded" and a date and are merged with each other in Resolved. The markdown is
  written in place; a crash may leave it empty, and an empty markdown is taken for "no
  signal" about the index. A consolidation command takes its snapshot before it reads,
  without the server's event loop: what is written between the two may be removed and
  is not in the snapshot (`ConsolidationAccounts` excuses that case).
  `apply_sotb_update_governed` has no caller outside the tests.
* Initiatives. A writer that loaded a row before it was closed reopens it when it
  saves (`ClosedStays` lets only such a writer do so).
* Reviews. An approval freezes the report of a new run of the tuners, not the one that
  was shown. The docstring at `harness/reviews.py:263` says that the other tuners
  report no changes; they do, and applying ignores them. A review applied again after
  a crash records the configuration it had already changed as the one to go back to.
  A version number can occur twice after a revert. Reverting a review after a later
  one was applied takes that one's changes back too and leaves it active. A read of
  the configuration that is under way when the cache is cleared puts the older file
  back into it.
* Tasks. A deliberation under the id of an earlier one takes approved rows of the same
  task ids back to `proposed`, and leaves the rows of tasks it no longer names.
* Portfolio. Nobody compares the review id and the session id of the board's answer with
  those of the request. An answer under the id of another review finds that one's
  experiments and initiatives, and is refused where their sessions differ.
* Promotion. A completed attempt may have no row in the ledger. `board_session_id` is never filled in: `board_start.py:72` uses
  `setdefault` where the key exists with `None`. After a crash between the creation of
  a new venture and the saved promotion a retry with the same name is refused.
  Shortlisting a promoted candidate leaves it neither promotable nor startable.
* Search. A failed search is an empty answer and is cached as one; a call with an
  unknown provider is charged.
* Turns. A tool runs whether or not it was offered, past its cap too, until the iterations
  are used up (`MAX_ITERS`); such calls are charged afterwards and refused never. A claim
  that quotes `VERDICT: SUPPORTED` is recorded as supported when nothing was found about
  it or the judge failed (`orchestrator.py:181`, `:220`); `SupportedIsBacked` excepts
  exactly that.
* Board. A request with the id of a meeting that exists starts a new one over its file. A
  council of unlisted members is never heard in a meeting; a council of none
  becomes the full roster when the meeting is continued. A follow-up that asks for a
  brief replaces the meeting's file. Of two requests that continue a meeting at once,
  one round is lost, and a meeting adjourned during a round is open again when the
  round is saved. `pick_top_pairs` with `max_pairs = 0` gives one pair. A batch of tool
  calls is checked against the budget before any of it is spent. A deliberation whose
  brief or plan cannot be asked for raises before anything is saved. A streamed brief
  whose native stream broke shows both attempts until its last event.

## 5. Proofs

TLAPS checks, for every value of the constants:

* `DelegatedTasks_proofs`: `TypeCorrect`; `ApprovalInvariant` and `ApprovalGate`.
  `ApprovalBeforeWork` is not inductive: it speaks of runs only. `ApprovalInv` adds
  the table (a runnable row has a grant), the operations in flight (a held row that
  is runnable is granted or asks for the grant itself), session files (never
  runnable) and runs that have passed `StartRun`. The assumption `NoPreapproval`
  (the chair's JSON carries no runnable status) is what `tasks_planner_status` shows
  to be necessary.
  For one process (`OneProcess`): `StoreRefined`, that the detailed store implements
  `TaskStore` (with `due`, the tasks whose plan a deliberation still holds), and `StartsCleared`. Both need `AtomicInv`: only who has the event loop
  holds an operation (`HeldInLoop`, `RunsHoldLoop`), so the row an operation was
  computed from is still the row in the table when it is saved (`HeldCurrent`), and a
  run that plans does so on a row that is still startable (`PlansStartable`). A save
  is then one step of the abstract store and every other step a stutter.
* `TaskScheduler_proofs`: `TypeCorrect` with `OwnRun` (an open row that is being
  fired has one owner), `ConcurrencyLimit`, `BudgetLimit`, `CooldownLimit` (one
  scheduler), `DependencyOrder`. The bounds are inductive once a scheduler between
  the gates and the insert counts as a row (`ConcurrencyInv`, `BudgetInv`); the
  cooldown needs `CooldownInv`, that nothing recent appears between the gates and
  the insert.
* `PortfolioReview_proofs`: `TypeCorrect` with `CommandInv` (a command that makes an
  experiment makes one and has capacity for it; without overlap at most one command
  is under way), `CapacityLimit`, `ActiveLimit`, `Grounded`. The number of open experiments is
  not inductive by itself: `CapacityReserved` adds to it what each command has read
  of the capacity and not used yet, as a set of slots `Reserved` of which every
  insert removes one. `ExperimentGrounded` needs `GroundedInv`: what a command has
  made when it comes to the insert. `WholeReviews` and `OneExperiment` follow from
  `DecidedInv`, which says, while no commands overlap, what the one command under way
  knows (`Decided`): that what it writes on was ready and, unless steered, belongs to no completed
  review, which candidates it has written and not restored, and that what it makes
  experiments for was selected by a completed review. Completed reviews share steered candidates only,
  so an experiment that is there for any other candidate came from the same result, and
  the command would not make it again.
* `AgentRun_proofs`: `TypeCorrect`, `AgentLimits`, `QuietCompletion`. `AgentBounds`
  counts the active loops, which is not inductive: `PhaseInv` says that what is active
  is of the chunk, or is the synthesis once every sub-agent has returned, and bounds
  the chunk. `BudgetInv` adds that a call which is not terminal was made below both
  caps, since the caps are read before the call and spent after it.
* `MCHookGate_proofs`, about the run `hooks`: `RateLimitHolds`, by the weighing of the
  scheduler's bounds (`RateInv`); `CloseoutSurvives` and `ClosedInitiativeStays`.
  `TablesInv`: a table that is absent holds no rows, so while a migration renames,
  copies and drops, the newest closeout is in one of two tables. `RowInv`: a row that a
  writer has loaded was open, or the writer is known to be outdated; `ClosedStays`
  excuses only those.
  `PromotionsGrounded`, `CandidateKept`: `StartGrounded` speaks of the saved candidate,
  but every command holds a copy which it will save. `StartInv` says that each copy,
  however old, fits what the stores hold (`Fits`), that a command has made what it is
  about to name (`Made`), and that its number is its own (`Sound`).
  `SearchesBounded`: `SearchBound` counts what was asked of providers within a window,
  the code counts the entries of a bucket, and pops them from the left while they are
  old. `ChargeInv` relates the two, for every moment of the window: no more was asked
  since than is charged since, and no more is charged since than the limit; what is
  popped is older than all of these moments. A call makes at most one packet
  (`PacketsInv`), and no two entries of the cache share a key or a packet (`StoreInv`).
  `ReviewsHold`: `ApplyInv`, `TunerInv` and `CacheInv` say that a copy of the
  configuration that nobody overtook is still the file (the tuner's but for one part at
  most), and `WatchInv` that, while a review stands, the file is what the
  review makes of the copy that reverting it restores. Two holders of a copy cannot
  both save it in time: whoever saves overtakes the rest (`SaveOvertakes`).
  `MemoryKeeps`: `MemoryInv` says what each operation knows of the files between its
  steps. Nobody else writes from the first write of a coroutine to its last
  (`LoopKept`); an update that was not overtaken has a row for every bullet
  (`UpdateInv`); what a consolidation read is in its snapshot, and has a row or is swept
  away (`ConsolidateInv`). What becomes of the rows is a fold over them, written as a
  recursive function of their number. `Recursion` shows that such a function is what its
  definition says, by a least counterexample (`Counting`) and not by the library's
  induction, which takes an operator; from it come what `Picked` picks (`PickedOf`) and
  that whatever a row tells is told after a consolidation, by the row, its Resolved form
  or one that says the same (`ConsolidatedTells`). That holds because whether two
  entries say the same depends on their texts alone and not on the section, which
  retiring a row changes.
  `RecordsHold`, the property `RecordsKept`: a step of the composition is a step of one
  of the modules and a stutter of the others (`PartsFollow`).
* `MCTurns_proofs`, about the run `turns`: `TypesHold`, `BudgetsHold`,
  `VerdictsBacked`, `MessagesUnmixed`, `FollowupsAnswered`. `LlmInv`: a request that is
  about to be sent has not used up its retries, which is why the counters stay in their
  ranges. `TurnInv`: what was offered was compared with the budget before any of the batch was
  spent, and the budget does not change while its calls are out, so charging those of
  them that were on offer passes it by less than a batch (`CalledStep`); every iteration
  charges a batch at most, offered or not (`RoundsCharged`). The charged calls are counted
  by their places in the batch. A turn that goes on with its budget spent has
  been told to write up (`ToldInTime`), and every result that is recorded as supported
  is backed or, unjudged, quotes that verdict from its claim (`ResultsBacked`). `MessageInv`: what is collected of the part under way is of
  one attempt (`PartUnderWay`), and what the parts before it left is of one attempt each
  (`Settled`). `ResearchInv`: the queue and the batch taken from it hold exactly the
  follow-ups whose fate says so, each once (`Holds`), and a research past its rounds has
  briefed the version it has.
* `LiveMeeting_proofs`: `MeetingInv` and its steps. The file is at every moment a whole
  meeting (`Whole`): all its rounds are over, the one last begun included. A request
  works on a copy of it, with one round under way (`UnderWay`), and writes it when that
  round is over. A copy that nobody overtook begins with what the file says
  (`CopyFollows`), so writing it loses nothing. An overtaken copy is a whole meeting
  too, which is why the file stays consistent although a round is lost. Rounds are
  counted with cardinalities of sets of lines; `LogGrows` and its corollaries say what
  one more line does to each of them.
* `MCBoard_proofs`, about the run `board`: `TypesHold`, `StreamInOrder`,
  `DecisionsGrounded`, `RebuttalsHold`, `MeetingsKept`.
  `StreamInv`: while the generator runs, what was sent and what is queued are together
  what the task has put; the end of the stream is reached only when the task is done
  and the queue empty. `RebuttalInv`: who spoke last in each state of the dialogue.
  `DeliberationInv`: the quorum that each stage leaves behind (`StagesHeard`), the one
  version of the synthesis that brief, decision and plan are made of at each point
  (`OfOneText`), that pairs are of members who were heard (`FoundAmongHeard`), and that
  the file is written once, before the rows that refer to it (`FileWritten`). The cap
  on the pairs and that none comes twice are lemmas about `pick_top_pairs`.

The assumptions on the constants (named `...Assumption` in the module that declares
them) are evaluated by TLC in the runs. `MeetingAssumption` asks that the board is a
finite set of member ids and that no member is called "user" or "decision", the two
speakers of a log who are no members: the roster is read from the files in
`members/`, and the code keeps what the owner says, what members say and the decision
in records of their own kinds, which the log of the model tells apart by these names.
`ReviewsAssumption` asks in the same way that no review has the name of another holder
of a copy of the configuration (`"tuner"`, `"reader"`, `"cache"`, names of the model).
`TurnAssumption` asks for a finite registry of tools, a name outside it for a call of a
tool that is not registered, and at least one council and one mode; `ResearchAssumption`
for a finite set of seats; `SearchAssumption` for at least one session and one key.

The proof of `MeetingsKept` found a mistake in the model: `route_next_speaker` was
written as a CASE whose conditions overlap, of which TLC takes the first as the code
does, while the meaning of CASE leaves the choice open; the round could then, by the
definition, go on after its last speaker. It is an IF now, in the order of the code.

Every safety property of a passing run is proved. Only model-checked are the liveness
properties: fairness and ENABLED are out of the prover's reach.

## 6. Not modelled

Whole components, because they keep nothing that order, failure or concurrency could
spoil: discovery analysis and channels (parsing, prompts, a browser), channels and
profiles (Telegram polling, static files), the user interface, evaluations, scripts and
the Hermes adapter.

Parts of modelled components, by component:

* hooks: registration and discovery of hooks, post-hooks (nothing reads what they
  do); ledger: feedback and aggregates.
* memory: the hashes of a finalized snapshot (they only inform the caller), audit rows,
  bullets hidden from a prompt because they expired, text under headings nobody knows.
* initiatives: the links (rows of their own) and listings.
* reviews: the statistics of the tuners (a report is any change of model and budget),
  the overlay of a profile, a configuration file that is only half written.
* LLM access: request bodies, token accounting. Tools: the MCP transport, metrics.
* deliberation: prompts, compaction, structured rendering. Meetings: the wording of
  notices.
* discovery: fetching, producer runs, the migration of old candidates, the index (it is
  rebuilt from the candidates; `PortfolioReview` keeps only that this may fail).
* experiments: landing pages, analytics, the statuses between open and over.
* ventures: renaming, which has no caller.
* API and command line: routes and commands are the requests of the modules; printing
  and argument parsing are left out.

The hazards in `PROJECT.json` without a property are those of the portfolio that the code
does not guard against: an index that fails after its file, a kill between decisions and
record, a record overwritten as failed, a review not taken up again, and a selection that
no experiment can be made of. The properties above are stated without them.
