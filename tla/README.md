# LinkLoom: a TLA+ verification project

LinkLoom turns meeting records, chats and project files into reviewed tasks and
answers questions over them with a tool-using model. This directory holds TLA+
models of the parts of `src/linkloom/` whose correctness depends on the order of
things: crashes between two saves, several reviewers, previews that have gone
stale. It says what is modelled, what TLC checks, what TLAPS proves, and what is
left.

| File | Contents |
| --- | --- |
| `DurableLoop.tla` | one durable agent run: engine, model loop, tools, checkpoints |
| `AtMostOnce.tla` | what that run promises about external effects |
| `DurableLoopProofs.tla` | at-most-once effects and the refinement: theorems and proofs |
| `DurableHistoryProofs.tla` | budgets, order of results, completions and history: theorems and proofs |
| `TaskReview.tla` | human review, merging and undoing of extracted tasks |
| `TaskReviewProofs.tla` | the theorems about it and their proofs |
| `GraphRun.tla` | the linear graph run: start, pause, resume, retry over a changing workspace |
| `GraphRunProofs.tla` | the theorems about it and their proofs |
| `DecisionMemory.tla` | review, materialization, supersession and reconciliation of decisions |
| `DecisionMemoryProofs.tla` | the theorems about it and their proofs |
| `Shutdown.tla` | admission of background work and the shutdown of the application |
| `SourceIngestion.tla` | the life of one source and its ingestion; extends `Shutdown` |
| `SourceIngestionProofs.tla` | the theorems about both and their proofs |
| `RerankBudget.tla` | the charged requests of the hosted reranker |
| `RerankBudgetProofs.tla` | the theorems about them and their proofs |
| `ProofReview.tla` | review statements over an investigation and the source proofs they capture |
| `ProofReviewProofs.tla` | the theorems about it and their proofs |
| `FeedbackMemory.tla` | the event log of a workspace's terminology |
| `MC*.tla`, `*.cfg` | the instances TLC checks |
| `PROJECT.json` | components, runs, mutants, map to the code, findings, hazards, theorems |

Run a check with `tlc -workers 2 -config durable_faults.cfg MCDurableLoop`, the
proofs of a module with `tlapm DurableLoopProofs.tla`, and so on for the eight
modules named `*Proofs`; each takes between a few seconds and several minutes.

How the proofs are made is the same everywhere. A safety property is seldom
inductive; each module states the strengthening that is (`IInv`, and `HInv` for
the run's history), a run checks that one on the instance (`IInv` stands in the
`.cfg` where `TypeOK` would), and the theorem `InvariantHolds` (in §2
`Inductive` and `HistoryInductive`) shows `Spec => []IInv` by one lemma per
action. The properties then follow from the invariant, or, for action
properties, from the invariant and one step. The constants are arbitrary: any
number of tasks, candidates, requests, clients, segments, faults and crashes.

## 1. Inventory

| Component (under `src/linkloom/`) | State it keeps | Operations | What is hard | What makes it correct |
| --- | --- | --- | --- | --- |
| Engine, `runtime/graph.py` | the newest snapshot it acknowledged (`state_cursor`) | `start_multi_agent`, `resume_multi_agent`, `_finish_multi_agent`; `start`, `resume`, `retry`, `_execute` for the linear graph | crash anywhere; a save that raises after committing; two processes on one thread | a run is closed once; no state is lost |
| Model loop, `runtime/model_loop.py` | working `RuntimeState`: turns, results, observations, termination | one turn: request, send, response, proposal, calls | order of checkpoints and effects, resumption at every boundary | each request and tool runs at most once, within budgets |
| Resume decision, `runtime/recovery.py` | none (reads a snapshot) | `decide_model_resume` | a snapshot from every boundary | never calls twice, never forgets |
| Progress and recovery policy, `runtime/progress.py`, `recovery_policy.py` | none | `assess_progress`, `decide_recovery` | asked at different places by different protocols | a terminating result ends the run |
| Checkpoint store, `runtime/checkpoint.py` | rows `(step_seq, rowid)` | `save`, `load` | ambiguous commits, equal sequence numbers | the newest row is what was last saved |
| Tools, `tools/runtime.py`, `ledger.py`, `tool_policy.py` | ledger of calls, counters | `execute`, `record_pending/completed/failed`, eligibility | outcome unknown after a crash | a call of unknown outcome is not repeated |
| Agents, `agents/retrieval_agent.py`, `coordinator.py` | none | budgets of a loop, the verdict | budgets over several processes | budgets bound the run |
| Task review, `tasks/store.py`, `review.py`, `merge.py`, `*_storage.py` | task rows, events, audits, claims on candidates, merge operations | confirm, reject, edit, rebind, invalidate, merge, undo | several reviewers, changing sources, stale previews | §3 |
| Candidates, `tasks/candidate_store.py`, `legacy_adapter.py` | proposals by source version | `save`, `list_candidates` | a source that changes and changes back | a fingerprint names what was seen |
| Background work, `ui/lifecycle.py`, `server.py`, `investigation.py`, `backend.py`, `task_provider.py` | groups of threads, an admission flag each | `operation`, `start`, `wait`, `ProductApplication.close` | work admitted while the application closes; timeouts and another close | §6 |
| Sources, `ui/product.py` | source row, versions, segments, attempts | import, update, remove, retry, `_ingest` | long work outside the lock, crash while it runs | §6 |
| Reranking, `rerank/jev.py` | cost, reserved budget, events of the request in flight | `rerank`, `close` | a timed-out request still costs | §7 |
| Decision memory, `decision_memory/`, `ui/revalidation.py` | temporal versions, workflow states, receipts | capture, approve, materialize, correct, reconcile | any order; transactions within a request; sources that come back | §5 |
| Proof review, `ui/task_review.py`, `semantic_ingestion/task_relation_*.py` | journal of statements and audits; relation sidecar; capabilities and projections in memory | view, review, CONTINUE, retry, repair | two files without a common transaction, other writers, failure at each step | §8 |
| Terminology, `memory/store.py`, `ui/feedback_memory.py` | an event log, replayed before each use | propose, approve, reject, revoke, expire | a write that ends half-way | §9 |
| Semantic ingestion, `semantic_ingestion/` | candidates and their events | extraction, validation, policy | model output | §5 and §6, without extraction |
| Retrieval, indexing, experience store, observability, evaluation, CLI | indexes, JSON and SQLite stores | ranking, parsing, reports | mostly data | outside this project |

How they interact. The engine calls the coordinator, it calls the retrieval
agent, which drives the model loop *in one synchronous process per thread of
execution*. The loop calls a model adapter and `ToolRuntime`; both effects are
wrapped in callbacks that append a `RuntimeState` to the checkpoint store. A new
process sees nothing but the newest row. Extraction stores candidates under the
current version of a source; the HTTP API gives them to `TaskReviewService`,
which shares one SQLite connection, and one `BEGIN IMMEDIATE` transaction per
request, with the store, the audits, the claims and the source catalogue. A
source request marks the source busy, reconciles the decisions with the sources
and hands over to a background ingestion, which captures candidates into the
decision memory; closing the application stops admission group by group and
waits for what was admitted.

`PROJECT.json` lists every component with its status, and under "hazards" the
places in the code that are hard to test.

## 2. DurableLoop

### State and actions

| Variable | Code |
| --- | --- |
| `db` | the row `SQLiteCheckpointer.load` returns (greatest `step_seq`, then latest rowid) |
| `mem` | `current_state` and the lists of `_run_durable` |
| `cursor` | `state_cursor`, replaced only when a save returned |
| `pc` | where the synchronous process is; `"off"` after a crash or a return |
| `left`, `fresh` | model steps left to this process; started rather than resumed |
| `resp`, `out` | a response or tool result in hand and nowhere else |
| `invoked`, `ran` | what the outside world saw: provider calls per turn, executor runs per call |
| `faults`, `crashes` | bounded counters of injected faults |

A snapshot (`Snapshots`) keeps, per turn, the checkpoint status
(`MODEL_EXECUTION_STATUSES`), the kind of response and the number of results
referenced, and, per call, the ledger entry and the recorded result. Message
texts, prompts, artifacts and evidence are data and left out.

One action is the code between two points where a process can die or where
something outside happens:

| Action | Code |
| --- | --- |
| `Start`, `Resume` | the entry points, with all their refusals and the rehydration of the loop |
| `WriteRequest`, `SendRequest`, `Invoke`, `InvokeFails`, `ObtainResponse`, `StoreResponse` | the checkpoints `request_durable`, `request_sent`, the call, `response_obtained`, `response_durable` |
| `AcceptFinal`, `AcceptError`, `AcceptTools`, `BindProposal` | dispatch of a stored response |
| `BeginCall`, `RunExecutor`, `SettleCall`, `KeepResult` | pending checkpoint, executor, terminal checkpoint, result reference |
| `ReuseLedger`, `ReuseSearch`, `RefuseCall`, `StopStalled`, `StopUncertain` | calls that are not started |
| `ProposalDone`, `ExhaustSteps`, `ArtifactFails`, `FailLoop` | ends of a proposal and of the loop |
| `FinishAnswered`, `FinishFailed`, `Trace`, `TraceFails`, `Rescue` | `_finish_multi_agent`, the trace event after it, the handler of `start_multi_agent` |
| `Crash` | the process disappears |

Saves (`Publish`, `Commit`, `TurnBoundary`, `ToolBoundary`) take effect and
return, raise without effect (`"lost"`) or raise after taking effect
(`"ambiguous"`); the three helpers differ, as in the code, in which of `mem` and
`cursor` survive. Three protocols are parameters: `"proposal"` (V2 tool
proposals), `"action"` (single V1 actions, which ask the recovery policy at a
different place and publish before they save) and `"decide"` (legacy adapters).

### Abstractions

* Trace errors are modelled only after the final save, where they do harm;
  emitting the first checkpoint's event corresponds to an ambiguous first save.
* A failed write of `result.json` behaves as a lost save and is not separate.
* `record_checkpoint_uncertain` marks the ledger record but keeps its outcome;
  the mark is left out.
* Branches no state reaches are left out: a `pending` ledger record found at a
  call of the same process, `commit_call` failing after `pending`.
* Task-plan recovery, partial and conflicting finals change what the model is
  told, not what runs. Digest checks of artifacts reject tampered files only.
* One process at a time per thread. The engine itself does not exclude two; the
  UI runs each thread in one background task.

### Runs and bounds

| Run | Question |
| --- | --- |
| `durable_faults` | Two-call proposals under every fault: at-most-once, budgets, do effects rest on durable results, is a completed run settled, is acknowledged history kept, refinement and quiescence; also `HInv`, which contains `IInv` |
| `durable_action` | After a terminating result nothing runs, in the action protocol, over three turns |

The refinement of the journal is checked for the proposal protocol and proved
for all three.

Two turns (three for single actions) of up to two calls give every pair of
neighbouring boundaries: first and second call, first and second turn. Two
crashes reach "crash, resume, crash in the resumed code, resume"; two faults
reach a failed save whose handler's save fails too. `MaxRequests`, `MaxSteps`
and `MaxCalls` are set so that each budget runs out in some behaviour. Deadlock
checking is off because a closed run stops.

`HistoryKept` is about acknowledged rows. A row that reached the disk although
its save raised may be written over: the engine builds its final row from the
cursor, which does not know it. `CompletedIsSettled` is checked without fallback
(`durable_faults`), with which a run completes without an answer of the loop
(`durable_action`).

Three further statements about the durable run were checked and are false; they
are kept here as observations, not as runs. A crash between the loop's terminal
checkpoint and `_finish_multi_agent` leaves the run "running":
`resume_multi_agent` refuses a terminated loop. A request that was made durable
but never sent counts against the budget of the resumed run, which may give up
without sending it. A trace error after the completed row was saved makes
`start_multi_agent` save a failed row over it.

### Fairness

`FairSpec` assumes weak fairness of `Step` (the code is synchronous: a process
that is running takes its next step unless it crashes, and crashes are bounded)
and of `Resume` (a resumable run is resumed by its operator). Nothing is assumed
of `Start`, `Crash` or the faults. `Quiescence` needs the first; that a run is
not left resumable needs the second.

### The abstract specification

`AtMostOnce` knows effects, a journal that announces them and a count. An
effect is performed once, and only while announced; the journal may be revised
at will except that a performed effect stays announced. `Journal ==
INSTANCE AtMostOnce` maps the journal to the newest checkpoint
(`request_sent` or later announces a request, any ledger record a call) and
performance to `invoked` and `ran`. `JournalSpec` is checked in `durable_faults`
and proved.

### What is proved

For all values of the constants that satisfy `LimitsAssumption` and
`OutcomesAssumption` (positive budgets, one call per action outside the
proposal protocol, faults among the named ones), any number of crashes, faults,
turns and calls:

| Theorem | Statement |
| --- | --- |
| `Inductive` | `Spec => []IInv` |
| `TypeCorrect` | `Spec => []TypeOK` |
| `EffectsAreAnnounced` | the newest checkpoint announces every effect |
| `ProviderOnce`, `ExecutorOnce` | at-most-once effects |
| `RunImplementsJournal` | `Spec => JournalSpec` |

`ProviderAtMostOnce` is not inductive: nothing in it says that a process about to
call a provider has not called it. The strengthening in `IInv` is: each of the
three copies of the state (`db`, `mem`, `cursor`) is `Sound`, that is, it
announces every effect so far and knows nothing of later turns; and at the two
places where an effect happens (`"invoking"`, `"running"`) the three copies are
*one* snapshot which announces this very effect, and the count is zero. A save
that fails leaves one of the sound copies behind (`SaveOutcome`,
`PublishCopies`, `CommitCopies`); a process reaches `"invoking"` only from an
acknowledged save; a resumed one reads a sound `db`, and the resume decision
refuses the statuses between announcement and outcome. The step lemmas
(`...Inductive`) have one lemma per action; `NextInductive` combines them.
`RunImplementsJournal` follows: `Invoke` and `RunExecutor` are `Perform`,
everything else is `Revise` or a stutter, because `IInv'` says what must stay
announced.

`DurableHistoryProofs` goes on from there, under the same assumptions:

| Theorem | Statement |
| --- | --- |
| `HistoryInductive` | `Spec => []HInv` |
| `BudgetsAreHeld` | all processes together stay within the request, step and tool budgets |
| `EffectsRestOnResults` | an effect happened only on durable results of what came before it |
| `CompletedRunsAreSettled` | a completed run has an answer, complete proposals and no unknown outcome |
| `HistoryIsKept` | what an acknowledged row recorded is never lost |
| `NothingAfterTermination` | nothing runs after a result the recovery policy terminates on |

`HInv` adds to `IInv`: every copy of the state is `Coherent`, a sequence of
turns of which only the last is unfinished (`TurnsInOrder`), of calls which were
settled one after the other (`CallsInOrder`), within the budgets; the working
state has forgotten nothing of the copy a save would write over (`Advancing`);
the verdict being written agrees with the termination (`VerdictOK`); `pc` says
how far the turn is (`Placed`) and how many steps this process has left
(`StepsLeft`); and before an effect the recovery policy was asked and did not
terminate (`Unstopped`). `BudgetsHold` follows from `Coherent(db)` and `Sound`:
whatever happened was announced, and what is announced is counted. `HistoryKept`
is about copies that a failed save may leave behind, hence `Advancing`.
`CompletedRunsAreSettled` has the hypothesis `Fallback = FALSE`: with fallback a
run completes without an answer of the loop (`durable_action` checks it so).

Only model-checked is `Quiescence`: liveness and `ENABLED` are out of the
prover's reach.

## 3. TaskReview

Every request is one transaction over all tables, so one action is one request;
a refused request changes nothing. The exception is modelled: an edit or
re-confirmation that comes too late commits the lapse it discovered and then
reports a conflict (`Observe`), while merge and undo roll it back.

| Variable | Table |
| --- | --- |
| `catalogue` | `ll_source`: current version, active; and the length of `task_review_source_change` (the epoch) |
| `published` | `task_candidate_batch` |
| `row`, `events` | `task`, `task_event` (the changes of one transaction are one entry) |
| `reviews` | `task_review_event` of each task |
| `claims` | `task_candidate_assignment` of each candidate |
| `merges` | `task_merge_operation` of each task |
| `hold` | none: the preview on a slow reviewer's screen |

A fingerprint is what the code's digest binds: the proposal, the epoch of its
source and all variants proposed under the same id. `Lapsed`/`Withdrawn` are
`_refresh`; `Dependencies` are `_validate_dependencies`, which looks at the
binding alone until something was merged into the task and at the sources of all
fields afterwards. `ApplyMerge` includes the second look `_view` takes within the
same transaction: the first merge into a task whose fields rest on stale sources
appends the approval *and* its withdrawal (`SeenAgain`). `MayUndo` has all the
blockers of `_prepare_undo`, `ApplyUndo` the compensation, the release of the
claim and the restored audit. Previews are the records whose digest is the
token; a reviewer who is not slow previews and submits with nothing in between.

Left out: timestamps and evidence, legacy tasks without audits, the direct
`create_from_candidate`/`merge_candidate`/`reject_candidate` of `TaskStore`
(below the review service), paging and views, meeting times (two versions of a
source are taken to be of one meeting), and the busy state of a source during
ingestion. A rejection's audit has no task; its claim stands for it. Fields are
two, as mixed origins need two; statuses are two of five.

| Property | What it says |
| --- | --- |
| `AuditedHistory` | events, audits and the row agree: every field change is listed by exactly one audit and leads from its predecessor's values to its own |
| `Provenance` | a field said to come from a source has the value of the proposal its fingerprint names |
| `BindingClaimed` | whatever a task rests on is consumed by that task and no other |
| `StackWellFormed` | active merges form a stack that still holds its claims, so `_active_stack` never raises |
| `ApprovedOnCurrentSources` | no step leaves a new approval whose sources are not current (proved; no run repeats it) |
| `UndoRestores` | an undo changes the merged fields only, restores field sources and frees the candidate |
| `WrittenAsPreviewed` | a stale preview is refused or writes exactly what it showed |

| Run | Bounds and why |
| --- | --- |
| `task_review` | one task, a slow reviewer, two variants under one id and a source to merge; three audits reach confirm, lapse, re-confirm; confirm, edit, merge; and confirm, merge, undo |
| `task_merge` | two tasks and three candidates, one of them of a source's next version: a stack of two merges, its undo, a candidate that moves to the other task, rebinding; `MaxEpoch` 2 lets a source change and change back; `MaxReviews` bounds the audits of both tasks together |

`Edited` limits the fields reviewers type values for, `MaxEvents` the
transactions that change one row. There is no fairness: every request is
somebody's choice.

`TaskReviewProofs` proves, for any tasks, proposals, fields, values and bounds,
all seven properties of the table (`HistoryIsExplained`, `FieldsAreTruthful`,
`BindingsAreClaimed`, `MergesFormAStack`, `ApprovalsAreCurrent`, `UndoGoesBack`,
`PreviewsAreBinding`). Of the constants it assumes, besides their types, that a
row of no task can be told from a value (`"none"` is neither a value nor a
status). The invariant has three parts besides the state properties.
`AuditsTruthful` says of every audit in the history what `Provenance` says of
the newest, as an undo returns to old ones. `Recorded`: an operation knows the
audit and the row it started from, and a merge left the columns alone that are
not its own; so the sources an undo restores are true of the values it restores.
`Reversible`: the active merges of a task have different candidates, and what
the audit below such a merge rests on is claimed by the task and is the
candidate neither of that merge nor of one above it; so it is still claimed when
these are undone, and `BindingClaimed` survives. The step lemmas go through a
few kinds of step (an audit is appended; a merge is pushed; one is popped), as
nearly every request appends one.

An undo that was refused because of a later status change stays refused after
the status is changed back: the two events are not the merge's own. The message
of `merge.py` ("restore them before undo") suggests otherwise; the tests expect
the refusal.

## 4. GraphRun

`RuntimeEngine.start`, `resume`, `retry` and `_execute`, the *linear* graph
`resolve_source -> retrieve_context -> emit_result`.

| Variable | Code |
| --- | --- |
| `rows` | the checkpoints of the thread; `Newest` is `get_latest` |
| `published` | `results/<run_id>/result.json`: the index it was built from |
| `vault`, `index` | the notes in the workspace; the workspace the index describes, or `Missing` |
| `client` | a process inside a command: its copy of the state, the row it saves next, where it goes then |
| `raced`, `lost` | history: the sources moved while the service read them; a process was lost |

A node ends in one to three saves (`next` says what follows each), and the
process may be lost between any two (`Lose`, also for a `CheckpointWriteError`,
which `_execute` reports without recording it). `Start`, `Resume` and `Retry`
have the commands' conditions; `NodeFails`, `InjectedFailure`, `OverBudget` and
`EmitStale` are the failing exits, `EmitChecked` the check of the sources and
`Serve` the service's own, second read of them. `Changes` edits notes, adds one,
rebuilds or deletes the index. Left out: queries, evidence, traces, the request
file (its failure is `NodeFails`), engine options other than a pause after
retrieval and an injected failure, both of which may happen at any time.

| Property | What it says |
| --- | --- |
| `PublishedAsChecked` | what a completed run published is of the index its checkpoint names, unless the sources moved during the service's read |
| `AnsweredBeforePublished` | nothing is published past an interrupt that was not answered "resume" |
| `StepBudget` | all runs of a thread together execute at most `max_steps` nodes |
| `ResultsKept` | a result is never written over |
| `Settles` | a running thread comes to rest in a recorded status, unless its process is lost |

`Spec` has no fairness and is what the theorems are about; `FairSpec` adds it and
is what `graph_run` checks, for the sake of `Settles`. `Executed` counts the
nodes that a row says were executed.

`graph_run`: one client, budgets 2 (runs out, after a pause and after a retry
too) and 6, one retry, three workspaces, so that an edit can be taken back and a
note can be added that no indexed note shows. Fairness: weak, of a process that
is inside a command; nobody has to answer or retry. With two clients at once the
same interrupt can be answered twice, each client saving its own row and running
the nodes: nothing compares the row a command continues from, and nothing keeps
a second client from `resume`. The properties are checked for one command at a
time and say nothing of that case. Two more losses are excepted, not caught: a
source that changes between the last check and the service's read gives a result
of another source (`raced`), and a run whose save raises or whose process dies
stays "running", accepted by neither `resume` nor `retry` (`lost`).

`GraphRunProofs` proves `Spec => []IInv` for any number of clients, workspaces,
runs and rows. The budget holds for all of them (`BudgetSpansThread`): a copy of
the state that is in hand counts what was executed on the way to it. It says
nothing of the sum over commands that overlap: each counts from the row it read.
The other three theorems have the hypothesis `OneCommand`, that there is one
client: `ResultsAreAsChecked`, `InterruptsAreAnswered`, `ResultsAreKept`. Their
part of the invariant is that rows are in order (`Linear`, so the newest is the
last), that what is saved next follows the last row (`InHand`, `Follows`), and
that a result was published exactly by the runs whose rows say so
(`PublishedByRows`); it holds because a command that reads the newest row is the
only one to write after it. `Settles` is liveness and stays with TLC.

## 5. DecisionMemory

One workspace and one decision slot. A claim (`Claim`) has a value, a validity
interval, a source, the version it was quoted from and the versions in which the
quote still occurs.

| Variable | Code |
| --- | --- |
| `content` | the current version of each source, in `ll_source` and the registry |
| `workflow`, `grant` | `semantic_candidate.workflow_state`; the authorization event |
| `decision` | the `decision` row made from a candidate: status, memory state, `valid_to`, predecessor |
| `receipt` | `semantic_materialization_receipt` |
| `request` | which transactions the request under way has left; a restart |
| `reconciled`, `restored`, `changes` | history |

Requests hold the application's store lock; each action is one SQLite
transaction, and `Crash` may come between any two. `Capture`, `Approve`,
`Reject`, `AuthorizeByPolicy`, `Materialize`, `Lapse` and `Correct` are the
operations of `SemanticMaterializationService` with the checks of
`materialize_semantic_candidate`: duplicate receipts, a predecessor that says the
same, successors that already exist, the predecessor's closing and the unique
index on open active records (`Indexed`). `Approve(c, r)` is also the
revalidation of a stale decision. `ChangeSource`, `Withdraw` and `Reconcile` are
an update or removal of a source; `ReconcileFails` is the transaction that the
unique index undoes.

Left out: the older `decision_candidate` path, candidates proposed by agents,
actions and aliases of slots; conflicting reviewer resolutions (a claim is what
it is after resolution); several evidence references per decision, and with them
`NEEDS_REVALIDATION`; `FUTURE_EFFECTIVE_PENDING`, which differs from
`MATERIALIZED` in name only; confidence scores (`trusted` is the calibrated
policy's verdict on a claim: authorized always, only when it repeats what the slot
says, or never).

| Property | What it says |
| --- | --- |
| `OneVersionAtATime` | valid versions of the slot do not overlap, except around one that came back with its source, and a superseded one ends where its successor begins |
| `RestsOnSource` | between requests valid decisions have their quotes, unless the last reconciliation failed |
| `NoRevival` | corrected and revalidated decisions never come back |

`decision_memory`: a decision, the same from another source, a bounded one that
it replaces before its end, and another reading of the same words; two sources
of two versions and two source changes, enough to go and come back.
`decision_updates`: two open decisions and three changes (§11). No fairness: all
properties are safety. `OneVersionAtATime` excepts versions a reconciliation
restored: they come back with the interval they had, which may overlap what was
materialized meanwhile. Two versions of which neither was restored overlap only
if a restored one begins between them.

`DecisionMemoryProofs` proves `Spec => []IInv`, `OneVersionAtATime`
(`VersionsAreDisjoint`), `RestsOnSource` (`ValidRestsOnSource`) and `NoRevival`
(`NoneRevived`) for any candidates, sources, versions and values. The invariant
adds to the first two that a record's own candidate holds its receipt and that
its interval is not empty (`Receipted`): no supersession closed a version before
it began, so ends and beginnings can be compared. The assumptions on the
constants only tell apart what the code keeps in different columns (`None` is no
state, record or receipt; a source is not one of the other requests).
`OneVersionAtATime` at first said that a restored version overlaps none but the
one that was materialized meanwhile; the proof failed there, TLC found the case
on a larger instance, and the property says now what the code does.

## 6. Shutdown and SourceIngestion

`Shutdown` has the groups of `BackgroundTasks`: HTTP handlers, product
operations (imports), ingestions, starts of investigations, their runs, and the
sending threads of provider calls. A task is admitted if its group still admits
and its caller is at work (`Admit`), and finished when its thread ended
(`Finish`). `Close` is the sequence of `ProductApplication.close`, owner by
owner; a closer enters the close lock, waits, may time out at every wait
(`TimesOut`) and may begin again.

`SourceIngestion` composes it with one source: `Import`, `Update`, `Retry` and
the removal take the store lock and mark the source busy, reconcile, and hand
over to `_ingest`, which runs outside the lock: `ReadSegments`, then for each
segment `Replay`, `Skip` or `Ask` and `SaveAttempt`, then under the lock
`Capture` and `EndIngestion`. `IngestionRaises` is every exception in between,
`Restart` the end of the process at any point.

| Property | What it says |
| --- | --- |
| `ClosedIsQuiet` | when close has closed the stores no admitted work is alive |
| `FollowedThrough` | what was admitted may finish what it began, shutdown or not |
| `CloseEnds` | a close that is tried again ends |
| `CompleteIsReviewed` | a COMPLETE version had every segment accepted and captured, unless one of its ingestions raised |
| `BusyIsOwned` | a busy source has somebody at work on it, unless a process died or a request failed half-way |

`source_ingestion`: a version of two segments (accepted and failed, replayed and
asked again) and one that does not parse, to change to and back; one closer that
times out and tries again. The run also checks the invariant below. Fairness:
threads run, requests return, an investigation's run and every provider request
end (the code gives each a deadline), and who closes tries again. Nothing is
assumed of clients.

`SourceIngestionProofs` proves the four state properties of the table
(`CloseIsQuiet`, `AdmittedWorkGoesOn`, `CompleteWasReviewed`, `BusyHasAnOwner`)
for any tasks of a closing application, any number of closers and any versions
and numbers of segments. The shutdown's part of the invariant (`ShutdownInv`) is
about the order of `close`: what a closer has passed is so, whatever others do
(a group it stopped admits nothing, one it waited for is empty, past the close
lock it holds it: `PassedIsDone`), and a group that others hand over to is
stopped only when these are stopped and empty (`CallersFirst`), also after the
closer that stopped it timed out. The ingestion's part
says where a thread or a request is (`Placed`), that a segment it will ask has an
attempt left (`Attempts`), and that an accepted segment is in the review queue or
still in the thread's hands (`NothingForgotten`). `CloseEnds` stays with TLC.

Abstractions: one task of each kind at a time; an investigation's provider call
is one with its run's thread, only its sending thread is apart; `FAILED` and
`MALFORMED` are merged; the candidates of a segment are captured as one, and
whether a version with a failed segment has any, which makes it `PARTIAL` and not
`FAILED`, is left open;
ingestion without an extractor and the meeting-task mode appear as
`IngestionRaises` alone. Requests to the provider per segment are *not* bounded
by two when exceptions come before `save_segment_attempt`, so no property says
so. `CompleteIsReviewed` excepts versions an ingestion of which raised: their
retry replays accepted segments and captures the newly asked only, so candidates
of the first attempt are never captured.

## 7. RerankBudget

`JevReranker`: a call reserves the most a request can cost, starts a thread that
sends, and waits until a deadline. `caller` and `sender` are the two threads of
each call; `cost`, `reserved` and `uncertain` the accounting; `latest`,
`started`, `cancelled` the events; `holding` and `settled` are history: whose
reservation is in `reserved`, whose charge in `cost`. Left out: the payload, the
scores, the model without a budget or a price. The provider charges what it
reports.

`BudgetCovers`: cost, and one price for each request that was started and not
settled, never exceed the budget: late answers, lost usage reports and
cancellations included. `rerank_budget` checks it and `IInv` for three calls and
a budget of two and a half prices; deadlock checking is off because the calls
end. There is no liveness: a caller's wait is bounded by its deadline.

`RerankBudgetProofs` proves, for every finite set of calls, price and budget
(`RerankAssumption`), `Spec => []IInv`, `Spec => []BudgetCovers` and
`Spec => []SingleFlight`. `BudgetCovers` is not inductive: it does not know that
reservations are one price each. `IInv` adds that `reserved` is one `Amount` per
element of `holding` (`Accounted`), that `holding` contains every chargeable
request (`Covered`), and, per call, where caller and thread can be together
(`Reserved`, `Threaded`, `SingleFlight`), which is what shows that a released
reservation belongs to a thread that cannot send any more.

## 8. ProofReview

`TaskReviewService` over one run. A view (`Get`) issues a capability bound to
the revision of the journal and to the head of the relation sidecar. A post is
refused or admitted (`Admitted`, `Recovers`, `MayRepair`), and a CONTINUE then
goes through `_continue` step by step, with anything possible in between: other
writers on both files, a failed read or write, the end of the process.

| Variable | Code |
| --- | --- |
| `sidecar` | the relation sidecar: per item its lifecycle events, a comparison's being its one row; `NoFile` before it exists, `Unreadable` while the file is there without tables |
| `statements`, `audits` | `task_review_statement`, `task_review_audit` |
| `issued`, `remembered` | `_CapabilityIssuer`, `_run_snapshots`: lost with the process |
| `post` | the local variables of `_post` and `_continue` |
| `current`, `run` | whether the sources are the run's; what the assessors find of it |
| `told`, `intact` | history: requests a client was told are committed; requests left pending, undisturbed since, whose failed attempts all left a mark with the proof as it was |

`Rebuild` to `Commit` are the steps in their order: assess, compare the proof
head, block, mark PENDING, open the sidecar, capture each item, read it back,
check the revision, take a write transaction on the sidecar and compare what
changed since (`Guard`, `Delta`), append the statement, mark COMMITTED. Opening
is two steps: `Connect` makes an empty file, `Initialize` its tables in one
transaction; `OpenFails` is a failure of either, or, without a directory, the
request's being blocked. A failed attempt leaves a FAILED mark with the head as
the attempt left it, unless that fails too (`Lost`). Every look at the head may
fail: `_proof_head` then gives one sentinel, `Unreadable`, in views, posts and
marks alike (`Shown`), as it does for a file without tables. A hash of rows is the
rows; the capability that `_post` itself issues is one more `Get`. `Available` also has the loader's refusal of a run whose
relations changed, against which the process keeps a projection.

Left out: several runs and workspaces, WITHDRAW (which differs from REVIEW in
nothing modelled here), outcomes and notes, replacement of assessments, assessed
verdicts that change while the sources stay, expiry other than by `Get`.

| Property | What it says |
| --- | --- |
| `ReceiptOnLiveProof` | a CONTINUE is recorded only while all proofs its step needs are alive, and with the proof as it is then |
| `OneCommitment` | the journal is a chain, a request has one statement and one COMMITTED mark, of that statement and its proof, and clients are told nothing else |
| `RetryHonoured` | a pending request that failed, each time with a mark of the proof as it was, and with the proof undisturbed since, is admitted again as it was sent, on a sidecar that has its tables, or repaired |

`proof_review`: two interchangeable requests (symmetry; no liveness is checked),
one target, which captures two assessments and has no use for the comparison that
others may add, three posts, and one each of outside writes, faults and restarts:
a failed attempt, its recovery, and another request; 344,518 states. Other targets
have the same steps in other numbers and are left to the proofs. No fairness: a
client need not retry. The run also checks `IInv`.

`ProofReviewProofs` proves, for any requests, steps and bounds, `Spec => []IInv`,
`OneCommitment` (`CommittedOnce`), `RetryHonoured` (`RetriesAreHonoured`) and the
action property `ReceiptOnLiveProof` (`ReceiptsRestOnProof`). The assumption is
that the model values are not requests, posts or histories. The invariant has
four parts besides types and `OneCommitment`:

* `OnceInHand`: up to the receipt the request in hand has no statement; at the
  receipt and in a repair it has one, of this very proof, and no COMMITTED mark.
* `Captured`: relations are only added to. What was alive when it was read back
  is alive at the guard, or has more events than `before` noted; the guard
  (`Delta`) refuses the latter, since a row the request itself added has one
  event and that one is ACTIVE. From the guard on, the write transaction keeps
  the proof as the post carries it.
* `OneBody`: marks, statements and posts of a pending request have one body, so
  a recovery is the request as it was sent.
* `Undisturbed`: a request in `intact` is in hand, or its last mark shows the
  proof as it is now, on a sidecar with tables. This needs `FailedHead`: a mark
  with the head the attempt *began* with would send the retry away. It also says
  that a request about to be blocked carries the present head, the sentinel, or
  that no request is intact.

The actions of a post and its surroundings are ten kinds of step (`Kinds`: the
post is dropped, marked, moved, creates the sidecar, ...); each part of the
invariant is kept by each kind.

Four limits of the code show in what the properties leave out. A FAILED mark
with the sentinel in place of the head makes the comparison of a retry fail, and
the undisturbed request is refused `STALE_PROOF_HEAD` until its client takes a
new view. A sidecar left without tables makes every CONTINUE raise where the
proof is noted (`Begin`), before it could make the tables; only another writer of
the sidecar can. `RetryHonoured` excepts both through `intact`. A repair compares
heads and marks without holding the sidecar, so a retraction in between is
missed; `OneCommitment` says the mark is of its statement, not that the proof is
alive. After a restart a recorded but unmarked request cannot be repaired, its
capability being gone; so `RetryHonoured` speaks of the same process.

## 9. FeedbackMemory

`MemoryStore` is a log of events, replayed before every request of
`FeedbackMemory.action`. `log` holds the lines, each the pieces written on it;
`AppendEvent` writes a line at the end or tears (`MaxTears` times) in the text or
before the newline, `Reloaded` and `Apply` are the replay. `acked` is history. A
tear is between two characters; one inside a character of several bytes makes the
next replay raise `UnicodeDecodeError` at once, without another append, and is
left out.
`feedback_torn` is the one run: two entries for one term, five events, one tear
(§11). Left out: entries' contents, protected vocabulary, scopes of other
workspaces, `supersede_item`, which no request uses.

## 10. Mutants

Each property of each passing run is paired in `PROJECT.json` with a mutant: an
operator beside the one it replaces, with a plausible bug (a budget compared
with `<=`, a request sent without its checkpoint, `Top` taken from the tail of
the history, a claim considered free once it was ever released, ingestion closed
before imports, a failed request taken for one never sent). TLC finds each
property violated under its mutant.

## 11. Findings

* `decision_updates`: a decision goes stale with its source, another one of the
  slot is materialized, and the old source comes back. `reconcile` makes the old
  one active beside the new one, the unique index `ux_decision_current_subject`
  refuses, and the whole reconciliation is rolled back: now, in every later
  source request and at every start of the application. The new decision no
  longer follows its source, which SPEC.md of stale-decision revalidation
  promises ("New source updates still invalidate the new decision normally").
* `source_busy`: a source whose process died during ingestion, or whose
  reconciliation failed, stays `INGESTING`. Nothing at start resets it; update,
  retry and removal are refused with "Wait for the current source ingestion to
  finish", and there is none.

* `feedback_torn`: after a torn append the next event is written on the torn
  line. It is acknowledged, the next replay passes over the line as the torn
  tail, and after one more append every replay raises `JSONDecodeError`, and with
  it every request about the terminology. The comment in `MemoryStore.reload`
  says the torn append is "repaired by the next append".

The first keeps the second going: a request that fails in `_reconcile` leaves
its source busy. All three were reproduced against the Python code.

## 12. What is left

| Module | Next |
| --- | --- |
| `GraphRun` | a store shared with `DurableLoop`, for a linear retry of a multi-agent thread; the sum of steps over overlapping commands |
| `DecisionMemory` | several evidence references, and with them `NEEDS_REVALIDATION` |
| `ProofReview` | several runs of one workspace, which share the relation sidecar |
| `FeedbackMemory` | what a log without torn writes promises, as theorems |

Left to TLC: liveness (`Quiescence`, `CloseEnds`, `Settles`), for which the
prover has no rules; and the three runs that find a violation. Induction over
data is done where it is needed through least elements: `NaturalsInduction` and
`WellFoundedInduction` give that every non-empty set of naturals has a least one
(`LeastOf` in `ProofReviewProofs`), which stands in for theorems that take an
operator.

### Not modelled

* Ranking, parsing, prompt construction, embedding and evaluation
  (`retrieval_v2`, `indexing`, `semantic_ingestion/extraction.py`, `agents`'
  adapters, `evaluation`, `scripts`): functions of their input without state that
  several steps share. Most of the repository's lines are of this kind.
* The experience store: append-only, one writer.
* The temporal graph: read-only queries over a snapshot.
* The HTTP layer: parsing and projections; its threads are in `Shutdown`.
* A linear `retry` of a failed multi-agent thread (`runtime/graph.py:1307`), which
  saves a running row whose step no node of the linear graph handles: it needs
  `DurableLoop` and `GraphRun` over one store.
