# Chiky Agente: a formal model

TLA+ modules, TLC configurations and TLAPS proofs for the server of Chiky
Agente (`src/src/personal_ai_secretary/`): a FastAPI application that accepts
messages, runs each through a governed workflow of agents, lets an execution
agent call tools in a loop with a language model, and keeps requests, sessions,
memory and evidence in PostgreSQL.  Paths below are relative to
`src/src/personal_ai_secretary/` unless they begin with `src/`.

- [Inventory](#inventory): the parts of the system
- [Modules](#modules): what each module models and how
- [Runs](#runs): what is model-checked, with which bounds
- [Fairness](#fairness)
- [Proofs](#proofs): what is proved, from what, and how
- [Findings](#findings): where code and documentation disagree
- [Limits](#limits): what is abstracted
- [Not modelled](#not-modelled): what is left out, and why

To repeat everything: `tlc -config X.cfg M` for the pairs in [Runs](#runs),
`tlapm M_proofs.tla` for the eight proof modules.

## Inventory

A browser page posts messages; a request service stores them, and runs each through
a governed workflow whose execution agent lets a model call tools; a model manager
says which model.  Several uvicorn workers may serve one database.  Inside a worker, handlers are
asyncio tasks that interleave at every `await`; between workers only the
database is shared.

### Request service (`application/service.py`, `domain/models.py`, `infrastructure/database.py`)

- *State*: table `requests` (status, result, key, session, `updated_at`), table
  `sessions` (owner, title, `request_count`).
- *Operations*: `create` (idempotent per user and key), `execute` (guarded claim,
  workflow, memory item, save), `recover_stale_running` at start-up and
  `_recover_stale_request` on a repeated execute; reads.
- *Interacts with*: the API and session routes (callers), the governed workflow
  (called in the middle of `execute`), the memory store (a session of its own).
- *Hard*: two handlers on one request; a worker that dies between claim and save;
  recovery of a request that is merely slow; columns written by an ORM that
  compares them with what it loaded; retries that race for one key.
- *Correct when*: one execution at a time per request; status and result belong
  together; a completed request is final; recovery takes only from the dead; equal
  keys give equal answers; a session and its messages come and go together.

### Session routes (`ui/routes.py`)

Rename, delete and list sessions, over the same two tables.  *Hard*: a deletion
that races with a creation or an execution, a rename that races with the first
message.  *Correct when*: nothing is left in a deleted session and a chosen title
stays.

### HTTP API and lifespan (`api/app.py`)

Handlers for the operations above, provider selection, start-up (load settings,
discover models, recover stale requests), retention sweep and metric flush loop.
*Hard*: start-up order, background loops across failures, shared singletons.
*Correct when*: start-up leaves the configured provider in place, and every loop
does what it announces.

### Governed workflow (`workflow/engine.py`, `agents/contracts.py`, `application/risk.py`)

One pass through planner, approval, research, execution, critic, evaluation gates
and compliance, with artifacts as state; returns completed, blocked or rejected.
*Hard*: approval is asked once, tools are called behind it in two ways (by the text
and by the model), agents may be replaced, a refused request may be executed again
with another answer, and a refused review does not end the execution.
*Correct when*: no execution without a granted or unnecessary approval, and no
completion past a failed gate.

### Agentic tool loop (`agents/builtin.py`, `agents/task_state.py`, `agents/evidence.py`, `agents/verifier.py`)

- *State*: per request: round, counts of calls and names, executed calls, failures,
  fix cycles, directives, a task state machine, the provider in use.
- *Operations*: ask the model, admit or refuse its calls, execute, verify, stop,
  conclude; fall back to another provider.
- *Hard*: seven interacting limits and two directive counters, breaks at six places, results
  that are recorded before they are verified, a model that may say anything.
- *Correct when*: no call is executed twice, limits bound what is really run, and
  "completed" means that something was done.

### Model manager and fallback (`providers/model_manager.py`, `providers/model_registry.py`, `providers/factory.py`, `providers/connectivity.py`, `providers/discovery.py`)

- *State*: routing mode, selected provider and model, one instance per provider with
  a mutable `model`, registry of discovered entries with statuses and counts, a
  history of failed models.
- *Operations*: select, set the mode, discover, verify, record success and failure,
  offer a fallback.
- *Hard*: all of it is shared by concurrent requests without a lock, and read again
  after awaits.
- *Correct when*: a request runs on what the user chose or on what its metrics say.

### Capability verifier (`providers/capability_verifier.py`), settings (`shared/settings_store.py`)

- *State*: the verdict per registry entry; one row per saved setting.
- *Operations*: eleven tests put to a model, a verdict from their number; save, load with
  defaults.
- *Hard*: a verification awaits eleven answers while others set the model of the instance
  it asks; saves are transactions of their own that may fail or commit out of order, behind
  changes already made in memory; at a start the choice depends on what is listed then.
- *Correct when*: a verdict is about the model it is filed under; the next start finds the
  user's choice.

### Tool registry and tools (`tools/registry.py`, `tools/*.py`)

- *State*: definitions; the disk, which all requests and all commands share.
- *Operations*: normalise, validate, repair once, fill in a default, call the handler; read, write,
  modify, copy, delete, generate; run a command with a timeout.
- *Hard*: several spellings of one argument; reading, changing and writing a file while a command
  of another request runs; the await between a handler and its verification; claims of
  the final answer compared with evidence of anything that happened before.
- *Correct when*: a handler gets what the model wrote; an edit lasts until somebody takes it back; a
  failed verification has a cause; a claim has something behind it.

### Context assembly (`context/*.py`)

- *State*: none of its own; the turns of a session and the running messages of a request.
- *Operations*: format attachments, choose history, prune tool results, validate lengths.
- *Hard*: five limits in characters, each with its own arithmetic; what is stored in one request is
  read and validated in the next.
- *Correct when*: history has no gap and stays in its budget; pruning takes nothing that is needed next.

### Browser client (`ui/static/js/app.js`)

- *State*: `currentSessionId`, `sending`, `pendingApproval`, the transcript and its indicators.
- *Operations*: send, approve, open, begin and delete conversations, each with awaits; timers.
- *Hard*: any number of functions wait at once while the user goes on; answers are late, lost or refused.
- *Correct when*: nothing appears in a wrong conversation, nothing is run that was not asked for once, and
  the page does not wait for ever.

### The other components

| Component | State and operations | Correct when |
|---|---|---|
| Evaluation gates and compliance | pure predicates over artifacts | each failed one keeps the answer back |
| Memory, evidence and audit stores | three tables; insert, expire, upsert | expired items leave, one row per source |
| Router and execution targets (`providers/routing.py`) | a table of targets; describes the one chosen | names what runs |
| Model intelligence | a table of benchmark figures | - |
| Managed OpenCode server (`providers/opencode_server.py`) | a child process, its port and PID file; start, reuse, stop, reap | one child at a time, no orphan after a crash |
| Provider clients | none but the HTTP client and `model` | a call ends, or raises one of the expected exceptions |
| Task classification and profiles | tables of keywords | total, deterministic |
| Metrics and observability | in-process counters and a table of totals | totals never shrink and count every worker |
| Schema migrations | one-off DDL | - |

`PROJECT.json` lists all components with their status, and every hazard with the
line at which it bites and the properties that guard it.

## Modules

| Module | Models | Extends / instantiates |
|---|---|---|
| `RequestData` | values of a row: statuses, results, verdicts | - |
| `RequestLedger` | what the request store promises a client, without handlers | `RequestData` |
| `RequestLifecycle` | `execute`, stale recovery, deletion, crashes | `RequestData`; `Ledger` = `RequestLedger` |
| `RequestIntake` | `create` with idempotency keys; rename and delete | - |
| `ProviderRouting` | shared provider instances, selection, modes, fallback | - |
| `AgentLoop` | the tool loop of one request | - |
| `Governance` | what a governed workflow promises: gates asked in order | - |
| `GovernedWorkflow` | the stages of a request, risk, approval, gates, compliance | `Promise` = `Governance` |
| `ModelDesk` | settings, start-up, registry, ratings, verification | - |
| `SessionContext` | what a model is given to read, in characters | - |
| `Toolbox` | the registry, the tools on a shared disk, verification, claims | - |
| `ChatClient` | the page, its calls and the server behind them | - |
| `MC...` | instances for TLC: constants and symmetry | the module named |
| `..._proofs` | theorems | the module named; `ToolsAndContext_proofs`: `Toolbox` and `SessionContext` |

The modules divide one path of a message.  `ChatClient` sends it; what its `Serve` does is
`RequestIntake` (how a row appears) and `RequestLifecycle` (what becomes of it; `Accept` is the commit that
`RequestIntake` details).  Inside the step `WorkflowEnds` of `RequestLifecycle` runs the workflow,
`GovernedWorkflow`; inside its `RunModel` runs the agent, whose decisions are `AgentLoop`, whose reading is
`SessionContext`, whose provider calls are `ProviderRouting` (`Talk`/`Propose` of the first are `Answered` of
the last, `FallBack` is both), and whose tool calls are `Toolbox`.  `ModelDesk` keeps what routing chooses
from.  Each module leaves free what another one decides, so that what it shows holds whatever that one does.

### RequestLifecycle

State: the columns `status`, `result`, the age of `updated_at` (kept as time
since it was written, capped just above the threshold), the number of memory
items per request, and per handler a program counter, the request it executes or the row its statement is at,
the columns its ORM object was loaded with, the verdict it will write, the time
since its claim, the rows it has selected and has yet to mark or delete (`victims`), and the rows its open transaction
has written and so keeps locked.  `takeovers` is a history variable, how often stale recovery has failed
the request (`takenOver` says that it has), and so is `outlived`: an execution of it took longer than the threshold.

| Code | Action |
|---|---|
| a call of `execute`; its `UPDATE ... WHERE status IN (...)`, once the row is free, and its commit | `Arrive`; `Claim`, `Miss` |
| loading the record and its session | `Load` |
| manual mode without a provider | `ProviderUnavailable` |
| `workflow.run`, its verdict or its exception | `WorkflowEnds` |
| `_remember` in a session of its own, then the final commit | `Remember`, `Save` |
| re-read of a request that was not claimed | `StaleCheck` |
| start-up selection, a guarded update for each row in any order, commit | `SweepStart`, `Reach`, `MarkStale`, `CommitRecovery` |
| transactions waiting for each other in a circle (`WaitsFor`) | `DeadlockAbort` |
| `delete_session`: its DELETE takes the rows of the session one by one, in any order | `DeleteBegin`, `Reach`, `DeleteRow`, `DeleteCommit` |
| a worker killed, a client gone, at any await | `Interrupt` |
| time | `Tick`, within the execution budget |

Transactions follow READ COMMITTED: a writer waits for the lock of a row
(`Unlocked`), sees what is committed, and releases at its commit or rollback.
`Save` writes the columns that differ from the loaded ones, by primary key and
without a guard, as SQLAlchemy does; that is why `RowCoherent` is not
obvious.  `RequestLedger` says what a client may rely on; `Ledger` maps its
three variables to the table.

### RequestIntake

State: per session its owner (or none), `request_count`, its title (none, the text of a message, what a user chose, or the nothing
that `strip()` leaves of a blank choice), and whether it was ever deleted; the set of stored requests and their
columns; per handler its call, the session and request it works with, the count
it loaded and whether the title it loaded was empty (`bare`), and what its transaction inserted or deleted.  `CreateBegin`,
`ReadSession`, `InsertSession`, `ReRead`, `Commit` and `Requery` follow `create` from
lookup to answer with both `IntegrityError` branches; `Store`, what a commit writes, gives a session a title
behind the guard of `create` (`seen = 0` and `bare`), which is why a rename that commits in between, or a blank one, is
a question at all.  `RenameCommit`, `DeleteRequests` and `DeleteCommit` follow the routes.

### ProviderRouting

State: mode and selection of the `ModelManager`, `model[p]` of every shared
instance, and per request its place, its provider, the providers it has lost,
its rounds, what its metrics report, and the model its open call was made to.
`Route` is `_service`, `Start`/`CallModel`/`Answered`/`GiveUp`/`FallBack`/`LoopEnds` are
the loop of `_run_with_provider` as far as it calls providers, `Select` and
`SetMode` are the endpoints.  Which eligible entry a fallback offers, or none, is
free: statuses, counts and the shared failure history only narrow that choice.
History variables: `steady` (routed in manual mode and nothing selected since),
`touched` (somebody else assigned the model of its instance), `switched` (some
fallback has assigned a model).

### AgentLoop

State: the locals of the loop with the names of the code (`seen_tool_calls` is
`seen`, `tool_name_counts` is `named`, `executed_calls` is `executed`, `mutation_done`
is `done`, `progress.directives_issued` is `coached`, `metrics.backend_directives` is
`directives`), of the task machine the three terminal states and "open", and of
`final_text` its kind.  `ran` and `changed` are history: how often each call was handed to
`_execute_tool_from_llm`, and which kinds of tools did change something.  The kinds are those of `ProgressDetector.record` (edits,
commands, readings) and "uncounted": `file_delete`, `file_copy` and `generate_tests`, which change the disk and which
`MODIFY_TOOLS` (`agents/task_state.py:117`) leaves out.

The model is unrestricted: in every round it may fail, talk, or propose any sequence of
calls.  An output is proposed call by call (`Propose`), then exactly one of
`StallOwing`, `StallAnswering`, `StopRepeating`, `StopOverusing`, `Admit` decides on it
in the order of the code, and admitted calls are taken one by one (`Skip`,
`NeedsApproval`, `Execute`).  `Execute` is the whole body of the inner loop:
record, verify, count failures, count fix cycles, break.  `Conclude` is the
completion rule.

### GovernedWorkflow and Governance

State: the request (which patterns its text matches, which tool it invokes, which agents were replaced), the
stage of `GovernedWorkflow.run`, its artifacts as far as later stages look at them, the status the service
writes, and as history every handler called, with the approval of its execution.  `Begin` is `RequestService.execute`
with a fresh context; `Plan`, `Approval`, `Research`, `Execute`, `Review`, `Evaluate` and `Comply` are one stage each,
with the shipped agent or a free one; `Raise` is an exception that ends the execution as failed: of a free agent, of a tool that an
invocation names, of `AgentInput` before the planner, and of `ConversationTurn` in the middle of the loop with the model, whatever it has used.
`Risk` is `classify_risk`, `EvaluationPasses` the conjunction of the gates, `PolicyFails` the rules.

`Governance` knows an outcome, the gates passed and what was done: gates are asked in order, nothing is
done before the first, an answer leaves after the last.  In `Promise` a gate counts as passed if the stages have come to it *and* what it
asks for is there: an approval if the plan requires one, the verdict of the review, all that the evaluation looks at (`Cleared`).
A stage that raises in the middle of using a tool is a `Stop` that adds effects behind the door.

### ModelDesk

State: the saved settings and the writes whose commit is outstanding; mode, selection and `ai_provider` in memory;
registry entries with status and counts; the model of each instance; the shared failure history; the
network and what the process believes of it; verifications under way; for each request its provider and
those it has lost.  `Boot` is the lifespan up to the first request, `Crash` forgets all that is
not committed; `Select`, `Configure`, `AutoSelect`, `Feedback` and `VerifyStart` are endpoints; `Route`,
`Answered`, `ManualFails` and `Fails` are what a request does to the registry; `RunTest` puts one test to
the model the instance has *now*; `VerifyEnds` files the verdict.  `Passes` says what reply passes which
of the eleven tests.  History: `astray` (memory and database were parted by a failed, refused, overlapping or
unrestored choice), `candid` (every test of the verdict was put to the entry's own model), `cleared`
(verified since last condemned).

### SessionContext

A text is its length.  `Send` composes the message from what was typed and attached
(`format_attached_files`, whose count of the fences is one short), `Assemble` chooses the history
within `HistoryBudget` (`Select`: the newest turns that `Fitting` finds to fit together, or a `Cut` of the newest one), `Ask` prunes
when the context is too long (`Prune`: of the results that are `Prunable`, the oldest first), `UseTools` appends results shortened
by `ResultMessage`, `FinalAnswer` stores the turn.  Loops that add up lengths are `Accumulate` and `Sum`, folds; the loops that stop at
the first turn or result that is enough are stated by what they stop at (the greatest number of turns that fits; what is left of
results in front of a position).  Names of the module are long (`ContextSpec`, `message`) where `Toolbox` uses the short ones, as
one proof module extends both.  Validation (`AgentInput.text`, `ConversationTurn`) fails a request
whose text is above 20000.  All limits and figures are those of the code.

### Toolbox

State: which paths are files or folders and the pieces of text in them; per request the call it is at, what its
handler was given, the text its edit has read (`original`), the result, its evidence and session files.  `Execute` is
`ToolRegistry.execute` with the handler: whole, but for `modify_file`, which reads the file in `Execute` and writes what it made of it in
`WriteEdit`.  Between the two nobody else of the same event loop runs (`Free`), as no handler but that of commands awaits; but
`CommandWrites`, what a process does to the disk while its request waits and also after its timeout, may come in between, and so may
the handlers of another worker (`WorkerOf`).  The repository starts one process (`src/docker-entrypoint.sh:7`, `src/scripts/run_local.ps1:9`,
`src/scripts/launch.py:117`), which is the premise of `EditsSurvive`, written as `OneWorker`.  `Verify` is what happens behind the
await, and `Answer` compares the claims with the evidence.  `Normalize`, `Repaired` and the
defaults work on arguments in the order the model wrote them.  A file that is copied onto a folder lands in it (`Inside`).
History: `kept` (pieces an edit put there and nobody took back; an edit that is overtaken by a command keeps only its own),
`wrote`, `disturbed` (another request touched the place of a result that is not verified yet).

### ChatClient

State: the page as named above, and per call in flight the function that waits, the conversation and message it is about,
and what it waits for (headers, body, list of conversations, end).  A post goes its own way: it may be served
although nobody waits any more, or lost.  `Send`, `Approve`, `Cancel`, `Open`, `NewChat` and `Delete` are what a user does;
`Respond`, `Receive`, `Adopted`, `End`, `Fail`, `Opened`, `NotOpened`, `Deleted` and `NotDeleted` are the code
between two awaits.  History: `gestures` against `runs` (what was clicked for and what the server ran), `asked`, `stray` (something was
shown in a wrong place), `disturbed` and `released`, which name the two situations in which the page is *not* correct: a
switch or a failure while something is awaited, and an approval that ends while a message is being sent and
clears `state.sending`.

## Runs

| Run | Configuration | Shows |
|---|---|---|
| `lifecycle_shipped` | 1 request, 2 handlers, threshold 1, budget 2 ticks (the shipped relation of 300 s and 600 s), 2 memory items, 2 takeovers | what holds although an execution may outlive the stale threshold: one owner, coherent rows, memory only of answers and final answers *until a takeover*, one memory item and one more *for each takeover*; the first recovery of a request hits no live execution, unless one of its executions was slower than the threshold; the ledger is implemented throughout |
| `lifecycle_locks` | 2 requests of one session, 2 handlers, one verdict (failed), threshold 0, budget 0 | sweeps and deletions lock the rows one by one in any order, and may wait for each other: nobody stays in the database for ever |
| `lifecycle_twice` | 1 request, 3 handlers, threshold 1, budget 3 | violation: a slow request is executed twice at once |
| `intake` | 2 users, 2 sessions, 1 key, 3 requests, 2 handlers | answers and retries agree, sessions are never empty or mixed before a deletion, a chosen title stays |
| `routing` | 2 providers (one Ollama), 2 models, 3 entries, 2 recycled requests, 2 rounds, 2 user steps | manual mode keeps its provider, and its model until the first fallback, metrics are honest unless interfered with, every request ends |
| `agent` | 2 edits, 3 commands, 1 reading call, 1 copy; 4 rounds, 2 calls per output; limits 2 / 3 / 2 / 2 / 1 | no call executed twice, limits bound what is run, completion and its mark are truthful about what is counted, directives bounded |
| `workflow` | all 64 sets of patterns, 2 tools (one guarded), the shipped agents or one replaced, 2 executions | guarded tools and dangerous texts only with the approval of that execution; completed means checked; `Governance` is implemented |
| `context` | 2 profiles, lengths on both sides of each limit, up to 4 files, 3 turns, 3 rounds | history is the newest part without a gap and within its budget, pruning spares what the next step needs, an answer too long to be read again ends its session |
| `client` | 2 conversations (one from an earlier visit), 2 calls in flight, 2 messages, 1 approval | every run was clicked for, one message at a time, nothing misplaced on an undisturbed page, only what no timer bounds leaves the page thinking |
| `toolbox` | 2 requests of one process, 14 kinds of calls, 3 calls in any order, 3 paths and one inside a folder, commands that write | arguments arrive as written, edits last, failed verifications have a cause, the claim "created" is backed |
| `models` | 2 providers, 3 models, 1 request, 1 verification of 4 tests, 3 user, network or crash steps | a settled choice is the saved one, condemned models stay out, verdicts are honest about the model tested |
| `models_manual` | the local provider with 1 entry, 4 steps | violation: after a restart manual mode routes a request to a provider nobody selected |

Nine more configurations each refute one statement of the repository, with TLC's shortest counterexample as a result; they say what the
code does *not* keep beside the properties above that say what it does:

| Configuration | Property | Counterexample |
|---|---|---|
| `AgentLoop_marked.cfg` | `MarkedIsUnchanged` | an answer is marked "not completed" although a file was copied |
| `ChatClient_stall.cfg` | `ThinkingEnds` | a body that never comes leaves the page thinking for ever, under fair timers |
| `Toolbox_race.cfg` | `AppendAdds` | an append takes back what a command wrote between its read and its write |
| `Toolbox_claims.cfg` | `ExecutionIsBacked` | an answer claims to have executed something, without a note and without evidence |
| `Toolbox_wide.cfg` | `WrittenIsVerified` | a file created as asked fails its verification for a character of two bytes |
| `ProviderRouting_manual.cfg` | `ManualIsExact` | manual mode runs the model a fallback left on the instance |
| `ProviderRouting_report.cfg` | `ReportsAreHonest` | the fallback of one request changes the model under another, which reports the old one |
| `ModelDesk_config.cfg` | `ConfigurationIsSaved` | a refused configuration changes the provider mode and does not save it |
| `ModelDesk_verdict.cfg` | `VerifiedIsCapable` | a model that can pass no test of calling tools becomes verified, as another one was asked |

Why these bounds are enough to show the interesting cases:

- *lifecycle*: a double execution needs a runner, a recovery and a second runner.  Two
  handlers suffice for the takeover and everything after it, since a
  handler is reused; the violation takes three because the first must still be running.
  Two requests are needed only where handlers wait for each other, in `lifecycle_locks`: two rows are the least that two
  transactions can lock in opposite orders, and two handlers are any pair of sweeps and deletions.  Its executions take no time
  and end, if they end, in one verdict: `LocksSpec` is `FairSpec` without the steps to another verdict, as verdicts are alike to locks (with a
  budget of one tick it passes too, 629000 states in five minutes).  Requests interact through nothing but locks, so that the other runs have one.
  `MaxTakeovers` ends the count of takeovers, behind which `ItemPerTakeover` says nothing.
- *intake*: two handlers race; three requests give a loser, a winner and a successor;
  two sessions and two users give the foreign session and the reused identifier.
- *routing*: two providers are the least that can be lost in turns, one of each kind (the
  selected model is re-applied on Ollama only); one undiscovered entry lets an instance
  stand on a model no fallback offers; two rounds give a fallback and an answer.
- *agent*: one tool that is not counted beside those that are is enough for the mark; the limits are scaled (shipped: 15 rounds, 2 same calls, 4 same names, 5 fix
  cycles, 3 failures, 3 nudges) so that each can be hit within four rounds, with one
  limit on fix cycles below and the others beside it; the proofs cover all values.

- *workflow*: the text is fixed and all its kinds are enumerated; two executions give the approval that belongs to
  the other one; replacing one agent at a time is enough because no property relates two replaced agents, and the theorems
  cover all sets.
- *context*: a length matters only by the side of a limit it is on, and the lengths are taken from both sides; three
  turns are the least that have an old, a newest and an overflowing one; three rounds give more results than are spared.
- *client*: two calls are the least that can overtake each other, two conversations the least one can be in
  the wrong one of; the second message makes a repetition visible.  The safety properties are proved for all bounds.
- *toolbox*: every write of a file races with at most one verification or one open edit, so two requests suffice; three calls give an edit, another,
  and what comes behind both; two calls are a command and the edit it overtakes.
- *models*: one model that can do everything, one that only talks, one of another provider; a
  verdict needs one exchange of the model in the middle; the three safety properties are proved for all bounds.
  The violation needs a selection, a mode, a crash and a request: four steps.

`CHECK_DEADLOCK FALSE` stands where the system may stop: requests that are answered and
never called again, identifiers or steps that run out, an agent loop that has ended.  In
`routing` requests are recycled and deadlock is checked.

Bounds that are not in the code: `MaxRemembered` (memory items counted), `MaxTakeovers` (takeovers counted), `MaxUserSteps`
(selections), `MaxBatch` (calls per output), `MaxTurns`, `MaxFiles`, `MaxRounds` of `SessionContext`, `MaxMessages`,
`MaxApprovals`, `MaxCalls`, `MaxSteps`, the saturation of `age`, and the finite sets of identifiers.

## Fairness

- `RequestLifecycle!FairSpec`: strong fairness on `Progress(h)` for each handler: what it does in the database.  The event
  loop resumes every handler whose await is done, and PostgreSQL queues the waiters of a row,
  so a handler that is enabled again and again runs; strong, because a lock may be taken and
  released by others in between.  A workflow owes nothing: behind the timeout of a command `communicate()` is awaited again without a
  bound (`tools/command.py:369`), so `Decide` has no fairness and an execution may last for ever.  None either for `Call`, `Interrupt`,
  `Tick` or `Accept`: clients, crashes and time owe nothing.  `NobodyWaitsForEver` needs `DeadlockAbort`, which
  the database performs.
- `ProviderRouting`: weak fairness on the steps of a request that has begun, as provider clients
  put a timeout on every call and nothing else blocks; none for users or arrivals.
- `ChatClient`: weak fairness on the timer of a call (`setTimeout` fires), and on nothing else: what the server sends behind its headers,
  and what `loadSessions` waits for without a timer (`app.js:476`), may never come.  `OnlyTheServerHangs` names these places; that
  the page stops thinking without them is a claim of the code that `ChatClient_stall.cfg` refutes.
- `RequestIntake`, `AgentLoop`, `GovernedWorkflow`, `SessionContext`, `Toolbox`, `ModelDesk`: safety only.

## Proofs

TLAPS checks eight modules, `RequestLifecycle_proofs`, `RequestIntake_proofs`, `ProviderRouting_proofs`,
`AgentLoop_proofs`, `GovernedWorkflow_proofs`, `ModelDesk_proofs`, `ChatClient_proofs` and `ToolsAndContext_proofs` (for `Toolbox` and
`SessionContext`, which rest on the same lemmas about folds); they hold for every value of the
constants that satisfies the named assumption of each module (functions have their types, "none" values
are not identifiers, bounds are natural numbers, at most one tool executes commands, the places for calls of a page
are finitely many).  Each proof has one inductive invariant, checked by TLC on the instances of the runs before it was proved.
`EditsSurvive` has the premise `OneWorker` besides, the number of processes the repository starts.

**Lifecycle.**  None of the safety properties is inductive.  `OwnershipInv` adds what makes
them so: what a handler's locals hold by where it is (`LocalsInv`); row locks exclude each
other and freeze the row (`LocksInv`); before a takeover an execution is alone with its
row, which still holds what it loaded (`OwnerInv`).  The last part is what makes the column-wise
write of `Save` coherent: an unchanged column equals the loaded one.  For `ItemPerTakeover` there is `ItemsInv` beside it: what is
remembered, the executions that may still remember something and a row that may be claimed are together one, and one
more for each takeover.  Proved from it:
`TypeCorrect`, `SingleOwner`, `CoherentRows`, `MemoryOfAnswers`, `ItemsPerTakeover`, the action property
`AnswersAreFinal`, and `TableImplementsLedger`: each step maps to a step of the ledger or a
stutter (a late save after a takeover to `Overwrite`, a commit of a recovery to `TakeOver`).
`RecoveryOfTheSlow` assumes nothing of budget and threshold (as shipped, the budget is twice the threshold) and adds `RecoveryInv`: as long as no
execution of a request has outlived the threshold, the clock of the row is the clock of its execution, so a row found stale has none.

**Routing.**  `RoutingInv` is `TypeOK` with one conjunct for each thing a request relies
on: rounds are only left below the bound, the provider in use is not blocked, a steady request
is on the selected provider, the selected model stands on its instance until a fallback,
and a report matches the instance until somebody touches it.  Proved: `RoutingTypes`,
`LostProviders`, `ManualProvider`, `ManualModel`, `HonestReports`.

**Agent loop.**  `LoopInv` is `TypeOK` with `UseInv`, `ChangeInv`, `FixInv` and a bound on
directives.  `ToolUseBounded` compares what was *run* with a limit on what is *proposed*, of
whole outputs; the bridge is that the different calls seen of a tool are at most its count, that
an output is admitted only below the limit, and that calls run or admitted are calls
seen.  `ExecutedOnce` needs that `executed` is exactly what was run while the loop
goes on.  `FixInv` says that an edit no command has followed is not part of a cycle yet.
Proved: `TypesHold`, `CallsRunOnce`, `ToolUseIsBounded`, `CompletionHasChange`,
`MarksHideNoCounted` (an answer is marked only if nothing that is counted has changed; that something uncounted has is what
`AgentLoop_marked.cfg` shows), `DirectivesAreBounded`, `FixCyclesAreReal`, and `FixLimitIsDead`: as
shipped, `MAX_FIX_CYCLES = 5` can never end the loop, because the loop ends by
`MAX_SAME_TOOL_NAME = 4` before it.

**Intake.**  `IntakeInv` says what races leave intact: a handler that adds a request holds an identifier nobody else has
(`FreshInv`); a session is opened by one handler and not there before it commits (`OpenInv`); keys are unique per user
(`KeyInv`); what is marked for deletion is of the handler's own session (`HandlerInv`); and until a session is first deleted,
everybody who adds to it was admitted as its owner and has seen a counter not above its messages (`OwnerInv`).  The
last is needed because the counter is read, incremented and written back: it may lose messages, never invent one.  A title that was
chosen stays because of `CountInv`: a session in the table has a counter above 0, so that whoever adds to a session it has not opened has
seen such a counter and does not pass the guard of `Store`, not even when the chosen title is blank.  Proved:
`AnswersAreOwn`, `RetriesGetOneRequest`, `SessionsHaveMessages`, `SessionsHaveOneOwner`, and the action property `TitlesStay`.

**Workflow.**  `CourseInv` records what an execution has established by its stage: behind the gate an approval the plan asks
for was given, the plan is the planner's own, and behind the evaluation everything it looked at still holds, as later
stages change none of it.  Proved: `GuardedToolsGranted`, `DangerApproved`, `CompletedChecked`, and `WorkflowImplements`: each stage
maps to `Clear` of its gate, `Act`, `Release`, `Stop` or a stutter of `Governance`.

**Models.**  `DeskInv`: a write under way carries what the process holds, and of all that no write carries the database has it
(`SavedInv`); a failure is the only thing that can make failures too many, and it condemns (`RatingInv`; a success only lowers
their share); as long as all tests were passed by the entry's own model, it can pass them (`CheckInv`).  Proved:
`ChoiceIsSaved`, `CondemnedStaysOut`, `VerdictsAreHonest`.

**Client.**  `ClientInv`: a call that waits and its post agree, and an approval is open or under way only for what the server asked
(`CallInv`); what was run *and what is still on its way* is at most what was clicked for (`CountInv`, the strengthening without which
a second run could be on its way); one send at a time (`OneSend`); and on an undisturbed page a switch is alone and all else is about
the conversation on the screen, but for the first message of a new one (`PlaceInv`, `First`).  Proved: `ApprovalsAreClicks`,
`OneMessageAtATime`, `MessagesAppearInPlace`.

**Induction over data.**  What the registry makes of a dictionary, what replacing makes of a text and every sum of lengths is
computed along a sequence of any length.  The library's principles of induction take an operator, which no installed prover can
instantiate; `ToolsAndContext_proofs` works with sets instead: a non-empty set of numbers has a least element (`LeastExists`, from the
well-foundedness of the strict subset ordering of a finite set), so that a set with 0 and all successors up to `n` has all up to `n`
(`UpTo`).  `AccumulateCourse` unfolds a fold into its course of values `g[0] = 0`, `g[i + 1] = f[g[i], s[i + 1]]`, and `NormalizeCourse` and
`Flattened` do so for the dictionary and the text; all that follows talks about courses only.  Why the folds unfold is
`GainExists`, `FoldExists` and `JoinExists`: the recursive functions in the definitions of the community modules exist.

**Tools.**  `ToolInv` has, for each request, what its handler was given (`CallStands`: what `Handed` makes of the call),
what its result is worth until another request changes the place (`ResultStands`: files reported written hold as many
pieces as reported, reported folders are there), and who has created something (`ClaimStands`); and for the disk that every kept
piece is still in its file (`EditsSurvive`), that the text an open edit has read is the text of its file unless a command has
overtaken it (`EditInv`, which needs `OneWorker`), and that what is no file has no text (`DiskInv`).  `ResultStands` is what makes
`FailureIsExplained` inductive: it holds from the handler to the verification, over all that others do in between.  The lemmas carry the weight:
`NormalizedArguments` and `HandedArguments` (in whatever order a model wrote its arguments, canonical names win over
aliases, the first alias over the second; nothing is added but a missing mode), `EditKeeps` (an edit, in
every mode and of the first or of every occurrence, keeps the pieces it does not take away and adds its own), and one lemma for each kind of
handler, which says what it writes and what it leaves.  Proved: `ToolInvariant`, `ArgumentsAreFaithful`, `EditsAreNotLost`, `FailuresAreExplained`,
`ClaimsAreBacked`; from `ToolboxAssumption` (a dictionary has each name once, what is resolved is a path, a plan is a
sequence of names and contents).

**Context.**  `HistoryIsNewest` is about what is read while a request runs, but what was selected is only recognisable at its beginning:
`HistoryInv` keeps that the context *begins with the selection made for it* and has no other history.  `StubInv` says that
behind every stub there are two whole results, which pruning again must not disturb; `PoisonInv` that a poisoned session is at rest or
about to fail.  `FittingIs` and `SelectIs` say what is selected, `MessagesTotal` that its characters are the sum of the chosen
turns, `SelectedIsFair` that it is the end of the conversation and within its budget but for the mark of a cut; `PruneIs` and `PruneMatters`
follow pruning by partial sums: what is left in front of a position never grows along the context, so that once it is within the share
nothing behind is touched.  `FormattedRange` and `ComposeRange` bound the composed message by one character more than the limit, the
fence that is miscounted.  Proved: `ContextInvariant`, `HistoryIsTheEnd`, `PruningSparesTheNew`, `PoisonedForGood`; from
`LengthsAssumption` (lengths are natural numbers, an answer is not empty, what is typed is within the limit of the API),
`ResultsAssumption` and `BoundsAssumption`.

**Proved and not run**: the type invariants, `OwnershipInv`, `RecoveryInv`, `LoopInv`, `BlockedStaysBlocked` (theorem `LostProviders`), `FixCyclesArePairs`, `ToolInv`, `ContextInv` and the
other inductive invariants; the theorems cover the instances.

**Only model-checked**: the liveness properties `NobodyWaitsForEver`, `EveryRequestEnds` and `OnlyTheServerHangs`, as temporal reasoning
under fairness needs ENABLED, which the prover does not support.  Every invariant and every action property of a passing run, and both
refinements, are theorems.  The violations are counterexamples and need no proof.

## Findings

Each is a counterexample of TLC to a statement of the repository: the first two are the runs `lifecycle_twice` and `models_manual`,
the others the configurations [above](#runs).

1. `lifecycle_twice`: "makes double-execution of the same request impossible"
   (`src/docs/PHASE-2-9-IMPLEMENTATION.md:116`), while an agent loop may run 600 s and a request is stale
   after 300 s.
2. `models_manual`: "MANUAL mode with an unavailable provider must not silently fall back to another provider"
   (`api/app.py:387`), while a selection whose model is not listed at a start is not restored, and manual mode without a selection
   takes `_auto_select`.
3. `ModelDesk_config.cfg`: "Update provider configuration. FASE X: persists to database." (`api/app.py:1031`), while a refused routing mode leaves the provider mode of
   the same call changed in memory and unsaved (`api/app.py:1104`).
4. `ModelDesk_verdict.cfg`: "A model is only VERIFIED after passing real compatibility tests" (`providers/capability_verifier.py:4`), while its tests run on whatever model the
   shared instance has, and the verdict is filed under the model asked for (`providers/model_manager.py:146`).
5. `ProviderRouting_manual.cfg`: manual selection is absolute, with "no model substitution" (`src/FASE-W-USER-CONTROLLED-ROUTING-CLOSURE-REPORT.md:120`), while a
   fallback changes the model of an instance that all requests share; only an Ollama instance gets its model back.
6. `ProviderRouting_report.cfg`: the metadata expose what was executed "honestly" (`agents/builtin.py:305`), while the fallback of another request
   changes the model between the note of it and the call.
7. `AgentLoop_marked.cfg`: "Whether any state-changing operation (file or command) succeeded." (`agents/task_state.py:288`), while `MODIFY_TOOLS` omits
   copies, deletions and generated tests.
8. `ChatClient_stall.cfg`: the backend "can never leave the UI in an infinite 'Thinking…' state" (`ui/static/js/app.js:139`), while the timer is cleared at the headers (`:173`) and
   the list of conversations is loaded without one (`:476`).
9. `Toolbox_race.cfg`: "'append': Append content to the end of the file." (`tools/development.py:269`), while `modify_file` reads, changes and writes it by separate calls
   (`tools/development.py:296`, `:365`).
10. `Toolbox_claims.cfg`: "success claims in the response are backed by evidence" (`agents/evidence.py:139`), while no pattern recognises one.
11. `Toolbox_wide.cfg`: "Verify that create_file actually created the file." (`agents/verifier.py:57`), while a size in characters is compared
   with one in bytes.

Seen while modelling; the models contain these behaviours, and the properties say what holds beside them:

- *Stale recovery*: "never falsely recovered" (`src/docs/PHASE-2-9-IMPLEMENTATION.md:148`), while the marking UPDATE repeats the
  check of the status but not of the age, so that a request claimed again in between is failed.
- *Deletion*: "Delete a session and all its messages." (`ui/routes.py:112`), while a message may be committed between the two
  DELETE statements and is then in no session.
- *Counter*: "request_count increments with each message sent." (`src/tests/integration/test_phase_i_integration.py:292`), while two
  creations may load the same value.
- *Completion*: "verification decides" (`agents/task_state.py:15`), while a mutation is recorded before it is verified
  (`agents/builtin.py:1012`) and never taken back.
- *Verification of models*: once one model is verified, fallbacks consider verified ones only (`_get_candidates`).
- *Settings*: the default of a setting that was never saved is "deterministic", so that loading settings at a start replaces an
  `AI_PROVIDER` of the environment (`shared/settings_store.py:72`; `src/README.md:98` starts the server that way); the network is looked at once.
- *Context*: `format_attached_files` counts eight characters for fences that are nine (`context/files.py:53`), so that a
  message can have 20001 characters, which the planner's input refuses; an answer
  of more than 20000 characters is stored and then fails every later request of its session (`agents/contracts.py:124`).
- *Page*: after a
  timeout the server may still run the message, and sending it again runs it twice.
- *Tools*: `mode` is not in the schema of `write_file` and is dropped (`tools/registry.py:180`), so that an append overwrites;
  the names of session files are
  looked for unresolved, which gives false notes; `generate_tests` overwrites an existing test file; an answer of a request that has used no
  tool gets no disclaimer; behind the timeout of a command `communicate()` is awaited again without a bound.
- *Dead code*: `ProgressDetector.evaluate` and with it the cycle detector is called by tests only; `MAX_FIX_CYCLES` cannot be reached
  (`FixLimitIsDead`); a loop that ends by its round bound returns the raw text of the last tool call as its answer.
- *Background loops*: the retention sweep never commits (`api/app.py:111`), and a metric flush iterates over live dictionaries across awaits
  (`infrastructure/stores.py:382`).

## Limits

- Text is abstract: an answer, a prompt, a reason or a path is a value, a length or a short sequence of pieces.  What a regular
  expression finds in a text is an input.
- The modules are not composed into one state space: each leaves the decisions of the others free, and what they share
  (the outcome of the workflow, the provider of a request, the approval of an execution) is named alike.  The two refinements
  (`RequestLedger`, `Governance`) are the compositions that are checked.
- Of the task machine only terminal states are kept, as nothing reads the others; the budget of
  wall-clock time may run out before any round.
- A provider instance is its model attribute; a call to it is open or not.  A handler of a tool is one step
  on the disk, but for `modify_file`, whose read and write are two; a single write has happened or has not.
- PostgreSQL is READ COMMITTED with row locks, unique constraints and deadlock detection.  SQLite, which
  tests use, serialises writers and allows less.
- JavaScript runs one function at a time between two awaits, as browsers do.

## Not modelled

- *Managed OpenCode server*: calls of the operating system (PowerShell, `taskkill`, a job object) by functions that never
  await.  Within the program nothing interleaves, and what a crash leaves is decided outside of it.
- *Provider clients*: requests to model servers; what they answer and how they fail are inputs of `ProviderRouting`, `AgentLoop`
  and `ModelDesk`.
- *Task classification, profiles, router, model intelligence*: tables and keyword matching without state; what they decide is an
  input where it matters.
- *A provider without a `model`* (`except (AttributeError, TypeError)` behind a fallback, `agents/builtin.py:687`): an instance of
  the repository's provider classes accepts the assignment, so that this path is not taken.
- *Metrics and observability*: nothing in the program reads them to decide anything.
- *Retention sweep, expiry, evidence upsert, audit log*: single statements that nothing else waits for; the sweep changes
  nothing, as it does not commit.
- *Descriptions of projects, documents and tools in the prompt*: text extraction; a length of the system prompt in `SessionContext`.
- *Migrations*: one-off DDL scripts.
- *Parsing of model output into calls*, prompts, the summary of repeated failures: string work; `AgentLoop` takes any sequence of calls.
- *The page's dialogs, renaming and rendering*: they wait for nothing a conversation depends on.

Of the modelled parts what is left is the composition of `ChatClient` with the request service: an answer that never
arrives and a request that is recovered later are both behaviours, of different modules.
