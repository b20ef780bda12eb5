# commons-crew, specified

TLA+ specifications of commons-crew, the runtime in which a personal assistant
turns a user's request into a *run* of tasks, has them executed by specialists,
and asks for approval before anything with consequences happens. The modules
here are written from the code; paths are relative to the repository, and
`core` is `packages/core/src/index.ts`.

## The system

Two processes, `crew-api` (HTTP) and `crew-runner` (a timer that drains a job
queue), each build the same `createAppServices` (`core`:2150) on one shared
store. There is no message between them: everything they tell each other goes
through the stored state. A third program, the VS Code extension, is separate.

| part | state it keeps | operations | talks to |
|---|---|---|---|
| run lifecycle and runner queue (`core`:2905-3661, 6010-6155; `apps/crew-runner/src/create-app.ts`) | `runs`, `tasks`, `runnerJobs`, in memory `shuttingDown`, `activeRunJobs`, `draining` | `claimNext`, `start`, `fail`, `executeRun`, `control` (pause, resume, cancel), `restoreActiveRuns`, `shutdown` | approvals, provider, tool loop, incidents |
| approvals (`core`:6158-6253) | `approvals` | `decide`, the gate in `executeRun` | runs, jobs, actions |
| clarification threads (`core`:6255-6448, 3680-3745, 5219-5295) | `clarificationThreads`, the run's status before the question | `create`, `resolve`, the answer in `postMessage` | runs, jobs |
| action governance (`core`:238-336, 6450-7260) | `actionProposals`, `actionExecutions`, the binding of an approval | `createProposal`, `execute` | approvals, action executor, delegation |
| delegation and org autonomy (`core`:397-452, 3758-3972, 4049-4251) | `runs[].delegation`, `chairRegistration`, `orgAutonomyProfiles` | `createChairRun`, `delegate_to_child`, `requestDelegationApproval`, `setOrgAutonomyTier` | runs, approvals |
| autonomous tool loop (`core`:3175-3313) | none stored | up to five model turns, each with tool calls | action governance, provider |
| intake, planning, sessions (`core`:2643-2903, 4253-4550, 5015-5600) | `sessions`, `requests`, `messages`, `plans`, `clarifications` | `postMessage`, `createRunFromRequest`, `createPlan`, reruns | everything above |
| incidents and events (`core`:2389-2608) | `incidents`, `runEvents` | `appendEvent`, `syncRunIncident`, lifecycle of an incident | runs |
| state stores (`packages/core/src/json-store.ts`, `postgres-store.ts`) | the state itself | `read`, `write`, `flush` | every part |
| materialization, spec corrections, specialist workers, catalog, collaboration, VS Code sessions, backups | their own records | see PROJECT.json | |

The hard part is that a *handler is a chain of awaited store accesses*. One
read or write of the store is atomic, a handler is not: between two accesses
any handler of either process may run, a process may be killed, or it may be
told to shut down, in which case some accesses are skipped (`shuttingDown`)
and others are not. Statuses of run, tasks and job are written one after the
other, each by a blind write, and several handlers decide on what they read
many awaits ago.

What makes the parts correct:

- *run lifecycle*: no gated task starts without an approval; at most one
  execution of a run; a completed run has all its tasks completed; a run that
  is over stays over; a run on hold is not restarted by anything but a requeue;
  the job follows its table; nothing queued, running or blocked is stranded;
  queued work gets done or waits for somebody.
- *action governance*: a gated action runs only under an approved, unexpired
  approval bound to exactly this action, tool and target; an action runs once;
  one live proposal per idempotency key.
- *delegation*: the depth of the chain, the cap on automatic approvals, the
  tier in force when a child is spawned.
- *stores*: an acknowledged write is never lost, a refused one leaves no trace, a
  read never goes back in time.
- *incidents*: one open incident per run, in the state of its last status.

## Modules

| module | what it is |
|---|---|
| `RunLifecycle` | one run: its status, tasks, job, approvals and questions, the handlers of both processes that touch them, crashes and shutdowns |
| `JobTable` | the abstract promise of a runner job; `RunLifecycle` is checked to implement it (`JobFollowsTable`) |
| `ActionGovernance` | proposals, approvals and executions of tool calls, and delegation, which is one of them: tiers, the cap, fresh approvals |
| `Store` | the abstract promise of a state store: what is acknowledged stays, what is refused leaves no trace, a read is a state there was |
| `JsonStore`, `PostgresStore` | the two stores with their chains, the file and its rename, the transaction and its row lock; each is shown to implement `Store` |
| `PostgresSchema` | migrations by booting processes and by the operator's script |
| `Intake` | one session: messages, requests, questions, threads, plans, runs and reruns |
| `TaskPlan` | the tasks a run gets from its specialists, their order, and a rerun's |
| `ToolLoop` | the loop of model turns and tool calls of a task, and the worker process the model is called in |
| `SpecCorrection` | worktree, branch and pull request of `propose_spec_correction` |
| `ActionTools` | `write_file` and `edit_file` in the workspace of an action |
| `EditorSession` | the VS Code extension: teams, agent loops, approvals by dialog |
| `Incidents` | `setRunStatus` with `syncRunIncident`, operators, the notice to the parent |
| `EventStream` | `appendEvent`, its listeners and a client's connection |
| `Materialization` | the files, the verdict and the record of a materialized specialist |
| `CatalogSync` | the checkout of labor-commons and the syncs that read it |
| `Workspace` | users, memberships, permissions, collaboration threads |
| `ReleaseGate` | prompts, evaluations, and the gate that is built from both |
| `Databases`, `SpecialistTools`, `Services` | components that share no state, side by side, each with its own variables: `PostgresStore` and `PostgresSchema`; `ToolLoop`, `SpecCorrection`, `ActionTools` and `EditorSession`; the seven from `Incidents` to `ReleaseGate` and `TaskPlan` |
| `RunLifecycleProofs`, `RunExecutionProofs`, `ActionGovernanceProofs`, `JsonStoreProofs`, `DatabasesProofs`, `IntakeProofs`, `SpecialistToolsProofs`, `ServicesProofs` | inductive invariants and theorems |
| `MC_*` | the small instances |

`RunLifecycle`, `ActionGovernance` and `Intake` each take the store as atomic,
which is what `JsonImplementsStore` and `PgImplementsStore` say of writes; what
the stores do not promise of reads is said below. `Databases`,
`SpecialistTools` and `Services` instantiate components that share no state,
with the assumptions on their constants, so that one module of theorems can
speak of them. `MC_Stores`, `MC_Tools` and `MC_Services` extend them and run
them as one instance: a behaviour is one of the component chosen in its first
state. `MC_Governed` and `MC_Intake` choose between two instances of one module in
the same way.

*The order of records.* The code often takes the first record that fits
(`find`, `[0]`). In the JSON store that is the newest, because records are
prepended. The Postgres store lists every collection `ORDER BY id`
(`postgres-store.ts`:410), and most ids are random UUIDs. Wherever the first
record matters, the modules leave it open which of those that fit it is, or, for
ids that are times, take the oldest as well as the newest.

### How RunLifecycle corresponds to the code

A *thread* is one request or one execution in flight in a process
(`Home[th]`). `script[th]` is the list of store accesses its handler still has
to make; each is a record with the access (`op`), the task or approval it is
about (`arg`), the status it writes (`to`), the runner it names, whether the
code looks at `shuttingDown` right before it (`bail`) and whether the handler
ends when the transition is refused (`must`). One action performs the access at
the head: `RunWrite` is `setRunStatus`, `TaskWrite` is `setTaskStatus`,
`JobRead` and `JobWrite` are the two halves of `transitionRunnerJob`, `Failing`
is the read with which `failRun` begins. A read on which the code branches
(`Executing` and the actions built on it, `Recheck`, `Start`, `Decided`,
`Resolved`, `Closed`, `Replied`) replaces the rest of the script by what the
code does in that case, with the values it has read in it; stale values are
therefore in the model exactly where they are in the code. `work` stands for
the model and tool calls of one task, `synthesize` for the model call that
summarises the run; both may take any time.

Requests (`Pause`, `Resume`, `Cancel`, `Decide`, `ReportFailure`, `Propose`,
`Expire`, `AskUser`, `Resolve`, `Reply`) begin in a client process. `Env` lists
those an instance allows and what else the surroundings may do: an invalid or
throwing provider, a failing task, a crash, a shutdown. `Crash(p)` ends all
threads of p wherever they are; `Shutdown` and `Stopped` are the graceful way,
with the skipped accesses (`Bail`, and the writes that `shuttingDown` turns
into nothing); `Boot` is `restoreActiveRuns`, which every process runs when it
starts. `Propose` and `WorkProposes` are the one way in which an action that
needs an approval adds an approval to a task (`propose_spec_correction`), and
`Expire` the one way in which executing an action changes one.

`Overlap` says whether the accesses of two handlers may interleave. With
`Overlap = FALSE` the short chains run one at a time and only the long waits
(before a claimed job is started, during a task, during the synthesis)
interleave with anything; what fails even then is a flaw of the protocol, not
of an unlucky await.

Left out of this module: run events, incidents, agent runtimes, messages and
summaries written along the way (no guard of these handlers reads them); plan
changes; other runs (the queue's order among jobs). A test of `shuttingDown`
and the write it guards are one step. A read of the store is taken as atomic;
what the Postgres store does about that is in `PostgresStore`.

### How ActionGovernance corresponds to the code

The stored records are sequences in the order they were written: `runs` (layer,
parent, whether they belong to the org), `approvals`, `proposals`; a thread is
one request (`busy[th]`). `createProposal` is `Propose`, its read with every
check and refusal, and `ProposeWrite`, its write; `execute` is `Execute` (the
read and the approval gate), `BeginTool` (the write of `executing`), the tool,
and the write of the outcome (`Completed`). The tool is `ToolDone`, or
`ChildSpawned` for `delegate_to_child`, or `ToolFails`. `Returned` ends the
`try` in which the last event is written: `EvidenceFails` is its `catch` after
the effect, before or after the outcome was stored. `ExecuteTooLate` and
`ExpireWrite` are the branch for an expired approval. `Rebound` is the binding
that `execute` rebuilds and stores with the status, in which `required` is that
of the class. `Request` and `RequestWrite` are `requestDelegationApproval`,
`SetTier` is `setOrgAutonomyTier`, `Lapse` is half an hour going by.

An approval's life is `open` (no `expiresAt`), `running` or `over`. `rank` is
the place an approval is listed at: last first in the JSON store, anywhere in
the Postgres store, which lists by id, a random UUID; `Found` is the
`approvals.find` of `createProposal`, which takes the first. `granted`, `bound`
and `effects` are history: who was approved while bound to what, and what had
an effect. The accesses of two requests always interleave. Nothing in the code
keeps two requests from reading the same record before either writes; `raced`
remembers where that happened (`racedActions` by `execute`, `racedApprovals` and
`racedKeys` by `createProposal`), and the properties excuse exactly this.

Left out: targets (an approval has one only together with the action it is
bound to), work items, runs without a task, the evidence files, the status of
the run (neither handler looks at it), and a store that cannot even write that
an action failed, which is what a crash does to it.

Neither handler promises to get anything done, so the module states no
liveness and no fairness; requests may stop coming, so deadlock is not checked.

### How the other modules correspond to the code

*Stores.* One action is one file operation (`Load`, `Replace`) or one statement
or transaction (`Lock`, `Commit`, `Select`). A state is the set of the writes
it holds, so that a write that was lost or is half there can be told.
`chain` is the promise a process chains its writes to, `tail` what a read
awaits. In `PostgresStore` the state is in parts: part 0 is what has no table,
part t what table t holds; a read takes them one after the other outside any
transaction. `After` says that compose.yaml:69-73 starts crew-runner when
crew-api is healthy. The drill (`Backup`, `Verify`) begins with a read.

*Intake.* `hand[m]` is the handler of message m; one action is one store access
or one answer of the provider, in the order of `postMessage`. `Overlap` lets
handlers interleave, a crash may end them between any two actions. A content
is the set of the messages it was put together from. `Claim` and `End` stand
for the runner, which `RunLifecycle` has in full. `FirstListed` is what `find`
may give of open threads, pending questions and locked plans. Two histories say
what interleaved: `raced` has the requests whose question two messages were
answering at a time, `mixed` tells that anything began while a handler was under
way. The two writes of a rerun, of its request and of its run, are one step: no
handler reads that request in between.

*Tool loop.* `exec` is the execution in crew-runner, a step of it one model
call or one tool call; in the isolated modes the call goes through two files
named after the task and a worker process. `Lists` includes lists of tools
that have drifted from the policies, because the code checks against both. A worker
may outlive a crash of crew-runner; `stray` remembers that a call began
beside one.

*Corrections and files.* `SpecCorrection` has one action per git command and
the `finally` block as `Cleanup`; `ActionTools` one per awaited file operation
(`Check`, `CheckSource`, `CopyFile`, and the write, which may be cut short,
`FailsHalfWay`), with two requests and edits of the source in between. `spoiled`
remembers the actions two requests executed at a time, or whose write was cut
short.

*Editor.* `chat[c]` is one chat request with its team; `Call` is the read and
the class of a tool call, which may be refused before the gate (nothing to
replace), `Decide` the dialog, `Act` the effect.

*Incidents and events.* `ReadPrior`, `WriteStatus`, `Find`, `Sync`, `Notify`
are the accesses of `setRunStatus` in their order. Any number of changes may be
under way and any status may follow any, because cancelled and failed runs are
written again (see `RunLifecycle`). The histories say what the last change met:
another one beside it (`lone`), more than one unresolved incident (`single`),
operators (`touched`), a shutdown (`cut`); and which ends the run had, and which
notice a shutdown withheld (`had`, `missed`). `Write` and `Emit` are the
two halves of `appendEvent`; `Local` events are those of crew-api, `Remote`
those of crew-runner, whose listeners are in another process. `Listings` is the
order in which a client is sent what was stored: any in the Postgres store.

*Materialization.* `at` is the step that comes next and `After` the order of the
files; every step may fail into the `catch`, which leaves what is written.

*Catalog.* A reset writes file after file while it holds index.lock, and then
HEAD; a sync looks up HEAD, or records `unknown` if git fails, and then reads file
after file. Runs are pinned to `catalogSyncs[0]` (`pinned`): the sync stored last,
or in Postgres the oldest, whose id is a time (`clock`).

*Workspace.* Each request is its check, on what it reads, and its write;
`createUser` checks inside its write. `listed` is the membership of a user that
the store lists first, which one of several is open (`AddedOnce` says who has
one).

*Release gate.* A version stands for the prompts on disk, with the thresholds it
demands. A boot loads (`LoadPrompts`) and then syncs (`SyncStore`). `top` is
`evaluationRuns[0]`: a new evaluation may or may not take that place, since in
Postgres its random id decides.

*Task plan.* `Label` is the place of a specialist's name in the order by names;
ids are random, so the tasks' order among equal names is any.

### Fairness

Fairness of RunLifecycle (`FairSpec`): every thread that has begun something goes on
(`ThreadStep`: the event loop runs and a model call ends), the runner's timer
fires (`Claim`), a stopping process stops and a process that is down is started
again (`Stopped`, `Boot`). No request is ever obliged to come. The system may
go quiet, a run that is over or waits for somebody does, so deadlock is not
checked; `NothingStranded` says which quiet states are right.

JsonStore: the event loop runs and an operation on the file ends. ToolLoop: a
call of the model ends, by an answer, an error or the death of the worker (the
code has no timeout of its own: a provider that never answers hangs the task,
and nothing here says otherwise), and a runner that went down is started
again. The other modules state no liveness and no fairness.

## Runs

Bounds: tasks (`NTasks`), the gated ones (`NeedsApproval`), threads, crashes
(`MaxCrashes`), approvals proposed by actions (`MaxApprovals`), questions
(`MaxQuestions`). Two gates in four tasks let a run block twice with work in
front of, between and behind the gates; two runner threads let a second
execution of the run begin while the first is in a task; a second crash hits
the recovery from the first. In `governed` two requests interleave over two
proposals of one key. In its first part the second approval is the child's or a
fresh one, the second run is the child, and `Cap = 1` is reached by it; in its
second part two actions, of `deploy` or `write_file`, compete for one approval.
Two actions and one key are enough for every pair of actions to meet; longer
histories are what the proofs are for.

Requests and messages are interchangeable (SYMMETRY). A VIEW leaves out the
variables no action of the part reads and the properties it is for do not
mention: histories of the other part's properties and, where messages interleave,
the status of the session. A property of the other part is then still checked, in
one of the states that look alike.

The other instances: three writers and a reader on one JSON file; two
processes, two writers and a drill on two tables; three migrations, two
processes and the script, each started twice. Three messages, enough for a
request, its question, and a second question about it, with a second request
in between; two runs, so that one is the rerun of the other; in the part in which
handlers interleave one thread and no plans. Two turns and two calls
each, three tools: one automatic, one offered, one neither; one crash. Two
corrections, one of an entry that origin/main does not have, each tried twice.
Two changes of the status in flight, two moves of operators, three
incidents. Two syncs of two files over three versions. Three specialists,
two of them with one name. The bounds are in the cfg files and in `MC_*`.

| run | instance | checks |
|---|---|---|
| `orderly` | 4 tasks, 2 gated, fair, chains one at a time; pause, decide, task errors, invalid provider | `TypeOK`, `NothingStranded`, `StatusKept`, `Settles`, `ApprovedProceeds` |
| `interleaved` | 3 tasks, all interleavings of two executions and a client | `CompletedIsWhole`, `DoneOnce` |
| `restarts` | one runner process, crash or shutdown anywhere, all interleavings | `SingleExecution` |
| `recovery` | two crashes of the runner, chains one at a time | `StillDriven` |
| `all_events` | every event of the environment, chains one at a time | `ApprovalGate`, `JobFollowsTable` |
| `governed` | one chair, two requests at once that delegate and file corrections; tiers, decisions, requests for approvals, expiry, errors, a crash; or any two actions; all interleavings | `ActsAuthorised`, `OneActPerApproval`, `OneExecution`, `ExecutingIsDriven`, `OneWaitsPerKey`, `CompletedNotBegun` |
| `stores` | both stores and the schema, failing writes, crashes anywhere | `JsonImplementsStore`, `CallsSettle`, `PgImplementsStore`, `ReadsForward`, `ServesWholeSchema` |
| `intake` | three messages, threads, reruns, crashes; one handler at a time with plans, or all interleavings | `OneRunPerRequest`, `QuestionHoldsRequest`, `SessionWaitsForCause`, `RerunKeepsAnswers` |
| `tools` | the tool loop in its three modes, corrections, file tools, the editor | `AnswersItsTurn`, `OnlyReadsDone`, `LoopEnds`, `CorrectionsWhole`, `CopyIsOwn`, `ActsAllowed` |
| `services` | incidents, events, materialization, catalog, workspace, gate, plan | `IncidentTellsRun`, `ParentHearsEnds`, `StreamComplete`, `ReadyIsWhole`, `CatalogHonest`, `WorkspaceSound`, `GateHonest`, `PlanKept` |

In `services` and `stores` deadlock is not checked because bounded calls end;
in `tools` because a task that is done stops.

Runs that end in a violation, each a disagreement between the code and what the
repository says of it (the quotes are in PROJECT.json):

| run | violated | what happens |
|---|---|---|
| `lost_approval` | `ApprovedProceeds` | an approval decided before the job is marked blocked wakes nobody |
| `cap_exceeded` | `CapHeld` | delegations proposed below the cap are all executed, the cap is not looked at again |

### What the modules show beyond the runs

These are behaviours of the code that the models have. TLC exhibits them when the
constants named are changed, or when the histories named are taken out of a
property: what the properties excuse does happen in the runs.

`RunLifecycle` shows more, by changing the constants of these runs: two runner
processes, which share one runner id, both claim and start a job (a third
process `runner2` with a thread, `{decide}`, `Overlap`, `SingleExecution`); a pause
(`Env = {pause}`, `Overlap`) or a question (`{ask_user, resolve, reply}`) is
overwritten by `running` (`StatusKept`); a cancelled run becomes failed when its
task in flight fails (`{cancel, task_error}`, `StatusKept`); deciding the approval
a cancelled or failed run has left pending puts the run back in the queue, with a
job that is over (`{cancel, decide}` or `{report_failure, decide}`, `StatusKept` and
`QueuedIsClaimable`); a question
asked and answered during a task leaves the run queued with a running job
(`{ask_user, reply}`, `QueuedIsClaimable`); an execution rejected before its
first task leaves the run running for ever (`{provider_throw}`,
`StillDriven`); a cancelled job is overwritten by `running` (`{cancel}`,
`Overlap`, `JobFollowsTable`); approving an action that a task proposed
requeues the task, completed by then (`{propose, decide}`, `DoneOnce`); a crash
after a task was marked failed and before its run was lets the recovered run
complete (`{crash, provider_invalid}`, `CompletedIsWhole`), and with several gates
and a pause may leave it blocked with a paused job, which no decision requeues
(`{decide, pause, expire, provider_invalid, crash}`, three gated tasks, two
crashes, `StillDriven`).

Four more disagree with what the repository says of it:

- pause and resume during a task start a second execution, which completes the
  run while the first is at work (`{pause, resume}`, `CompletedIsWhole`;
  packages/contracts/src/index.ts:328 says that the status determines whether
  work continues, waits, or stops);
- a crash between completing the job and completing the run leaves, after the
  restart, a queued run whose job is over (two tasks, `NeedsApproval = {}`,
  `{crash}`, `Overlap = FALSE`, `QueuedIsClaimable`;
  apps/crew-runner/src/create-app.ts:139 says running work is resumed after
  runner restart);
- a restart of crew-api requeues what crew-runner is doing, because
  `restoreActiveRuns` runs in every process (`Fragile = {"api"}`, `{crash}`,
  `SingleExecution`; `core`:3635 takes it for a restart of the runner);
- with `Store = "postgres"` the spent approval may be listed before the fresh
  one, and the proposal is refused (`FreshIsFound`; `core`:4189-4193 wants a
  chair not to be a use-once primitive).

So does `ActionGovernance`. Two proposals that read before either writes bind one
approval, and both act on it in turn; two requests execute one action, at once, or
one after the other although it is completed; two actions of one key wait. These
are the races the properties excuse, and they are reached in the run: without
the excuse each of the four is violated. `ActsAuthorised` needs none. And some
things it does that no property forbids, because no text of the repository does:

- an approval decided for one action counts for the action it is bound to next
  (a chair's standing approval is meant so; `deploy` takes it too);
- a `propose_spec_correction` that was executed once and failed can be executed
  again without its approval being looked at (`Rebound`), although
  `core`:6833-6835 wants exactly this gate for it;
- the pending approval of a spec correction is what
  `requestDelegationApproval` returns, and it is bound already;
- an action whose evidence or last event could not be written is stored as
  failed, and when executed again has its effect twice;
- an action that has failed frees its idempotency key, is executed again all the
  same, and is then live beside the action that took the key;
- a tier that is lowered does not stop what was proposed before.

*Stores.* Two processes on one JSON file lose each other's acknowledged writes
(`Procs` of two, `JsonImplementsStore`); a crash while the first file is
written leaves a torn one that no boot repairs; a failed write makes every
later read of that process fail until a write succeeds. A crash between the
two tables of the first boot leaves the owner without a membership, for ever,
because the backfill asks only whether any table has a row. A script that is
interrupted after creating its two-column `schema_migrations` leaves a schema
no process can boot on. Without `After`, two processes that boot together on an
empty schema record the first migration twice. The drill of verifyBackup
reports a mismatch when a write comes between its reads.

*Intake.* Two messages that have read one question before either settled it make
two runs of one request, or ask about a request that is being executed (`raced`).
Handlers that interleave may leave a thread open in a session that does not wait, and
a rerun with another answer than its run had (`mixed`). Threads that were open at the same time
restore each other's statuses, and the session waits with nothing open. A
thread that is closed by a message does not restore the plan's status, as
`clarifications.resolve` does. A run is queued before its specialists are
materialized; if that fails it is marked blocked, whether or not a runner has
begun it. A crash or a failing provider after the answer was taken loses it.
The version of a plan is counted before the provider is asked, and may be given
twice. A rerun of a rerun forgets the answers to the questions, which belong to
the first request.

*Tools.* A worker that outlives crew-runner leaves its answer to the execution
after the restart (`stray`). That execution begins at
turn 0 with new idempotency keys, so what was proposed is proposed again. A
container is asked once and offered no tools. A correction whose pull request
was opened while the answer was lost opens a second one when retried; its
branch is never deleted, and a crash leaks its worktree. An `edit_file` that is
executed again appends its mark again. When two requests execute one action, the
copy of one may overwrite what the other has already reported (`spoiled`). In the editor a save during the dialog
of `str_replace` is lost, and the dialog cannot be cancelled.

*Services.* Two changes of one run's status that overlap leave two open
incidents, and operators or a shutdown leave others. A run that is cancelled and
then fails tells its parent twice. In the Postgres store, a connecting client gets
the history in the order of random ids; a run is pinned to the oldest sync that is
stored, so its specialists may be newer or older than its commit; the gate may pass
on an older evaluation while the latest one failed; and a user with two memberships
keeps the permission that was taken from one of them. Events between the read of the stream and its listener, and those
of crew-runner, do not reach a connected client. `validation.json` may call
ready what the record calls failed, and a crash leaves a record that is
building for ever. A sync during a reset serves files of several commits; an
index.lock left by a kill makes every boot fail. Two requests to add one user
give two memberships, and a post whose check came before its permission was
taken is stored after. `reevaluationPending` is set and nothing clears it; and
the shipped prompts demand a threshold no evaluation measures, so the gate
cannot pass with them. A rerun sorts the contributing specialists by name.

## Proofs

`RunLifecycleProofs` proves, for every value of the constants that satisfies
their assumptions (so for any number of tasks, threads and processes, with and
without `Overlap`, whatever `Env`):

- `TypeCorrect`: `Spec => []TypeOK`;
- `ApprovalGateHolds`: `Spec => []ApprovalGate`.

`ActionGovernanceProofs` proves of its module, likewise for all constants:

- `RecordsCorrect`: `Spec => []TypeOK` (as it is proved, `governed` does not
  check it again);
- `ActsAuthorisedHolds`: `Spec => []ActsAuthorised`;
- `ExecutingIsDrivenHolds`: `Spec => []ExecutingIsDriven` (the property itself
  speaks of the time before a crash);
- `OneExecutionHolds`, `OneActPerApprovalHolds`, `CompletedNotBegunHolds` and
  `OneWaitsPerKeyHolds`: each property for every interleaving of any number of
  requests. What it excuses, two requests that read the same record before
  either writes, is part of its statement and all there is to excuse.

`RunExecutionProofs` proves what holds of a run only under a condition on its
surroundings. Each condition is named, and TLC refutes the property without it
(see "What the modules show beyond the runs"):

- `SingleExecutionHolds`: `Spec => []SingleExecution` with any interleaving and
  with crashes and shutdowns of the runner, if the run is *attended*: there is
  one runner process, requests come one at a time, crew-api does not restart
  (its restart requeues what the runner does), and nobody resumes the run or
  resolves a thread, which are the requests that requeue a job somebody may be
  working on;
- `CompletedIsWholeHolds` and `DoneOnceHolds`: `Spec => []CompletedIsWhole` and
  `Spec => DoneOnce`, with any interleaving, if the run is moreover *ordinary*:
  what may come are decisions, pauses, cancellations, expiries, failing tasks and
  an invalid provider. A crash, a repeated decision, a question, a proposal by a
  task, a throwing provider and `runner.fail` are left out because with each of
  them one of the two is false;
- `StillDrivenHolds`: `Spec => []StillDriven` for short chains one at a time
  (`~Overlap`), if the run is *recoverable*: attended, and on top of what may come
  to an ordinary one the runner may be killed at any time, any number of times,
  and `runner.fail` may report a failure; only the invalid provider is left out
  once one of these two may happen, because with a crash and several gates the
  property is false (see *What the modules show beyond the runs*).

The module also has three results about chains that run one at a time
(`~Overlap`), which support the runs rather than describe the program, since
interleaving is what can break these properties: `JobFollowsTableHolds` (the
runner job refines `JobTable`, with whatever events, crashes and processes), and
`NothingStrandedHolds` and `StatusKeptHolds`, if the run is moreover *orderly*: it
is ordinary and nobody cancels it. What the module shows without these conditions
is listed above.

`JsonStoreProofs` and `DatabasesProofs` prove that the stores implement
`Store`, for any calls, crashes and failures:

- `JsonIsStore`: `Spec => JsonImplementsStore`, for one process (`OneProcess`);
- `PgIsStore`: `Pg!Spec => PgImplementsStore`, for any number of processes and
  tables (`PgCallsAssumption`: the names of calls and defaults are apart);
- `NobodyWaitsInVain`, the safety half of `CallsSettle`, for any number of
  processes: while a call of the JSON store is pending, the write at the head of
  its process's chain can take its next step, or the promise a read awaits is
  settled;

and of the Postgres store, which reads its row and its tables one after the
other:

- `ReadsForwardHolds`: `Pg!Spec => []ReadsForward`, for any number of tables;
- `ServesWholeSchemaHolds`: `Schema!Spec => []ServesWholeSchema`, for any number of
  processes, of starts and of migrations, with the script at any time
  (`MigrationsAssumption`: there are two at least, as there are, and the script
  is none of the servers).

`IntakeProofs` proves, for any number of messages, threads, plans and runs, with
every interleaving of handlers and crashes anywhere (what interleaving breaks is in
the properties, which excuse `raced` requests and what happens once `mixed`):

- `OneRunPerRequestHolds`: `Spec => []OneRunPerRequest`;
- `QuestionHoldsRequestHolds`: `Spec => []QuestionHoldsRequest`;
- `RerunKeepsAnswersHolds`: `Spec => []RerunKeepsAnswers`;
- `SessionWaitsForCauseHolds`: `Spec => []SessionWaitsForCause`.

`SpecialistToolsProofs` proves, for any tools, lists, turns, actions, requests and
crashes:

- `OnlyReadsDoneHolds`: `Spec => []OnlyReadsDone`, without an assumption;
- `AnswersItsTurnHolds`: `Spec => []AnswersItsTurn`, also when workers outlive
  crew-runner: only a call that began beside such a worker is excused;
- `LoopDescends`, the safety half of `LoopEnds`: every step of the loop but a crash
  and a restart goes down in a well-founded order (`Descent`, of `Left`), with
  orphans or without (`LoopAssumption`: the number of turns is a number);
- `CorrectionsWholeHolds`: `Correction!Spec => []CorrectionsWhole`;
- `CopyIsOwnHolds`: `FileTools!Spec => []CopyIsOwn` (`NoFileAssumption`: no file is
  not the content of one);
- `ActsAllowedHolds`: `Editor!Spec => []ActsAllowed`.

`ServicesProofs` proves, for any number of requests, users, files, events,
processes and versions and without a bound on their steps:

- `WorkspaceSoundHolds`, `StreamCompleteHolds`, `IncidentTellsRunHolds`,
  `ParentHearsEndsHolds`, `GateHonestHolds`
  (`SignatureAssumption`: a signature is never null), `CatalogHonestHolds`
  (`CallersAssumption`: a boot is no request) and `ReadyIsWholeHolds`
  (`CodesAssumption`: an absent code is none of the codes), each with every
  interleaving;
- `PlanKeptHolds`: `Plan!Spec => []PlanKept`, for any number of reruns
  (`SpecialistsAssumption`: the catalog is finite, nobody is no entry of it, and
  names have an order).

`ApprovalGate` is not inductive: an execution that has read an approval acts on
it many accesses later, and the state in between says nothing of what it read.
The invariant `IInv` therefore speaks of the scripts: no script holds an access
that would begin, complete or work on a gated task that was never granted
(`script \in [Threads -> Seq(Safe(granted))]`), every approved approval is of a
granted task, and a gated task that is running or completed was granted. Grants
are only added (`granted` is a history variable: a later denial or expiry does
not undo that there was one), so `Safe` only grows (`SafeGrows`) and what was
safe to hold stays safe. There is one lemma for each group of actions and one
case for each action.

`ActsAuthorised` speaks of effects, long after the approval was looked at. What
makes it inductive: an approved approval was granted, and the action it is
bound to was bound by a step that is remembered (`ApprovalInv`); a spec
correction's approval is bound to nothing else, so if approved it was granted
while bound to it; a gated action either still has its `required` flag or is
authorised (`ProposalInv`: the only step that clears the flag is taken by a
thread that has passed the gate); and a thread past the gate holds an
authorised action (`JobOK`). Everything these parts ask for is only ever added
(`Grows`), so what one thread has established another cannot take away, which
is why the theorem needs no assumption on interleaving. The shared argument of
the steps is in `RewriteStep` (actions), `ApprovalStep` (decisions and expiry)
and `AddStep` (new runs, approvals and effects).

The other properties of actions are about a status or a binding that one access
reads and a later one acts on, while others act too. What a thread has read may be
stale; but then another thread has read the same, at a time when neither had
written, and `raced` has it. `ExecInv` says so for executions: two threads that
are at one action are at one that raced (`Alone`), and unless it raced the action
a thread is about to begin is neither completed nor executing, and the one whose
tool it is running is stored as executing (`Status`). `BindInv` says it for
bindings: two proposals that carry one approval carry one that raced
(`OneBinds`), the approval a draft carries is bound to nothing else (`Free`), and what a thread past the gate, or an effect, was checked
under is bound to its action (`BoundTo`). A binding, once there, stays unless the
approval raced, so a request whose tool is running is not disturbed by
what others do. `WaitInv` says it for keys: two drafts of one key are of one that
raced (`OneWrites`), and the key a request has found free is free until it writes
(`KeyFree`). `ExecutingIsDriven` needs less, `DrivenInv`: an action enters the
store as proposed (`DraftsProposed`), the access that makes it executing is the
one after which its request has begun the tool, and whoever leaves it writes
another status first.

The refinement of `Store` needs to know of a write in flight what the file holds
meanwhile. For JSON the invariant (`IInv`) says that only the head of the chain
has begun, that what it has loaded is what the file still holds, and that the
file holds its write exactly from the rename on; so the rename only adds, and
the writes acknowledged, which have left the chain, are all in the file. For
Postgres, several processes have a chain each and the invariant speaks of the
row lock instead: whoever is past `Lock` and has not committed is its holder,
there is one, and what it will commit is the row with its own write added.
That no call is stuck behind the chain needs the converse (`ChainInv`): whatever is
at work is in the chain, everything in the chain is at work, and the promise that
is the chain's, or that a read awaits, is of a write that is settled or in it.
`JsonInvariant` and `PgInvariant` state that these invariants hold. Each
refinement has one case per action: most are stutters of `Store`.

The properties of requests in `IntakeProofs` are about records, but whether they
stay true depends on what a handler remembers between two accesses. `RequestInv`
adds it: a handler that is to answer a question has one that is still pending,
unless two read it (`AnswersAlone`); a handler that works on a request is the only
one, and nothing is pending of it and it has no run (`WorksAlone`), unless it is
`raced`. The two other properties are proved of the time before anything is
`mixed`, of which `SerialInv` says that at most one handler is under way (`Alone`),
that one question at most is pending, and that nothing raced. `RerunKeepsAnswers`
rests on `AnswerInv`: a pending question is the newest one, what a handler has put
together is what a rerun of its request would find in the session (`Heard`), and a
run that came from a message has the content a rerun of that message would be
given now. `SessionWaitsForCause` rests on `CauseInv`, which holds until a handler
dies: at most one thread is open, one opened while the session waited was opened
while a question waited that still does, and for every place a handler can be at
it says what the handler will leave behind (`Asked`).

`AnswersItsTurn` needs an account of the two files a worker is spoken to through
(`ExchangeInv`): the input file is of the prompt at hand from the moment it is
written, and, unless the call began beside a worker of an earlier process, every
worker alive is of that prompt (`WorkersAwaited`) and the output file is gone from
the moment it is removed until that prompt is answered (`FilesOfThisCall`).

*The run under way.* The job is read by one access and written by the next one,
and scripts are arbitrary lists. `JobInv` restricts both: in a script an access for
the job comes after no other one and after no wait (`Ordered`), and a `save` at
its head still fits the job it was read from (`Fits`), because with `~Overlap`
nobody else moves until the thread waits again. So each write of the job is a
step of the table or none. `SingleExecution` needs no such condition; what it
needs is that nobody puts the job back in the queue while a thread of the
runner has anything to do. `ExecInv` says that the scripts of the runner are
built from accesses that never requeue the job, and block it, if they do, last
(`Built`, `Runs`, `Blocks`); that those of a request requeue it last and only
while it is blocked (`Asks`, `Settled`); that while the job is blocked the runner
is idle; and that while it is queued the runner only claims it. Hence one
thread of the runner at most does anything at all. `CompletedIsWhole` and `DoneOnce`
rest on `WholeInv`, which tells what is still coming in each script: what leads to
a completed run is there only once all tasks are completed (`Concludes`), whoever
is about to block, requeue or fail a task finds it open (`Undoes`), there is at
most one pending approval, while it is pending or acted on all that is left to
the runner is to hold the task (`Holds`), and once a task has failed nothing is
left but to end the run (`Ends`). What may follow what in a script is `Shape`.
`StillDriven` is about the moment nobody is at anything, and holds because of
what everybody who is at something will still do. `DriveInv` lists what a thread
of the runner (`Stage`) and a request (`Chain`) can have left, in the words of run,
task, job and approvals: with `~Overlap` nobody moves between two accesses of
a chain, so each entry may say what it finds when it goes on. Around them: a
pending approval is of the next task, unless the job is halted or about to
fail; a task that is running is driven by an access still to come, or the runner
is down and its boot will requeue it; a task whose approval was denied is failed
or about to be; and a run that is running or blocked has one of the parties
`RunDriven` names: the runner, its restart, a request about to overwrite the
status, or the decision the gate waits for.

`NothingStranded` and `StatusKept` need more of the same: that run and job,
which no transaction holds together, say the same. `Agreed` lists the pairs of
statuses that do; `QueueInv` says that any other pair is the middle of a chain
that has written one of the two and will write the other next (`Amid`). Both sides owe
this to what they find: a request acts on a decision, requeues the run or fails
it only while run and job are blocked and nothing is pending any more, and makes
of the job what it has made of the run (`Just`); the runner starts a run only
from a queued one with a claimed job, and has nothing but the job to fail once the
run is over (`Due`). A claimed job always has its runner under way, so once nothing
is in flight a queued run has a queued job. That a pending approval
finds the run blocked, or the runner about to block it, is what makes a decision's
overwrite harmless; cancelling the run or reporting its failure breaks exactly
this, since neither withdraws the approval.

*Stores.* A read takes the parts in order while others commit. `ReadsInv` says
that the parts and the tables hold the same writes but for defaults
(`PartsAgree`), that a transaction adds its one write to all of them (`TxnsAgree`),
and that what a read has is in order (a part taken later holds the writes of those
taken before), holds everything that was acknowledged when it was asked, and
nothing that is not stored (`ReadInv`). `SchemaInv` says that what a runner of
migrations has read is among the recorded keys, that whoever serves has all
migrations, and that keys are unique from the second migration on, or from the
start if the script has made the table.

*Tools.* `CorrectionInv` says for every step of a correction what it stands on (the
worktree while it edits, the corrected branch before it pushes, the pushed one
before it opens the pull request), and that a pull request is of a corrected
remote branch. `FilesInv` says what the copy of an action may ever hold (`Own`),
that what was reported is in it (`Kept`), and what a request has found between two
operations, unless the action is `spoiled`; two requests at one action spoil it. `ChatInv` says of every side effect that
its call began while the token was live, and which dialog it had. `LoopInv` bounds
the turn and knows that an execution that acts has calls left; what is left
of it (`Left`) is a pair, first the turns and the phases of the turn, then the
calls of the answer, the workers alive and those that have not read.

*Services.* `WsInv` adds to `WorkspaceSound` what a request that has made its check
may still write (`MayWrite`), and that a user whose permission was taken has a
membership without it, so one who was added once has no other. `StreamInv` says
that what a client was sent first is what was stored, in some order (`Lists`), that
what came after it came from listeners in order (`Follows`), and that an event
stored and not yet emitted is the last one this process has stored. `GateInv` ties
the prompts of everybody who booted to the stored signature while no re-evaluation
is pending, and knows that the evaluation listed first is retained.
`CatInv` says that no file in the checkout is older than HEAD (`CheckoutInv`), that
whoever reads has read nothing older than the commit it looked up (`CallInv`), that
the write queued last is of the catalog that is served (`QueueInv`), and that
commits are looked up in the order of time (`OrderInv`).
`FilesInv`, `VerdictInv` and `RecordInv` follow the materialization step by step:
what was left out because of a failure, which file came after the verdict, what
was recorded last. `IncInv` says of a change that has no other beside it, no
operator and no shutdown that what it has read still stands (`AloneInv`), and that
the incidents say what the status does when it is through (`Synced`); `HearInv`
says that what a handler has read or written is among the statuses the run had. `PlanInv` says that the latest run has the tasks and decisions of its
selection (`Planned`), that its tasks were executed in order (`ExecutedInv`) and
what the selection has of the first one (`SelectionInv`). The sort is not proved by
induction: rank, name and id put the tasks in one line (`TasksInLine`), and a
finite set that is in line is so in a sequence, in which each element stands
where the number of those up to it says (`InLine`). Hence there is a first task
(`FirstIsFirst`), and one selection for a rerun (`RerunInOrder`).

Only model-checked: liveness (`Settles`, `ApprovedProceeds`, `CallsSettle`,
`LoopEnds`), which is out of the prover's reach, as is ENABLED. What these rest on
is proved as far as it is safety: `NothingStranded` for `Settles`,
`NobodyWaitsInVain` for `CallsSettle` and `LoopDescends` for `LoopEnds`. What is left
to TLC is that fairness makes the steps happen.

## Not modelled

- Metrics, alerts and diagnostics (`observability.ts` but for the release gate):
  pure functions of one snapshot.
- Parsing and validating manifests, configuration, the declarations of
  `contracts` and of the provider interface.
- The queue's order among the jobs of several runs; several chairs and orgs.
- Plan changes and the creation of sessions and work items: appends no other
  handler branches on.
- A restore of a backup into the live schema, which no code reaches; the loss of
  an acknowledgement of COMMIT.
- The catalog crew-runner serves from its own memory.
- The prompts' texts and what a scenario of the evaluation finds.

## Plan

What would come next:

1. Several chairs and the runner jobs of their children: `RunLifecycle` and
   `ActionGovernance` composed.
