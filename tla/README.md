# hiveCode: specifications, model checking and proofs

This directory holds TLA+ models of hiveCode, a coding agent that runs many
model-driven workers over one checkout of a repository. Every definition that
models code is translated from the TypeScript under `src/packages/`;
`PROJECT.json` names its lines (`map`), the hazards of the code with the
properties that watch them (`hazards`), the runs and the theorems.

Contents: 1 the system, 2 inventory, 3 modules and code, 4 runs and bounds,
5 fairness, 6 proofs, 7 disagreements found, 8 what is not modelled, 9 plan.

Paths below are relative to `src/packages/`.

## 1. The system

One Bun process is the engine: the gateway (HTTP and WebSocket), the REPL, the
coordinator, the profile harness, the agent loop of every agent, the scheduler
and the clients of MCP servers. It has one event loop, so **code between two
`await`s is atomic and every `await` is a point where anything else may run**;
the actions of the modules are cut exactly there. The terminal UI is a second
process (Rust) on a local socket; Telegram is a third party over HTTP. What
outlives the process is in a document store (HiveDB) whose `put` is a
compare-and-set on the version of the document that was read. A put that lost
the race throws, and each caller does something else with that: drop it with a
log line (run store), fail the run (harness), fall into a catch block
(delegation), refuse the stop (coordinator), end the run of a job half-way
(scheduler), give up the pass (hot reload).

How a task flows (docs/architecture.md, "Flujo de una tarea"):

    TUI / REPL / gateway (LaneQueue: a lane per session)
      └─ CoordinatorManager.runTask          CodeTask
           ├─ workspace: a git worktree of the task
           └─ ProfileHarness.run             ProfileHarness: a row in harnessTasks; the gates
                └─ agent loop of BEE         AgentRun: a row in agent_runs; checkpoints
                     ├─ task_delegate ──► agent loop of a worker
                     │     ├─ wait_for / after        Delegation: meet on the board
                     │     └─ a private copy          SwarmWorkspaces
                     ├─ every model and tool call     ExecutionSlots
                     ├─ a call that needs a person    ToolApproval
                     └─ tools of MCP servers          McpServers
           └─ integrateTaskWorkspace         CodeTask: the diff goes to the checkout
    BunCronScheduler ──► agent loop           CronJobs

The ten modelled components are the places of that picture where several actors
meet.

## 2. Inventory

| Component | State | Operations | Interacts with | What is hard | What makes it correct |
| --- | --- | --- | --- | --- | --- |
| **Execution slots** `core/src/agent/execution-limits.ts` | a queue object per session (`active`, `pending`), the set of locked paths | withExecutionSlot, drain, release, abort listener | every agent of every session calls it | queue objects are dropped and made again while calls hold the old one; locks are global, queues are not; a signal may fire at any await | colliding writers never overlap; a session keeps its limit; nobody waits without a reason, or for ever |
| **Delegation** `core/src/tools/agents/index.ts`, `agent/delegation-board.ts` | a future per task name, task documents, timers | task_delegate, task_revise, wait_for, reset | agent loop of workers, document store, private copies | a wait may come before its announce; board and documents are written in separate awaits; revisions announce again; five error paths | a waiter is on the slot that will be settled; no worker starts before its dependencies were delivered; an outcome handed out is final; failures are reported |
| **Agent loop and run store** `core/src/agent/agent-loop.ts`, `agent/run-store.ts` | messages, iteration count, run status; the row with its lease and checkpoint | begin, resume, model call, tool batch, four kinds of checkpoint, lease renewal, reconciliation at startup | document store, tools, slots | the process dies anywhere; the lease timer and the loop write one row | the resumed model knows of every tool dispatched; the transcript is one a provider accepts; steps are bounded over all processes |
| **Profile harness** `core/src/harness/profile-harness.ts` | a row per task: stage, next action, plan, policy | run (new, from a ready plan, resumed), planning, two gates, execution, repair | coordinator, agent loop, approvals, document store | the meaning of a row is inferred from where the last run happened to leave it; two runs may share a row | approval mode implements nothing unapproved; completed means verified; a run that ended leaves a settled row |
| **Tool approval** `core/src/agent/tool-approval.ts`, `channels/telegram.ts` | open promises, askers, memory of refusals | request, resolve, register and clear askers | terminal UI, Telegram bot, harness gates | timer, button, failed message, abort, exit of the UI and stop of the bot race to resolve one promise | only a person approves; a request that waits can be answered; a refusal is not asked again |
| **Private copies** `code/src/workspace/swarm-workspaces.ts`, `manager.ts` | live copies, copies on disk, a chain of merges | prepare, integrate, cleanup | delegation, git | prepare runs outside the chain of merges; a three-way merge writes before it fails; cleanup drops copies in use | what was integrated stays; a copy starts from it; a merge reports what it did; unmerged work is kept |
| **Life of a task** `code/src/workers/coordinator-manager.ts`, `code/src/workspace/manager.ts`, `sweep.ts` | `activeTaskId`, executions, stopped tasks, worktrees, statuses that wait in the scribe | runTask, cancelTask, resumeTask, end of a session, integration, tidying up, reconciliation and sweep at startup, cleanup | harness, worktrees, scribe | one variable names the active task for all async methods; statuses are written later; cancel against completion; crash; a sweep nobody waits for | completed means applied; no unapplied work is destroyed; a cancelled task stays so and is not applied |
| **Cron scheduler** `core/src/scheduler/BunCronScheduler.ts` | the row of a job, timers, stored runs | create, pause, resume, update, delete, trigger, fire, execute, startup | document store, agent loop | versioned writes race one another; runs overlap; a one-shot instant passes while nothing runs | runs are counted, `max_runs` is kept; a paused job stays paused; the timer agrees with the row |
| **MCP servers** `mcp/src/manager.ts`, `core/src/mcp/hot-reload.ts`, `gateway/server.ts` | per server: object, client, revision, attempt, timer; the row; the stored tools | connect, disconnect, reconnect, reconcile, the pass of hot reload, edits and switches by persons, shutdown | configuration, tools, document store | an attempt answers after the server was disconnected or replaced; pass, person, timer and shutdown act at once; a put is refused | a late answer publishes nothing; no client leaks; when all has settled row, manager and stored tools agree |
| **Lane queue** `core/src/gateway/lane-queue.ts`, `routes/chat.ts` | a lane per session, handlers, signals | enqueue, cancel, time limit, the request that waits | gateway, agent loop | the limit only aborts a signal; the next task starts in the `finally` of the last | one task of a session at a time, in order, nobody forgotten |
| Failure recovery `code/src/recovery/failure-recovery-scheduler.ts` | one timer, a stored job | schedule, retry, waitForRetry | coordinator, store | writes that are not awaited | a retry runs once, and whoever waits for it waits to its end |
| Cron expressions `core/src/scheduler/cron/` | none | parse, next run | scheduler | time zones, month lengths | the next instant is the least that matches |
| Repetition detectors `core/src/agent/stuck-loop.ts`, `read-mix.ts` | windows over the calls of a run | record, verdict | agent loop | thresholds | an honest run is not stopped, a cycle is |
| Document helpers `core/src/storage/hive.ts` | counters, rollups | increment, putIfAbsent, read-modify-write with five tries | everybody | bounded retries | no update is lost in silence |
| Leases of files, task supervisor `code/src/workspace/leases.ts`, `code/src/runtime/` | records | acquire, release; stages for the screens | legacy workers | leases expire while their owner writes | one writer holds a lease |
| Worker instances `core/src/agent/swarm-instances.ts`, `ephemeral-agents.ts` | cloned agent documents | acquire, purge, spawn | delegation, harness | the purge at the end of a run | an instance in use is not removed |
| Gateway, IPC, terminal UI, CLI, channels, events | sockets, subscriptions, screens | requests and notifications | all | framing, reconnection | what is shown is what happened |
| Legacy pipeline of phases, file checkpoints, blackboard | phases, snapshots, notes | | coordinator | | out of scope: section 8 |
| Model providers, context, tools, narrative, skills, configuration | input and output | | agent loop | | out of scope: section 8 |

## 3. Modules and the code

Each component is one module; an `MC` module gives its constants values for TLC
and a `Proofs` module extends it with theorems. Two proof modules are about two
components each: `CodingProofs` about `CodeTask` and `ToolApproval`, `QueueProofs`
about `SwarmWorkspaces` and `LaneQueue`; so that both can be extended at once, the
definitions every module has bear a prefix in `ToolApproval` (`ApprovalInit`,
`ApprovalNext`, ...) and in `LaneQueue` (`LaneInit`, ...). Components mostly meet through
their outcomes, not through shared variables: the harness calls an agent, which
answers or throws; a delegation runs a worker, which delivers, stops short or
fails. There a module has the others as a nondeterministic choice over the
outcomes the code distinguishes, and no composed state space is needed. Where
components share state they are composed: `McpServers` extends `McpConnections`
(the manager) with the row, the pass of hot reload, the persons and the
shutdown; `CodeTask` has the coordinator, the scribe, the worktrees and two
processes; `CronJobs` implements `CronRecord`.

### ExecutionSlots

`Submit` is withExecutionSlot up to its first await: find or make the session's
queue, push, drain that queue. `Resume` is the continuation after the await (the
signal is looked at once more), `Finish` the `finally` with release, which
decrements, unlocks, drains every queue in map order and drops its own if idle.
`Abort` is all the listeners of one signal in one turn. A drain is not written as
a loop: `IsDrain` characterises the set it dispatches, one call at a time in the
order of the loops (`Before`), each with the counts and locks its predecessors
left. Queue objects are named by the call that created them, because release and
abort close over the object and not over the session. A path is a sequence of
names; `StrictlyInside` keeps the code's text comparison, for which "/" contains
nothing. The `writers` set of a queue is left out: nothing reads it.

### Delegation

A handler (`task_delegate` of a task, a `wait_for`) is at one of the places where
the code awaits: resolving its context, asking the board, reading the documents,
about to await, parked, and so on to recorded (document written), settled (board
told), done. `Settle` is settleDelegation with the continuation of its caller:
it answers exactly the handlers parked on the slot object that the name has
*now* (`AwaitersOf`). Slots have ids because a reset or a new announce makes
another object while promises of the old one may still be held. The error paths
(conflict of a put, a revision whose copy cannot be prepared, references that do
not resolve, an abort) and `ResetBoard`, another task of the process that starts,
are switched by `Faults` and bounded by `MaxUpsets`. The verdict on acceptance
and the result of the merge are choices.

### AgentRun

One isolated run over several processes. `Top`, `AnswerText`, `Retry`,
`CallTools`, `Dispatch`, `Collect`, `Throw`, `Finish` are the loop; `ReadRow` and
`PutRow` the two halves of each of its writes (`job` says which: periodic,
pre-tool, post-tool, clear, final, interrupted); `RenewRead` and `RenewPut` the two
halves of the lease timer; `Crash`, `Reconcile`, `Resume` the death of a process,
the marking of its runs at the next start, and the continuation from the
checkpoint. A message is abstracted to the call it answers: `told` has the calls
whose reply is in the messages, `open` those of an assistant message that have
none. `turns` and `ran` are history variables.

### ProfileHarness

A run takes one of three routes (conversation, small change, complex). Every
updateStage is a read (`UpdateStage`) and a conditional write (`Write`) with any
other run in between. Versions are kept as one flag per run (`fresh`): only
whether somebody wrote since is ever asked. `Fresh`, `Reuse` and `Resume` are the
three callers in the coordinator with the options each passes; in particular
`Resume` has the policy of the *row*, no signal, and an approver that says yes.
`Throw`, `Abort` and `Crash` are bounded by `MaxFaults`. `approved`, `signed`,
`broken` and `writer` are history variables.

### ToolApproval

Each action is one whole callback. `Request` asks the asker of the channel or
else the UI, with the three early refusals; `Resolve` is resolveToolApproval, by
the modal (`AnswerTui`), a button (`Press`, also on an old message), the timer,
or a message that could not be sent; `TuiExit` is clearToolApprovalAsker with what
it refuses and forgets, `TelegramStop` the stop of the bot. The memory of
refusals is a sequence without repetitions, oldest first, as a JavaScript `Set`
is; the eviction before the addition is kept as it is in the code, and `Memories`
is what one refusal after another leaves of it.

### SwarmWorkspaces

A delegation to an instance (`builder#2`) is at one of the awaits of prepare
(`Prepare`, `ClearCopy`, `AddCopy`, `SeedUntracked`), at work, or in integrate.
The text of a file is the set of changes it carries and whether conflict markers
are in it; a copy keeps the text it was seeded with (the baseline commit). The
seeding is two steps because the code makes it with one diff of the tracked
files and then one copy per untracked file, outside the chain. `queue` is
mergeChain. `MergeReads` and `Lands` or `Conflicts` are the two halves of a git
apply: three-way if the index has every file of the patch, a plain apply
otherwise. A three-way merge that stops has written what it could, with markers
in the rest; a plain apply refuses the whole patch. `NextTask` and `DropNext` are
the cleanup of runTask, over the entries it found when it began. Edits by somebody
who works in the shared worktree and failures of git are bounded by `MaxUpsets`.

### CodeTask

The methods of `CoordinatorManager` that make up the life of a task, cut at their
awaits: `Begin`, `Prepare`, `StartHarness`, `HarnessEnds` or `HarnessThrows`,
`Merge`, `Removes`, `TidyLooks`, `Settle` for runTask and resumeTask; `AskStop`,
`StopFlushes`, `StopExpires`, `StopPuts`, `StopMerges` for cancelTask, also when the
limit of time asks for it; `EndSession`, `Exit`, `Start`, and the sweep, which scans,
lists and removes. What makes the module is kept as it is in the code: `activeTaskId`
is one variable that most lines read anew, an execution is tracked under the task
that was active when the harness began, and statuses go through the queue of the
scribe (`Post`, `Drain`) while a stop flushes that queue and then writes by itself.
A worktree is clean, dirty, applied or absent. Out-of-the-way events (a second
task beside a running one, a switch of sessions, a stop past its deadline, a
crash, ...) are named in `Upsets`, each at most once; a property that holds only
without some of them says so (`Without`).

### CronJobs and CronRecord

One job. A run or an operation of a person is at one of its awaits, and keeps the
row it read for its next write; `Reads`, `Writes` and `Refused` are patchCronJob
with its versioned put, `Patch` what each caller changes. `Fire` is the timer,
`Trigger` a person; `Load` is getRunnableJob, `StoreRun`, `Call`, `CloseRun` and
`Decide` executeJob from one await to the next. Instants are left out: the timer
of a recurring job may fire at any moment, and `due` says that the instant of a
one-shot job is over. `CronRecord` is the abstract row: each writer changes, in one
step, the row that is there, and a run is never counted ahead of the runs there
were. `RowIsRecord` is its specification under the mapping of the row to its status
and count (the version is forgotten).

### McpConnections and McpServers

`McpConnections` is MCPClientManager for one server: the object in `servers`
(with a generation, because it is dropped and made again), its revision, the
attempt that a further call joins, the retry timer with the object and the
revision it checks, and a client per attempt. `Connected`, `ConnectFails`,
`Failed`, `Listed` are the continuations of an attempt, `TransportCloses` the
onclose, `DisconnectServer` and `Closed` the two halves of a disconnection.
`McpServers` adds the row in the database, the chain of reconciliations
(`Reconcile`, `Proceed`, `Reconciled`), the pass that hot reload makes every two
seconds (`Scan`, `Apply`, `ReadRow`, `PutRow`, `Shelve`), the routes of persons
(`EditRow`, `Switch`, `Ask`, `Stop`, `Tell`), the switch of another server, which
hands in the configuration it found, and the shutdown, which disconnects twice.

### LaneQueue

A lane is the set of the tasks that wait in it, with the order of their arrival;
`InFront` is what the stable sort puts first. `Enqueue` and `Ends` contain the
start of the next task, as processQueue runs up to the handler's first await in
the same turn. `TimeIsUp` and `Cancel` abort signals; `Poll` and `GiveUp` are the
request of the chat route, whose handler does not look at its signal.

## 4. Runs and bounds

"v" marks a run whose property is violated: section 7. Several properties are
conjunctions of named parts, which the modules state one by one.

| Run | Instance | States | What it shows |
| --- | --- | --- | --- |
| `slots` | 3 calls, 2 sessions, a workspace and a file in it, 1 signal, limit 1 | 503 553 | exclusion and limit (`AdmissionsFit`), no idle, deaf or orphaned waiter (`WaitersServed`), order of admission, every call ends |
| `delegation` | t2 after t1, one `wait_for`, one revision, one upset of five kinds | 348 955 | no orphan waiter, no early start, outcomes final, a parked handler is answered without its timer, at rest board and documents agree and failures are reported (`StoriesAgree`) |
| `agent_run` | 2 calls, 3 steps, 4 turns, a crash, a renewal, a denial at any step, periodic writes every 2 steps | 4 139 324 | what was dispatched is told and each call has its reply (`TranscriptTells`), steps bounded over the processes, the row is the run's own and says how it ended (`RowFollowsRun`), no revival and no lost snapshot (`RowMovesForward`), the run ends |
| `harness` | 2 runs on one row, all policies and routes, 1 repair, 1 fault | 945 965 | ended rows are settled and completed is verified (`RowIsTrue`), gates hold, runs end |
| `harness_gate` v | 2 runs, 2 repairs, 2 faults | | an unapproved plan is implemented |
| `approval` | 3 requests for 2 calls, 3 starts and stops, memory of 1 | 1 425 664 | reachable, approved by a person, refusals remembered, Telegram requests end |
| `swarm` | 2 instances, a tracked and an untracked file, 3 delegations, 1 direct edit or failure, the next task at any moment | 1 606 990 | what was integrated stays and copies start from it (`SharedIsKept`), reports are true, conflicts have a cause and unmerged copies are kept (`ReportIsTrue`), merges end |
| `code_task` | 2 tasks, one with a worktree, 2 processes with a stop in each, 1 upset of eight kinds | 4 811 504 | completed is applied and what is over is not recorded as going (`RecordIsTrue`), no work is destroyed, a cancelled task stays cancelled and is not applied |
| `code_task_session` v | the same tasks, 1 process, 2 upsets | | the run of a session that was left works on another task |
| `cron` | recurring and one-shot, `max_runs` 2, 3 starts of which 2 at once, create and 2 operations, 2 kinds of upsets | 4 288 332 | runs are counted, limited and closed (`RunsAreCounted`), the timer agrees with the row, paused stays paused, the row implements `CronRecord` |
| `mcp` | 3 attempts alive, 2 symmetric configurations, 2 changes by persons | 844 053 | no client or tool outlives its place (`NothingLeaks`), row, manager and stored tools agree once settled (`SettledAgrees`), a late answer publishes nothing, a pass takes no decision of a person back |
| `lanes` | three tasks in a lane, one of a higher priority and one of the chat route; one task in a second lane | 83 595 | one at a time, nobody forgotten, handlers kept (`LaneKept`), first come first served, tasks end unless a deaf handler has their lane |

Why these bounds. *Slots*: three calls are the least with a lock holder, a
waiter and a third that passes it, or whose session's queue is dropped and made
again; two sessions let one release wake another's queue; the second path lies
inside the first, so equal, containing and free locks all occur. Limit 1 makes
the limit bite; larger instances are covered by the proofs. *Delegation*: one
dependency is enough for every interleaving of its producer, one consumer and an
outside waiter, which may begin before or after a settle; one revision suffices
for a second slot of the same name (the code allows `MAX_REVISIONS`, which is a
guard on a count); one upset of each kind meets every step. *AgentRun*: three
steps and four turns allow a batch before, at and after a crash; with
`CheckpointEvery = 2` a periodic write lies between two snapshots. *Harness*: one
repair cycle is one below and at the budget (the code: 2), two runs are the least
that meet on a row. *Approval*: `DECLINED_MAX` is 200 in the code and 1 here, so
that the memory is full at once; two calls then evict one another. *Swarm*: three
delegations over two instances give a merge between the halves of another's
seeding, a second delegation to an instance whose copy was kept, and a conflict;
one file of each kind gives both ways of applying, and a patch of both. *CodeTask*:
two tasks are the least for `activeTaskId` to name the wrong one, two processes for
a crash with writes still queued; with one upset per behaviour each kind meets all
the ordinary steps, and a pair of them is what `code_task_session` needs. *Cron*:
three starts with a limit of 2 reach the limit, pass it by an overlap and start a
run after the end. *MCP*: the state needs a client that closes, one that connects
and one that waits, hence three attempts; the same module was also checked with
one configuration and three changes (9.4 million states, not among the runs for
its time). *Lanes*: two equal tasks and one of a higher priority in one lane give
every case of the sort.

Deadlock is not checked in `slots`, `harness`, `harness_gate`, `approval`, `swarm`,
`code_task`, `code_task_session`, `cron` and `lanes`: each begins a bounded number of
calls, runs, requests, tasks or operations and rightly stops when they are over.
`Delegation`, `AgentRun` and `McpServers` say so themselves (`Done`, `Over`, `Exit`),
and TLC checks that they stop nowhere else.

`PROJECT.json` also names, for each property of a passing run, one plausible bug
(`mutants`: a definition and its faulty variant) under which TLC finds it violated.

## 5. Fairness

* `ExecutionSlots`: weak fairness of `Resume` and `Finish`. Continuations of
  settled promises run, and model calls and tools end (they have time limits).
  No arrival and no abort is assumed. `EveryCallEnds` is for a finite number of
  calls: under an endless stream of single-file writers, a call that locks the
  whole workspace may be passed for ever, as the code skips what collides.
* `Delegation`: weak fairness of the steps of a handler that has begun. No call
  has to be made, no timer fires, nobody resets or aborts.
* `AgentRun`: weak fairness of `Step`: the model and the tools answer. Crashes,
  exceptions, renewals and resumes are never forced.
* `ProfileHarness`: weak fairness of each run's own progress, where an agent may
  answer or throw. A person need not answer: `RunEnds` ends at a gate.
* `ToolApproval`: weak fairness of the thirty-minute timer only. Messages may be
  on their way for ever and the person may never look.
* `SwarmWorkspaces`: weak fairness of the steps of a merge that was asked for:
  git commands end, in one way or another. No delegation and no work is assumed.
* `LaneQueue`: weak fairness of the time limits and of a handler that looks at its
  signal, once that is aborted. Nothing is assumed of a handler before it is
  aborted, nor of one that does not look: `TaskEnds` has the exception in it.
* `CodeTask`, `CronJobs` and `McpServers` are checked for safety only. That a server
  is connected in the end depends on the server; that a task ends is `RunEnds` of
  the harness it waits for. What must hold once they have settled is stated as
  invariants of the settled states (`SettledWhenOver`, `TimerAgrees`, `SettledAgrees`).

## 6. Proofs

TLAPS checks all leaves; nothing is assumed but the constants' named
assumptions, which say no more than their types and that the special values
("none", no call, no queue) are distinct from real ones. Each inductive invariant
was first checked by TLC on the instance of the run. The theorems state every
safety property of every passing run, for all ten components; the bounds of the
model (changes, starts, upsets) are constants of which no theorem needs a value.
Of `CodeTask` they say that the tasks, being documents, are finitely many, that
`NoTask` is none of them, and that `Ends`, with which a run chooses the ends of the
harness to explore, has none that the harness cannot have.

### ExecutionSlotsProofs

For any finite set of calls, any sessions, paths, signals and limit:
`AdmissionsAreFit` (exclusion and limit), `WaitersAreServed` (no lost wake-up, no
deaf or orphaned waiter), `ArrivalOrder`, and `Containment`: where no lock is the
root directory, a lock on a directory excludes every lock inside it.

None of these is inductive by itself. That a session keeps its limit needs that
all its calls are in *one* queue object; that needs that the map has an object
as long as a call uses it; that needs that release drops it only when the count
is right. `IInv` is that circle closed: arrival numbers tell calls apart
(`Tickets`), the map has exactly the objects in use (`QueueObjects`), `held` is
the set of paths of admitted calls (`Locks`), `active` is their number
(`Counts`), whoever waits has a reason (`Waiters`), together with exclusion and
the absence of deaf waiters. `Waiters` is the hard part: a drain leaves nobody
behind who could go. The first half of the module proves that of one drain, from
`IsDrain` alone: what it dispatches fits, does not collide, and what it leaves is
kept out; the second half has one step per action.

### DelegationProofs

For any tasks and waits, any dependencies, any documents that older runs left and
any failures: `NobodyIsOrphaned`, `DependenciesComeFirst`, `BoardAndDocumentsAgree`
and `OutcomesAreFinal`. A task is settled by its own handlers only, so that the
argument is local to it: where they are says what its document and its slot can be
(`Story`, with `DocTells`, `NotYetSettled`, `OutcomeTells` and `IsSettled` as parts).
What a handler was given of its dependencies stays delivered (`Given`), since the
steps of others leave a settled slot and its document alone (`Calm`). `Progress`
says that a handler which asks has a dependency left to ask for.

### AgentRunProofs

For any constants: `RowIsFaithful` and `RowNeverGoesBack`. The invariant
`OwnerInv` says that while a process drives a run its row is running and its own;
the only write of the loop that takes "running" away is the last one.

Where no renewal interfered and no periodic write came between (`Undisturbed`),
for any number of calls, steps, turns and crashes, `TranscriptIsComplete` says that
nothing dispatched is forgotten, and that each call has its reply if also no call
was denied. A run meets the condition when it is shorter than a minute (the
interval of the renewals) and than `checkpointEvery` steps. In longer runs these
properties do not hold of the code: section 7 has what happens without each
condition. The argument is the order of the writes. `MemoryInv` says that a write
finds the version it read (`Unraced`), that between batches the transcript tells
of all that was dispatched and in a batch the row has the batch as pending
(`Told`), and hence that the row tells of everything at every moment (`Recorded`):
a process that dies anywhere leaves a checkpoint from which the next one answers
all pending calls as interrupted.

`TurnsAreBounded` says that all the processes of a run together dispatch in at most
`MAX_STEPS` turns, although each counts for itself: a turn is counted in the row
before its first call is dispatched, and a process goes on from the count it finds
(`TurnsCounted`).

### ProfileHarnessProofs

For any number of runs and rows, any policies and routes, and any faults: `GateIsHeld`
and `RowsAreTrue`. Runs overlap on a row, and a put may lose its race. The invariant
describes each run by where it is or will be once its write is through (`Toward`):
it keeps to the route of its task (`OnRoute`), and it implements only what was
approved or what needs no approval (`Allowed`, `Inherited`). Each row is described by
the run that wrote it last: a stage fits the place of that run (`Fits`) and says no
more than is so (`Says`). The idea that closes the circle is that the last writer has
read the row since, so that it loses no write: only a run whose words do not count any
more can fail one. `GateHolds` is excused for a task that has a run in auto mode; two
runs never show why, but with three TLC finds a plan-mode row that an auto run drives
on, and the code means it to.

### CodingProofs

The approvals, for any set of requests and any sequence of starts, stops and exits:
`NobodyWaitsForNobody` and `OnlyPersonsApprove`, from `OpenPromises`: the open
promises are exactly the requests asked and not resolved, each with the UI that
shows it or the bot that holds its timer.

`RefusedStaysRefused` (the call refused last is not put to a person again) and
`MemoryStaysSmall` (no repetition, at most `DECLINED_MAX`) are about the memory of
refusals. When the bot stops it refuses all it asked, one after the other, so that
these need an induction over the row of refusals. The induction theorems of the
library take an operator and cannot be used; what is used instead is that a set of
numbers that is not empty has a least one (`LeastNumber`), applied to the set of
positions at which the claim fails.

The life of a task, for any number of tasks, stops, processes and upsets:
`TheRecordIsTrue`, `WorkIsNeverLost`, `CancelledForGood` and `StoppedStaysOut`, from
one inductive invariant (`CodeTaskInv`), since each of them fails where another does:
work is lost where a task is taken for settled, and that is read from a record.
Some parts of it hold whatever happens:

* `Worktrees` and `Swept`: a run past its preparation, and whoever is about to
  remove a worktree, has it in the map of this process. The sweep finds worktrees
  without changes, so what it found has changes only if a run of this process wrote
  them since;
* `Stops` and `Runs`: a stop works on its own task, has one flush in the queue of
  the scribe at most and waits for that one, and nothing goes on without a process.

The others hold as long as no run overlaps another, outlives its session or is
resumed (`Orderly`); a run in disorder acts on whichever task is active, and section 7
has what comes of it:

* `Alone`: the one run that goes is that of the active task, works on it and is
  tracked under it, so that a stop which got past its wait has no harness beside it;
* `Safe`: where a worktree is about to be removed, or `completed` about to be recorded
  or in the queue, the worktree has no work left in it;
* `Unstopped`: a run that integrates was not stopped, unless that came late;
* `Told`: what the document says, and what it will say when the queue is written. A
  record of the task as going has a final one behind it in the queue (`Follows`), no
  record of it as going comes after one that it is over (`NoReturn`), and a stop that
  is done has left the task cancelled or settled (`Settled`). So the last write is that
  of the last decision, although statuses are written later than decided.

`CancelledForGood` needs none of the second kind: the write that would undo it is
the one that `Patched` drops, and what must be shown is that nobody writes past it.

### CronJobsProofs

For any runs, operations and limits, however many runs overlap and however often
the process dies: `RowImplementsRecord`, the refinement of `CronRecord`, and
`PausedJobsStay`. `RecordInv` has two ideas. `ReadsAreOld`: nobody has read a
version that is still to come, nor another row under the present version; so a put
whose version is accepted has read the row it replaces, and read and write count
as one step (`WriteIsAtomic`). `Behind`: the count of the row, and the count that
each waiting run started with, leave room for all the runs that were started and
are not counted; so no count is ahead of the number of runs.

`RunsAreAlwaysCounted` ties the numbers of the history to the runs that are between
two places: those that started and did not count yet, that call, that are open
(`Follows`, `Counted`, `Limited`, `Alone`, and `SeenIsCount`, by which a run that had
no other beside it counts from what the row says). `TimerAlwaysAgrees` is about the
timer: as long as operations do not overlap (`OneOperation`), a timer that is armed
belongs to an active row that nobody is stopping (`ArmedIsActive`), and where no put
was refused such a row has its timer (`ActiveIsArmed`).

### McpServersProofs

For any attempts, configurations and changes: `LateAttemptsPublishNothing`,
`PersonsAlwaysDecide`, `NothingEverLeaks` and `AllAgreesInTheEnd`. The first is the
order of revisions (`Revisions`): each disconnection begins a new one, and an attempt
keeps the one it began with; so one that was cut short is never current again, and
only a current attempt connects the server. The second is the versioned put
(`LatestIsRead`): a version that is still there when the pass writes is that of the
row it has read, of which it changes the status alone.

The third, as long as two disconnections do not overlap, says where each client is
kept until it is closed (`ClientInv`): an attempt that serves or tries is that of the
object, one that is cut off is closed by whoever cut it. Who disconnects finds the
object quiet until somebody connects it anew (`Halted`), which is what the chain
relies on after its wait (`ChainStage`) and the process at its end (`EndStage`).

The last has three threads. `PassIsTrue` follows a pass from what it read to what it
left: nothing else happened since, so the row is still what it read, the
reconciliation it waited for is its own (`OnePass`), and what it wrote is what the
manager shows. `DeletedStays` is the history of a deleted row: the pass that finds it
gone takes the server out because an earlier one knew it, and no item of the queue
brings it back. `Tended` says who is to connect an enabled object next: the attempt
that goes, the timer, or the chain.

### QueueProofs

The private copies, for any instances, files and runs: `SharedStays` and
`ReportsAreTrue`, from `SwarmCorrect`. Whoever merges is first in the chain (`Line`).
No text carries the change of a run before that run wrote it, and until it is merged
only the copy of its instance does (`Old`, `Fresh`). What a merge read has all that
was accepted so far (`Kept`), and a file that nobody else changed is still the text
the copy was seeded with (`Baseline`), so that its patch fits. The argument is per
file: no induction over patches is needed. Seeding outside of the chain is what makes
it long: the tracked files and the untracked ones of a copy come from two moments,
with merges of others between them (`Seeds`).

The lanes, for any tasks, sessions and priorities: `LanesAreKept` and `LaneIsFair`.
The invariant (`LaneCorrect`) says that each lane has its own tasks (`OwnLane`), that
what waits or runs is what the statuses say (`OneAtATime`), that a lane with tasks
that wait has one that runs (`NeverIdles`), and how arrival numbers and the order of
starts agree. A consequence is that the second branch of cancel, which takes a task
out of the queue of a lane where none runs (`lane-queue.ts:130-139`), is never taken.

### Model-checked only

Liveness under fairness (`EveryCallEnds`, `ParkedIsAnswered`, `RunEnds` twice,
`TelegramEnds`, `MergesEnd`, `TaskEnds`), which is out of the prover's reach. The two
runs that exhibit a violation (section 7) state what the code does not do.

## 7. Disagreements between the code and what it says

Two of these have a run in which TLC exhibits them.

| Run | What the code does | What it says |
| --- | --- | --- |
| `harness_gate` | an interrupted run leaves a stage from which the resume skips the gate (`profile-harness.ts:444`) | the specification waits for approve (docs/harness.md:33) |
| `code_task_session` | a run whose session was left goes on under whatever task is active: it integrates, settles and tidies up that one (`coordinator-manager.ts:954`, :973) | "A task of the previous session must never keep writing into the new one" (:554) |

Others were met while modelling. They are in the models as the code has them,
and the properties are stated around them.

Delegation, agent runs and approvals:

* A document says completed two awaits before the board says blocked
  (`core/src/tools/agents/index.ts:782`), where :789 says "whoever depends on it
  must not build on it".
* While a running task has no document, an older run's document under the same
  ref answers for it (:656); :594 says "The worker does not start until they finish".
* A revision whose private copy cannot be prepared returns without settling what
  it announced (:924): its waiters run to their timer. So do those of a task whose
  references cannot be resolved (:641). Revisions that fail are not counted against
  `MAX_REVISIONS` (:904).
* A wait for a name that is announced only later keeps the timer it began with
  and may answer "unknown" for a task that runs; a second wait for a name that is
  never announced runs to the long timer. A signal that fired before
  `awaitDelegation` added its listener is not heard; two tasks that name each other
  in `after` wait for their timers.
* Denied calls get their reply after the batch; a crash in the batch leaves them
  open (`agent-loop.ts:1187`), where :1401 says every tool call has its reply.
* The periodic write of `checkpointEvery` shares a column with the snapshots and
  replaces one (`agent-loop.ts:893`): a crash before the next batch resumes with
  no messages. Hence `Undisturbed`.
* A renewal of the lease that lands between the read and the put of the loop
  makes the loop's put fail, and the loop goes on: the pre-tool checkpoint, or
  the final status, is lost (`run-store.ts:205`, `agent-loop.ts:1187`, `:1719`).
* A request that timed out, or could not be sent, is remembered as declined
  (`tool-approval.ts:89`), where :34 says "Calls the person already declined".
* `collides` does not find a lock on "/" to contain anything
  (`execution-limits.ts:13`); `Containment` says that this is the only exception.

Harness, coordinator and copies:

* A ready plan is found by its stage and claimed by nobody
  (`coordinator-manager.ts:172`), where docs/modes.md:56 says a plan is used
  once. The row of a plan-mode task says policy approval, and its resume approves
  everything (:2059, :2065); a task that is run in auto mode on a plan-mode row keeps
  the policy of the row and is not asked for either. The end of one harness run removes the worker
  instances of all (`profile-harness.ts:528`).
* A merge that is reported as one that "could NOT be merged" (`agents/index.ts:809`)
  may have written its other files, and markers, into the shared worktree
  (`code/src/workspace/manager.ts:180`).
* A stop that is refused at its deadline leaves the task among the stopped: its run
  ends later and settles nothing. A resumed task whose harness throws stays
  "planning". resumeTask stores completed whatever the integration returned
  (`coordinator-manager.ts:2069`). A worktree that cannot be made fails outside of
  the try of runTask, and nobody settles the task. The sweep spares the tasks that
  were going when it began, and not those begun or resumed while it looks.

Scheduler, servers and lanes:

* Two runs of a job that overlap count as one (`BunCronScheduler.ts:308`), and pass
  `max_runs`. A pause that read an active job may write paused over completed
  (:173). A put that lost its race ends executeJob and leaves its run stored as
  running (:306), or ends a pause after it stopped the timer. A one-shot job whose
  instant passed while no process ran stays active and never fires (:249).
* A server that was switched off and on before a pass of hot reload saw it stays
  disconnected: the reconciliation compares configurations only
  (`mcp/src/manager.ts:129`), where `gateway/server.ts:1352` says "Connect/Disconnect
  MCP server in real-time (no restart needed)". A server deleted before a whole
  pass has noted it stays connected (`hot-reload.ts:58`, :89), or comes back with
  the switch of another server. Two disconnections that overlap may leave a client
  open. The toggle handler at `server.ts:1284` is shadowed by the one at :1046;
  handleMcpServerAction and reconnectAll have no caller.
* The handler of the chat route does not look at its signal (`routes/chat.ts:107`):
  its request is answered 504 after two minutes while the task goes on and holds
  the lane. Nobody passes a priority to a lane.
* The retry of a failure leaves the map of timers before it has run
  (`failure-recovery-scheduler.ts:108`), so that who waits for it may not find it.

## 8. What is not modelled

`PROJECT.json` lists every component with its status and reason. In short:
model providers, tools, files and git are input and output, and appear as the
outcomes the modelled code tells apart; prompts, contexts, narrative, events and
screens carry text on which no modelled decision depends; providers, skills,
authentication and configuration load and parse. The Rust UI is present by its
answers. The legacy pipeline of phases (its workers, checkpoints of files,
blackboard, conflict detector, leases) is superseded by the harness and runs only
when an environment variable asks for it. The adaptive scheduler has no caller in
production code. Cron expressions and the repetition detectors are pure functions
over calendars and texts; the modules have their result as a choice.

Most of the lines of the repository are of these kinds: screens, parsing of
commands, HTTP handlers that validate and forward, tables of seeds and catalogues.
The modelled lines are those where actors meet.

Inside the modelled components: the acceptance checks, the guard on a proven
task and the memory tools of `tools/agents`; the contents of messages, tokens and
prices, the repeat tracker (its verdict is a choice) in the loop; prompts, the
weight estimate (the route is a choice) and rows of agents in the harness;
channels other than Telegram in approvals; the calls of workers and the narrative
in the life of a task; a configuration that cannot be decrypted in the MCP servers.

## 9. Plan

Order: what loses work or breaks a promise to a person comes first. Done:
`ExecutionSlots`, `Delegation`, `AgentRun`, `ProfileHarness`, `ToolApproval`,
`SwarmWorkspaces`, `CodeTask`, `CronJobs` with its refinement, `McpServers`,
`LaneQueue`, and the proofs of section 6.

The safety properties of the runs are all proved. What is left is breadth.

Abstract specifications worth stating next: a lock service (admit, end, with
exclusion and limit only) that `ExecutionSlots` implements; the delegation board
as a set of write-once futures; a task (open, gated, ended) that `ProfileHarness`
implements and `CodeTask` uses.

Models worth adding: the failure recovery with its stored job; RepeatTracker and
the stuck-loop detectors, and the next run of a cron expression, as functions
checked against a brute-force definition over bounded inputs.
