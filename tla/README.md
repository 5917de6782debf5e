# Formal models of the Business Operating System

TLA+ modules, TLC configurations and TLAPS proofs about the parts of this repository that
run concurrently, fail half-way or must eventually finish: the durable execution path
(requests, jobs, workers), webhook events, the lease queue with its worker runtime, durable
orchestration, the scheduler, task events with their store, the configuration of workflows
and integrations, accounts over the database pool, the legacy serverless handlers, and the
controls of AI agents. Line references are to the repository at the commit the models were
written from; `PROJECT.json` maps every definition to its lines.

## The system

Three generations of code live side by side.

*The production path* is SQL: the routes of `apps/api/saas_routes.js`, the route modules it
calls and the catch-all function `api/[...path].js` insert rows, and workers
(`startProductionWorker` in the server, and every call of the cron function) claim rows of
`bos_jobs` and run `modules/automation/production_worker.js:processJob`. Every statement
outside the claim and the creation of a workflow commits by itself, or is sent to the pool
between a BEGIN and a COMMIT that are sent to the pool as well. The schema
(`packages/persistence/saas_schema.sql`) contributes uniqueness constraints, and nothing else
ties the rows together.

*The legacy handlers* (`api/v1`) keep records of any kind in one table, `bos_records`,
through `packages/persistence/repository.js` and its siblings.

*The engines* (`modules/queue`, `modules/scheduler`, `modules/orchestration`,
`modules/workflow`, `modules/events`, `modules/ai`, ...) are classes over a repository with
`save`, `find` and `all`. The repository hands out copies and stores whole records, so each
operation is a find, some turns of the event loop, and a save that overwrites what it did
not see.

### Components

| Component | State | Operations | Hard behaviour | Correct when | Module |
| --- | --- | --- | --- | --- | --- |
| Durable production execution | `bos_workflow_executions`, `bos_jobs`, `bos_execution_steps`, `bos_notifications` | request, cron tick, claim, processJob | faults and crashes between statements, retries that start over, two workers | claims exclusive, effects bounded, rows agree, only faults leave work behind, everything ends | `WorkflowExecution`, `JobLifecycle` |
| Webhook events | `bos_events`, `bos_jobs`, `bos_workflows.status` | delivery, event.process, publish, disable | repeated deliveries, partial fan-out, retry, workflows changing meanwhile | processed means served, repeats bounded, accepted means processed | `EventIngest` |
| Lease queue and worker runtime | `queue` records, timers, `heartbeats` map | enqueue, claim, heartbeat, complete, retry, reclaimExpired, process, stop | lost updates, leases that expire, crashes, timers | completion earned, leases exclude, timers end, work recovered | `LeaseQueue` |
| Workflow task engine | `task` records | startTask, completeTask | find-then-save, then publish | a task completes once and its handlers hear of it | `TaskEvents`; `completeTask` also in `LeaseQueue` |
| Event bus and event store | handler lists, `event` records | publish, append, replay | append is find-then-save; a handler's error ends publish | what is handled is stored; replay repeats all of it | `TaskEvents` |
| Durable orchestration | `orchestration_execution` records | create, update, resume, recover, recoverAll, execute | calls that overlap at every await, rejected saves, crashes | results are real, one success, completed stays | `Orchestration` |
| Scheduler | `schedule` records | schedule, cancel, dispatchDue | runs and cancels over stale copies | dispatched means queued, once; cancels hold; due work is dispatched | `Scheduler` |
| Workflow versions and controls | `bos_workflows`, `bos_workflow_versions`, `bos_audit_logs` | create, save, publish, disable | two saves compute one next version; a save stops between its statements | the current version exists, at most one is ahead | `WorkspaceConfig` |
| Integrations | `bos_integrations`, secrets | connect, store, test, retest, disconnect, use | the result of a test arrives after a disconnect | connected means tried and accepted | `WorkspaceConfig` |
| Accounts, sessions, membership, onboarding | users, sessions, one-time tokens, invitations, the owner's workspace; the pool's clients | register, login, logout, request and use of a reset, verify, accept, Google sign-in, onboarding | BEGIN and COMMIT sent to a pool; row locks; check then insert | a token is used once, an answer is committed, everybody is answered | `Accounts` |
| Legacy handlers, automation engine | workflow and execution records | delivery, run, create, patch, delete | find the replay record, act, save it | records are true, repeats repeat nothing, deleted stays | `LegacyAutomation` |
| AI agents, governance approvals | audit trail, effects, approval records | run, request, decide | every callback may fail before or after its effect; requests made again | the audit tells the effects, another person decides | `AgentControls` |
| Persistence | repositories, the pool | save, find, all, delete | statements fail, clients run out | - | in the modules above |
| HTTP server, authorization, billing, domain records, observability, web pages | request-local or in memory | routing, checks, formatting | none over time | - | not modelled |

Interactions: the production worker reads what the routes insert, through the database only.
`SchedulerEngine.dispatchDue` calls `QueueWorkerEngine.enqueue`;
`DistributedWorkerRuntime.process` calls `claim`, `heartbeat`, `complete` and `retry`;
`complete` calls `WorkflowEngine.completeTask`, which publishes `task.completed` on the bus.
`QueueWorkerEngine` subscribes to that event in order to enqueue a following task
(`docs/EVENT_QUEUE_INTEGRATION.md`), but the engine never puts a `nextTaskId` into it, so the
subscription does nothing and the two modules share only `completeTask`.
`RecoveryAwareOrchestrator.execute` calls recover, update and the caller's operation.

## Modules and their correspondence to the code

Each action is what happens between two awaits that reach something shared: one SQL statement,
one repository call, one callback, or one crash. A statement ends "ok", "lost" (no effect) or
"unacknowledged" (its effect took place, but the sender sees an error); in the engines' modules
a save may be rejected. All modules are written over sets given as CONSTANTS with named
assumptions, so that the same module is checked and proved about.

### WorkflowExecution

One request is one handler run of `POST /api/v1/executions` or of the cron tick
(`reqPc`), one execution row, one job row and its step rows; a worker (`pc`, `jobOf`,
`stepOf`) is a server loop or a cron invocation inside `startProductionWorker`'s loop or
`processJob`.

* `InsertExecution`, `AnswerDuplicate`, `InsertJob`: the two autocommitted inserts and the
  `ON CONFLICT DO NOTHING` answer. `LockJob`, `ClaimJob`: the claim transaction, whose row
  lock (`FOR UPDATE SKIP LOCKED`) is `LockedRow`.
* `SelectExecution` to `CompleteJob`: the `workflow.execute` branch in its order, with the
  early return for settled executions, the inner catch (`FailStep`) and the outer one
  (`CatchError`, `FailExecution`, `NotifyFailure`). The external action of a step answers,
  fails before its effect or after it.

Abstracted: step contents, the context and messages; the length of a backoff (`run_at` is
due or later); `SELECT attempts, max_attempts` of the outer catch is joined with the UPDATE
that follows (the two columns do not change in between, the claim being exclusive), and with
it the fault of that SELECT, which leads to the same place as a lost UPDATE. Step keys of a
definition are taken to be distinct. `cancelled`, a status nothing in the code sets, is kept
in the guard that reads it. `JobLifecycle` is the abstract specification of one `bos_jobs` row.

### EventIngest

Deliveries of `POST /api/v1/webhooks/:endpoint` with their external ids and workspaces, and
the `event.process` branch. `todo` is the result of the SELECT of published workflows, which
has no ORDER BY: they are served in any order. The claim is one step here (its transaction
is `WorkflowExecution`'s). `Publish` and `Disable` are the single UPDATE of the two routes.
The set `Workflows` holds those the trigger filter lets through. The SELECT of the event is
joined with that of the workflows: the row never changes in what the branch uses of it.

### LeaseQueue

Slots are concurrent `process()` calls; a runtime has as many as its concurrency. A check and
the save that follows it without another access are one step. `found`, `beat`, `caller` and
`foundTask` are the copies operations hold. `timers` counts the intervals that run and
`mapped` is the runtime's `heartbeats` map, which holds one entry per task. `stale` records
that a save has overwritten a change its find had not seen, and `Single` says that a runtime
makes one `process()` call at a time: properties that hold only up to lost updates, or only of
such runtimes, say so with them. `Crash` ends a call at any of `CrashPoints`, and with it
its timer. Heartbeats under way of one runtime for one task are merged into one.

### TaskEvents

Calls of `startTask`, `completeTask`, of publishers that give their events an id, and of
`replay`, about one task of one tenant. `FindTask` and `SaveTask` are the two halves of the
engine's operations; `AppendFind` and `AppendSave` those of `DurableEventStore.append`;
`Handle` is one turn of the loop in `EventBus.publish`, whose error ends the loop and is the
caller's. An event is named by the call that made it, so that the store says whose copy it
holds. Abstracted: subscriptions are fixed; the `after` filter of `replay`, and its order,
are left out (`Replay` gives the stored events in any order).

### Orchestration

The calls made about one execution id; a call is `create`, `execute`, `recover` or `resume`
(`recoverAll` is `recover` of each). `known` is the local `execution` of `execute`, `copy`
the record a pending `update` has found. `SaveRunning` to `SaveFailed` follow `execute` in
its order, including the catch that records `failed` when the save of a result is rejected;
a rejected save elsewhere, or the find before it, ends the call (`SaveRejected`). Records are
created pending: `create` would also take status, attempts and result from its caller, which
only tests do.

### Scheduler

Dispatchers run `dispatchDue`: `Start` takes copies of all schedules (`left` are the ones
the loop will visit), `Take`, `QueueFind`, `Enqueue`, `Mark` and `Publish` are the body, `Restore` the
catch. `schedule` and `cancel` are a find and a save each. Schedules exist initially or are
created by a caller; their tasks exist. `Work` stands for the queue's workers.

### WorkspaceConfig

One workflow and one provider; a request is a handler with its operation, its place and the
one value it has read (`call`). `Create` is a transaction on one client and so one action.
`FindWorkflow`, `InsertVersion` and `UpdateVersion` are the statements of
`PUT /api/v1/workflows/:id`; the constraint `UNIQUE(workflow_id, version)` is `Taken`.
`FindDefinition` and `UpdateStatus` are publish and disable as `workflow_controls.js` serves
them: the routes of the same names in `saas_routes.js` (127-135) are never reached, because
that request was answered before. `Take` and `Try` are the routes of integrations, with the
call of the provider between them; `keyed` is the presence of the encryption key, without
which `Sealed` throws. `causes` records what may have connected a provider whose credentials
were not tried: the route that stores without a test, a test of other credentials than the
stored ones, a row that changed during its test. Left out: the provider `google_workspace`,
whose field list is empty, so that `connect` always refuses it.

### Accounts

Each handler is a sequence of statements (`Program`, in the order the code sends them,
including the `schema` statements that create or backfill rows: `Ensured`) sent one after the
other to a pool of clients. `Connect` is the pool's `connect`, `Run` a statement that is answered,
after which the client is released: nothing but the order in which the pool hands out idle
clients keeps the statements of `resetPassword` and `acceptInvitation`, whose BEGIN and COMMIT
are sent the same way, on one client. `Fails` is a statement that ends in an error, be it a
`Fault`, a broken constraint (`Rejected`) or a deadlock: `pool.query` then releases the client
with the error, which closes it, and the database rolls its transaction back. So the ROLLBACK of
the catch (`pc` 0) is never sent over the connection that failed.

`GoogleAuth` is the Google sign-in with a business name, `GoogleSignIn` the one without, which
looks for a workspace and makes none. `getWorkspaceForUser` (`FindsWorkspace`) also finds a
workspace the user has only joined, so that an onboarding after an accepted invitation answers
`exists`. It is read once more at the end of `createOrUpdateWorkspace`, and by a login after its
session was made, when a reset beside it may have ended that session.

The pool is `pg`'s, and its rules, last released first out (`Handed`) and closed on error, are
external, as are PostgreSQL's row locks (`Blocked`), its deadlock detection (`DeadlockDetected`)
and its rollback when a connection is closed (`RolledBack`). `IdleTimeout` is the pool's
`idleTimeoutMillis`, `ConnectTimeout` its `connectionTimeoutMillis`. `pending` holds what an open
transaction has written.

Left out: hashes, expiry, cookies and the e-mail provider; Google's answers are taken as good and
passwords as right; locks of rows or tables a transaction has only read; a fault between a schema
statement and the query it precedes; a COMMIT whose acknowledgement is lost; the handler of the
e-mail registration, which sends statements that are in the other programs.

### LegacyAutomation

Deliveries of `api/v1/webhooks.js` and runs of `run-production.js` with their keys, and the
creation, change and deletion of workflows by `api/v1/workflows.js`. `Find`, `Look` and `List`
are the reads in the order of each handler, `Step` is one action of a workflow through
`AutomationEngine.run`, and the saves write the execution record under the key. `done` counts
the actions each request has carried out. A PATCH finds (`seen`) and saves. Steps of a workflow
do not change; which workflows an event matches (`rules.js`) is a constant. A run that brings its
steps (`inline`) looks up no workflow. Deliveries and runs keep records of different types, so no
behaviour has both under one key (`LegacyAssumption`).

### AgentControls

`EmployeeRuntime.run` with `PolicyEngine`, its audit callback and the `ExecutionPipeline` as
its executor, and one approval id at each of the two gates (`modules/ai/approval_gate.js`,
`modules/governance/approval.js`). The repository wires these classes nowhere; they are joined
by the interfaces they have. The first audit is outside the try block (`AuditStarted`), the
others inside it or in its catch. The gate of `modules/ai` replaces a record on a second
request and decides again; that of `modules/governance` does neither.

### Instances and proofs

`MC*.tla` give constants their values. The `*Proofs` modules hold the theorems. `ProcessProofs`
extends `Orchestration` and `TaskEvents`, `AccessProofs` extends `Accounts` and `AgentControls`:
for that the names of `TaskEvents` and `AgentControls` say whose they are (`TaskSpec`,
`ControlsSpec`).

## Runs

| Run | What it shows | Instance |
| --- | --- | --- |
| `exec_safety` | exclusive claims, effects bounded by attempts and key, completed executions ran to their end, rows and notifications agree, each job left running without a worker is the work of a fault or crash, nothing acts after the end | 3 requests (2 share a key), 2 workers, `stop` condition and action, 2 attempts, 1 fault of either kind, 1 crash |
| `exec_lifecycle` | `bos_jobs` implements `JobLifecycle`; queued executions end | 2 executions, 2 workers, recording condition and action, 2 attempts, 1 lost statement |
| `ingest` | processed means served; repeats stay within faults and attempts; accepted events are processed unless the job is abandoned | 1 event delivered twice, 2 workflows, 2 workers, 2 attempts, 2 faults, 1 crash, 2 changes |
| `lease_safety` | completion earned, leases exclude, timers end, live leases kept | 2 runtimes, heartbeats, one enqueue or sweep, one failure and one crash anywhere |
| `lease_recovers` | enqueued work is completed in the end | 2 runtimes, a throwing handler, a crash in the handler |
| `events` | a task completes once unless two calls raced for it; what handlers are given is stored, and a replay gives all of it again | 4 calls of every kind, one shared event id, 2 handlers, 1 fault or crash |
| `orch_safety` | results are real; without overlap one success, and completed stays | 3 calls, the third of any kind, 2 keys, 1 rejected save, 1 crash |
| `sched` | dispatched means queued, once unless runs overlap; cancels hold; due work is dispatched in spite of a failure | 2 dispatchers, 2 schedules of one task, 1 caller, 1 failure, 1 crash |
| `config` | versions stay in order; connected means accepted, up to three named causes | 4 requests of a workflow (a create, two saves, one more) or of a provider (a connect and any three), 2 faults |
| `accounts` | transactions stray only in company; tokens used once; answers committed; everybody is answered | a pool of 2 clients; with 2 faults {reset, accept}, {accept, accept}, {reset, sign-in}, {reset, verify}; with 1 fault {reset, reset}, {accept, onboard}, {onboard, onboard}, {request, reset, request}, {reset, login, logout}, {google, google, logout}, {google, onboard, sign-in}; without faults {reset, reset, logout} |
| `webhooks` | records are true; repeats repeat nothing unless side by side; deleted workflows stay deleted | 4 requests: deliveries or runs (also with steps of their own) under one key beside create, patch, delete; 3 workflows (one empty, one with an unknown action), 1 fault or crash |
| `agents` | the audit tells the effects; decisions are taken by another | 3 runs (allowed, denied, unmatched), plans of up to 2 steps, 2 failing callbacks; 2 people, 4 calls of the gates |

**Bounds.** Two workers, runtimes or dispatchers are what a race needs, and a third request
or call lets a repetition meet an execution next to another. `MaxAttempts = 2` gives a first, a
last and so every kind of attempt. One fault and one crash may fall anywhere, also both; the
fault is what makes a job go back to the queue, and `exec_safety` also gets there by failing
actions, which are not bounded. Two steps give every order a condition and an action can have
in a retry. `LeaseMs` of one tick with one tick of time (`lease_safety`) lets a lease run out
at any point of its holder's work; `AttemptCap` only stops a counter nothing reads. In
`sched` two schedules of one task make the second enqueue find what the first has left. In
`config` two saves and a third request are what it takes to insert a version next to an orphaned
one, and two faults to orphan it and to fail after it. In `accounts` two clients are the least
on which a transaction can leave its client, and three requests can deadlock on them and use
them up; the second fault lets a ROLLBACK fail after the
statement that caused it, and `accept` beside `onboard` lets a membership be found. In `events` a replay can begin before, between and after the two
deliveries; one id for all publishers makes appends collide. Whether a property would notice
if the code were different is shown by the mutants in `PROJECT.json`: each is one plausible
change of one definition under which the run finds the property violated.

**Fairness.** Safety runs assume none. `exec_lifecycle`, `ingest`: a worker that is up goes on
polling (`setInterval(loop)`) and runs what it holds, a handler that inserted its execution
goes on, and time passes a backoff. `lease_recovers`: calls of `process()` go on, a worker that is
up is asked to process queued work, and time passes. The last but one is an assumption on
callers: `start()` polls `queue.next`, which no queue of the repository has. `sched`:
`dispatchDue` is called again and again. `accounts`: the driver answers a statement unless it waits
for a lock, the pool serves its waiters or times them out, and closes the client that has been
idle for `idleTimeoutMillis` when all who are left wait for locks (`WF` of `Serve` and of
`IdleTimeout`). Arrivals, crashes, faults, sweeps,
cancels and publications are never fair.

**Deadlock** is not checked: when every request is served and every job has ended, these
systems rest, and the bounded environments end. That nobody waits for ever is
`EventuallyAnswered`, `EventuallySettles` and their like.

## What the models show of the code

The models follow the code, not its documents. Where a document promises more than the code
does, the properties state what the code guarantees and name the exception:

* **A job can stay `running` for ever.** `locked_at` is written and never read; a crash after
  the claim, or a fault inside the outer catch, strands job and execution (`README.md:27,470` of
  the repository call execution durable). `AbandonedByFaults` bounds the damage: at most as many
  jobs are left behind as there were faults and crashes.
* **A key can be taken by an execution no job will run**: two inserts without a transaction,
  and the retry is told "duplicate" (`README.md:475`). An event can be stored without its job the
  same way; `EventuallyProcessed` is about the others.
* **An announced success can turn into a failure**: the last UPDATE shares the catch with the run.
* **Poisoned queue items**: after a crash between the two saves of `complete`, every later
  completion ends in `TASK_ALREADY_COMPLETED` and a retry (`docs/DURABLE_WORKER_LEASES.md:15`).
  `lease_recovers` places its crash in the handler.
* **External ids are shared by all workspaces**: `UNIQUE(provider, external_id)`, with the
  provider always `webhook` (`README.md:209`). `ingest` has one workspace.
* **An orphaned version blocks a workflow**: when the INSERT of a version took effect and the
  UPDATE did not, the next version is taken, and every later save fails on the constraint.
  `VersionsInOrder` shows it is the only version that can be ahead.
* **A disconnected provider can be shown as connected**: a test with credentials in its body, or
  one that ends after the disconnect, marks the row. These are `causes` of `ConnectedIsUsable`.
* **A transaction sent to the pool is one only when nothing runs beside it**
  (`StraysOnlyBeside`). In company its statements commit by themselves on another client, or
  enter another request's transaction; the locks a stray leaves are freed by the idle timeout.
  After an error the ROLLBACK goes to another connection than the transaction's: alone that is
  harmless, because the client that failed is closed and its transaction rolled back, in company
  it may end another request's transaction.
* **An onboarding may leave a user without a workspace of their own**: one they have joined will do
  (`HasWorkspace`). **A login may hand out a session that has ended**, when a reset comes between
  its two last statements (`SignedIn`).
* **An approval at the gate of `modules/ai` can be decided by its first author** after another
  has made the request again.

Also seen while modelling, and kept in the models:

* Lease queue: two claims that both found an item queued both hold it. A heartbeat that found a
  record before `complete` saved it turns it back to `processing`, and `reclaimExpired`, which
  saves copies taken before its first save, turns one completed meanwhile back to `queued`. A
  refused claim makes its runtime call `retry` for work another of its calls is doing, and since
  `retry` asks for the worker's id only, a late call of a runtime with concurrency above one hands
  back the lease of another, which is why `LeaseExclusion` speaks of runtimes with one call at a
  time. With concurrency above one a timer can also be overwritten in the `heartbeats` map and
  never cleared.
* Orchestration: `recover` can set an execution that completes meanwhile back to `resuming`;
  overlapping first calls of `execute` with different keys both run; when the save of a result is
  rejected, the record says `failed` and the next call runs the operation again.
* Scheduler: two overlapping runs both hand over a schedule, also when its task is already
  completed; a schedule cancelled after a run took its copy is dispatched all the same; one whose
  dispatcher crashed stays `dispatching`.
* Tasks and events: a start that found the task before its completion takes the completion back;
  of two appends of one event id the second replaces what handlers have been given.
* Legacy handlers: a PATCH that had read a workflow before its deletion brings it back; two
  deliveries side by side both run the actions.
* Accounts: two requests of a token side by side leave two live ones, two resets side by side use
  one token twice.
* AI agents: when the audit of a finished run fails, the run is on record as failed although all
  its effects took place.

The conditions `stale`, `Single`, `overlapped`, `raced`, `racedIds`, `met` and `Untouched` in the
properties mark exactly these: the hazards they belong to are in `PROJECT.json` without a
property, since what the code does there no property can forbid.

## Proofs

Eight modules prove, for all values of the constants that satisfy the named assumption of each
module (`ExecutionAssumption`, `QueueAssumption`, ...), what the runs check on one instance.
Every argument has the same form: a strengthening of the property is shown to hold initially
and to be preserved by each action (one step per action, `Next...` lemmas), and to imply the
property. Each module has `TypeCorrect`, the type invariant of its model; `TaskTypeCorrect` and
`ControlsTypeCorrect` are those of `TaskEvents` and `AgentControls`.

*`WorkflowExecutionProofs`*

* `ClaimsAreExclusive` (`NoSharedJob`). The property is not inductive: a worker could claim a
  job another is running if the row said `queued`. `ClaimInv` ties the worker's place to the row:
  who has a job beyond the claim, up to the catch, has its row `running` (or already ended, where
  the acknowledgement was lost), and such a row is not claimable.
* `EffectsAreBounded` (`EffectsBounded`). Effects of a step are at most the attempts of its job,
  one less while the present attempt has not reached the step (`EffectsInv`), and attempts stay
  within `MaxAttempts` because only a row with attempts left goes back to `queued`; for the key,
  an execution with a job took its key, and no second one can (`KeyInv`).
* `CompletedReallyRan` (`CompletedRan`), `OutcomesAlwaysAgree` (`OutcomesAgree`) and
  `SettledIsQuiet` (`QuietWhenSettled`). `SettleInv` says what a worker at each place has left
  behind: inside the loop the steps before its index are done (`RunBehind`), past the loop the
  run reached its end, and the execution row has the status that place follows from
  (`ExecStatusAt`). Since claims are exclusive, nobody else writes those rows meanwhile (`OwnJob`).
* `OnlyFaultsAbandon` (`AbandonedByFaults`). The abandoned jobs are a finite set which a step
  extends by at most the acting worker's job, and then only if it counts a crash or a fault.
* `LifecycleImplemented` (`ImplementsLifecycle`), under `FaultKinds \subseteq {"lost"}`:
  `NextIsLifecycle` maps every statement to a step of `JobLifecycle` or a stutter, using
  `ClaimInv` and `CatchInv` (a worker in the catch has a row that is still `running`). The
  assumption is needed: when the acknowledgement of `UPDATE ... status='completed'` is lost, the
  catch takes the completed row back to `queued` or `failed`.

*`EventIngestProofs`*

* `TypeCorrect`, with the bound on attempts (`AttemptsLeft`).
* `ProcessedIsServed` (`ServedWhenProcessed`). `LoopServes`: what a worker in the loop has not
  served it still has to serve; `EventFirst`: a job exists only next to its event, so that no
  worker is busy with an event that is being stored.
* `FanoutIsBounded` (`FanoutBounded`). The bound on executions splits in two: an attempt starts a
  workflow once at most (`OncePerAttempt`, by what a worker has still to start), and each attempt
  after the first follows a fault (`AttemptsAreFaults`). Both need that a job is held by one worker
  and not claimable meanwhile (`Held`). `OneEvent` is the constraint on external ids at work.
  Executions without a job are a finite set that grows by one with an INSERT whose worker goes on
  to the job, and otherwise with a fault or crash only (`Paired`, `Accounted`).

*`LeaseQueueProofs`*

* `TypeCorrect` and `TimersAreCleared` (`TimersCleared`), from `TypeInv`, which adds `TimerOf`: each
  entry of the `heartbeats` map has a running interval, and the only intervals of a runtime with
  one call at a time are those of its map, whose call is under way.
* `LiveLeasesAreKept` (`LiveLeaseKept`). `CopyInv` says what the copies are good for: a call
  past the check of `complete` holds a copy that names its worker, a heartbeat a record of its
  worker, a sweep records whose lease ran out. `Changes` then says that a save that loses no
  update requeues, renews, claims or ends.
* `LeasesExclude` (`LeaseExclusion`). `LeaseInv`: as long as no update was lost, a runtime with
  one call at a time whose lease has not run out is the one the record names.
* `CompletionsAreEarned` (`CompletionIsEarned`). `CompletionInv` follows the completion from
  the handler's return through the task's copy and record to the queue's copy and record.

*`ProcessProofs`*

* `ResultsAreAlwaysReal` (`ResultsAreReal`): results in records, copies and calls are results
  some run returned (`ResultInv`).
* `CompletedIsKept` (`CompletedKeptWhenSequential`): as long as calls have not overlapped, one
  call is under way at most, and what it knows of the record is up to date (`SequentialInv`).
* `OnceInSequence` (`OnceWhenSequential`): without overlap, crash and fault the runs are counted
  by the record's attempts, and the one success is recorded or about to be (`OnceInv`).
* `TaskCompletedOnce` (`CompletedOnce`). `OneCopy`: unless two calls held copies of the task at a
  time, a copy is as good as the record, and one completion took effect at most. That it is then
  told to every handler needs where a call came from (`PlaceInv`), whose event it publishes
  (`OwnInv`: an event is stored under its own id) and that of the handlers each has been called or
  is still to be called (`ToldInv`).
* `HandledStaysStored` (`HandledIsStored`). `AppendInv`: of two appends of an id side by side the
  id is known as raced; so otherwise nothing is under it when one saves. Then what is given, to be
  given or was given is what the store answers (`SoundInv`). For replays, `ShownInv` says that
  what one found it has given or is to give; `AllStored`, that this was everything.

*`SchedulerProofs`*

* `DispatchIsBacked` (`DispatchedWasQueued`). `DispatchInv` carries what a run knows from its
  enqueue to its save of `dispatched`; `GivenStays` says that no step takes that away.
* `HandedOverOnce` (`QueuedOnce`). `Owed`: a schedule may be handed over once more while it is
  not taken, not yet enqueued, or about to be put back; an enqueue uses that up and only a
  failure renews it (`Handed`). `Apart` says that one run is at work.
* `CancelsHold` (`CancelHolds`). `CancelledStays` is the step: a run takes copies of `scheduled`
  records only, so nobody comes to hold a copy of a cancelled one.

*`WorkspaceConfigProofs`*

* `VersionsStayInOrder` (`VersionsInOrder`). `VersionInv`: the versions are those up to the
  current one and at most the next, and a save under way has read one that is no later. `Room` is
  the counting argument that the next number is one of `Versions`.
* `ConnectedStaysUsable` (`ConnectedIsUsable`). `LinkInv`: unless one of the named `causes`
  happened, a connected row has credentials the provider accepts, and so has each request that
  is past its test (`TakenOf`).

*`LegacyAutomationProofs`*

* `RecordsAreTrue` (`RecordedRan`) and `OnceForAll` (`OnceUnlessBeside`). `RunInv` says which
  workflows each request has behind it (`RunOf`), ties each record to a request that is over and
  ran what it names, and, for a key without two requests side by side, says that one request is
  busy and one has had an effect at most (`RecordOf`); the lemma `Alone` puts this to use.
* `DeletedStaysSo` (`DeletedStays`).

*`AccessProofs`*

* `TransactionsStay` (`StraysOnlyBeside`). Alone the property says nothing of the pool, so
  nothing keeps it. `HomeInv` does: while transactions had no company, an open transaction is on
  the client its request has or will be given next, which is the last in the pool's list of idle
  clients (`OpenKept`), and a request between its BEGIN and its end has one (`PastOpen`). `PlaceInv`
  keeps a request at a place of its handler; `AloneInv` says that nobody else is there to be given
  its client, or to have the transaction that the ROLLBACK after an error meets. An error closes
  the client and so ends the transaction, with or without the ROLLBACK.
* `AnswersStand` (`AnsweredIsCommitted`). A commit writes what is `pending`, so `PendingInv` follows
  what each transaction has written so far, and `OwnerInv` says whose each transaction is. `MadeInv`
  has the rows a handler without a transaction made or found and counts on later (the user and the
  session of a login, the workspace of an owner or a member). The proof goes through all
  statements of all handlers once, in `HomeRuns`: as long as nothing is astray, a statement opens,
  commits or rolls back its request's transaction, or is within it, or outside any (`DoesAtHome`);
  every other step is `Quiet`.
* `TokensLiveOnce` (`TokensOnce`). `IssuedInv`: tokens are rows only once their request was
  answered. `OneLiveInv`: without two requests for tokens side by side one is live at most.
  `OnceInv`: without two resets side by side a token that reset a password is used, and whoever
  goes on past the check has another.
* `AuditIsTrue` (`AuditTellsEffects`). `RunInv` ties the place of a run to its trail in the
  audit and to its effects (`InStep`).
* `AnotherDecides` (`DecidedByAnother`). `GateInv`: for each gate (`InForce`),
  the requester on record is one who asked and is not the one who decided, and the governance
  request was asked for once and decided once at most.

Every safety invariant and every action property of the runs is proved, and so is the refinement of
`JobLifecycle`. Only model-checked is liveness (`EventuallySettles`, `EventuallyProcessed`,
`EventuallyCompleted`, `EventuallyDispatched`, `EventuallyAnswered`), which under fairness is out
of the provers' reach, like ENABLED. The type invariants of `EventIngest`, `Orchestration`,
`WorkspaceConfig`, `LegacyAutomation`, `TaskEvents` and `AgentControls` are proved and are in no
configuration.

## Not modelled

* `FailurePolicy` (a pure function nothing in `src/` calls) and `start()` of the worker
  runtime, which polls `queue.next`, a method no queue has. `OrchestrationReliability` is a retry
  loop over one call; `PostgresOrchestrationState` chooses the repository.
* `startProcess`, definitions and versioning of the task engine: constructors of records.
* `WebhookDelivery`, the in-memory integration registry, the onboarding class, billing, the
  usage meters, the agent registry and memory: synchronous changes of an object in memory,
  mostly called by nothing but their tests. One call shows what they do.
* The migrator, which runs before anything else, and `transaction()` of the PostgreSQL
  repository, which nothing calls. Invitations and API keys are created by one INSERT each.
* The HTTP server, the rate limiter (one counter changed without an await), authorization and
  tenancy (look-ups in role tables), the business domain (constructors), logging, metrics,
  validation schemas, release checks, the pages and the CI scripts: request-local computation or
  tooling, without behaviour over time.
* `run.js` of the legacy handlers keeps nothing.
