# Verification of the remove-watermark services

TLA+ modules, TLC configurations and TLAPS proofs for the services in this
repository. Paths below are relative to the repository's root.
`PROJECT.json` is the index: components, runs, the source lines of every
definition, hazards, findings and theorems.

## 1. The system

A user uploads an asset, creates a *task* on it, draws a mask or regions, and
gets the cleaned file. Customers are told by webhook, users pay by
subscription, and a usage ledger says who owes what. The parts that keep state:

| part | code | state | operations | correct if |
|---|---|---|---|---|
| Task state machine | `apps/api-gateway/src/modules/tasks/task-lifecycle.service.ts` | none; it plans what a transition writes | plan a create, an action, a worker's step, an ending | transitions follow one table, an ending settles the ledger and is announced |
| Task API | `apps/api-gateway/src/modules/tasks/tasks.service.ts` | Postgres: `Task`, `TaskMask`, `TaskRegion`, `TaskIdempotencyKey`, `TaskActionIdempotency`, `UsageLedger`, `OutboxEvent` (or the same records in memory, flushed to a file) | create, cancel, retry, upload mask / regions, read | a stale read never commits; a repeated call changes nothing; an upload wakes a parked task |
| Quota | `.../tasks/task-quota.service.ts` | reads the ledger and the plan | count the month's units before a create | nobody is charged for more than the plan allows |
| Worker orchestrator | `apps/worker-orchestrator/src/main.ts` | a BullMQ queue and a dead-letter queue on Redis; the task rows | poll the outbox, run a job (a loop of task steps), park a task, mark it failed, dead-letter | no task is lost, none ends twice, all come to rest |
| Dead-letter replay | `apps/worker-orchestrator/src/ops/deadletter-replay.ts` | dead-letter queue, outbox | an operator's replay | a replayed letter drives its task on, and an ended task is not announced again |
| Webhook dispatcher | `apps/webhook-dispatcher/src/dispatcher.ts` | `OutboxEvent`, `WebhookDelivery` | poll the outbox, POST to endpoints, record attempts | every subscriber is tried, at most `maxRetries + 1` times, until it accepts |
| Webhook API | `apps/api-gateway/src/modules/webhooks` | `WebhookEndpoint`, `WebhookDelivery` | manage endpoints, test, retry by hand | a retry adds one attempt to the log |
| Subscriptions | `.../modules/subscriptions` | `Subscription`, outbox, a copy in memory | checkout, confirm, payment callback, refund | one plan in force; events tell the status; a refund is final |
| Billing reconciliation | `apps/billing-service/src/reconciliation` | monthly aggregates, checkpoint runs | hourly incremental, daily full | the aggregates equal the ledger; no row is passed over |
| Plans and usage | `.../modules/plans/plans.service.ts`, `getMyUsage` of `.../modules/subscriptions` | `Plan`, a copy in memory | create, update, list; tell a user the quota | the quota told is the quota enforced |
| Admin console's calls | `.../modules/admin/admin.controller.ts` | `audit_logs`, a copy in memory | replay a task, retry a delivery, create and update a plan | what is done is permitted and audited, what is audited was done |
| Compliance | `.../modules/compliance` | delete requests, audit records, assets | delete asset, delete account, process requests | a request is processed once and to its end |
| Memory task store | `.../tasks/tasks.service.ts`, `.../tasks/task-memory-transaction.ts` | the task tables as maps in memory, and a file | the Task API's operations; write the file, restore it | an operation is done or undone as a whole; keys, charges and uploads outlive a restart |
| Inference gateway | `apps/inference-gateway/app.py` | work directories, a pool of slots, a result bucket | convert, render, inpaint, package; sweep old directories; draw masks | no page is delivered uncleaned; every frame gets the mask that was asked for |
| Mask editor | `apps/user-frontend/src/pages/editor` | the mask, a drag, the undo stacks | pointer events, buttons | undo and redo walk along the line of masks; a drag moves what it took hold of |

They interact through the database. The Task API writes an outbox event in the
transaction that changes a task; the orchestrator turns `task.created`,
`task.retried` and `task.masked` into queue jobs; the webhook dispatcher turns
`task.succeeded`, `task.failed`, `task.canceled` and the subscription events
into HTTP calls. Quota, the usage view of subscriptions and billing read the
usage ledger that tasks write, and the quota's size is the plan of the active
subscription. The admin console's calls go through the same services as the
users' and leave a row in the compliance module's audit log.

### What is hard in it

Everything runs concurrently on Postgres at READ COMMITTED (Prisma's default),
several queue jobs may work on one task, jobs are delivered at least once, and
a process may stop between any two awaits. The main hazards:

- a worker holds a task snapshot over minutes of inference while a cancel, a
  failure or another worker commits;
- the dispatcher adds a job and marks the event in two steps;
- BullMQ ignores an `add` whose job id it still holds, also when that job is
  the caller itself;
- an upload decides whether to wake the task by a status it read earlier;
- the failure handler of a job runs after the job has left the queue;
- cancel, retry and create look their idempotency key up before they write;
- the quota is counted in one statement and held in another;
- webhook dispatchers decide on attempts they read before the POST, and set the
  event's status without a condition;
- two payments of one user expire each other's plan row by row, under locks
  that may deadlock, and what fails on the database is redone in memory;
- an operator's replay puts dead letters back while the queue still works;
- ledger rows are dated before they commit, while the billing run moves a
  watermark past them, and hourly and daily runs overlap;
- a deletion request is claimed in one statement, worked off in others, and the
  audit record is written after that; the process may stop in between;
- two editors upload a mask for the same version, and pages that look at a task
  move it on (the simulation) and read its status and its input separately;
- the usage a user is shown is put together from three reads, each with its own
  fallback to memory, by other code than the one that enforces the quota; the
  audit row of an admin's call is written after its effect;
- the gateway answers a call that its client has given up while the repeated
  call works on the same files, and any call may sweep them away;
- a button undoes or clears the mask while a finger still drags a rectangle of
  it.

## 2. Modules

| module | models | kind |
|---|---|---|
| `TaskLifecycle`, `TaskSimulation` | the statuses, the transition table, what a user may ask for, what a worker does next, what a transition writes; what the simulation does instead of a worker, and what counts as input | constant operators |
| `TaskPipeline` | the Task API's transactions, the outbox dispatcher, the queue and the workers | state machine |
| `DeadletterReplay` | the pipeline with its operators' replays | extends `TaskPipeline` |
| `TaskContract` | what is promised about one task: phase, charge, notice | abstract specification |
| `TaskAdmission` | `createTask`: idempotency key, quota, insert, while tasks end and months turn | state machine |
| `TaskInput` | uploads of masks and regions with their versions, and the pages that look at a task | state machine |
| `TaskMemoryStore` | the Task API without a database: maps, a file, restarts | state machine |
| `WebhookDelivery` | the webhook dispatchers and the webhooks API | state machine |
| `DeliveryLog` | what the delivery table promises | abstract specification |
| `Subscriptions` | checkout, confirmation, payment callbacks and refunds of one user | state machine |
| `BillingReconcile` | ledger rows that commit late, hourly and daily runs, the watermark | state machine |
| `AccountDeletion` | deletion of assets, task views and accounts; the script that works requests off | state machine |
| `PlanCatalog` | the plans, the quota one user's plan stands for, as it is told and as it is enforced, the list of plans | state machine |
| `AdminConsole` | the console's changing calls, their roles and their audit rows | extends `PlanCatalog` |
| `InferenceGateway` | document calls of the orchestrator, the gateway's slots, work directories, sweeper and bucket | state machine |
| `RegionMask` | from what a user marks to the mask images the models get | state machine over pure operators |
| `MaskEditor` | pointer events and buttons of the editor, its undo stacks | state machine |
| `EditTimeline` | a line of masks and a position in it | abstract specification |
| `MCPipeline` | `TaskPipeline` for its users, and `DeadletterReplay` with operators beside them: two parts of one run | extends `DeadletterReplay` |
| `MCTaskPipeline`, `MCDeadletterReplay`, `MCSubscriptions`, `MCRegionMask`, `MCAdminConsole` | one module each, with symmetry sets, inputs or bounds for TLC | |
| `MCAccounts`, `MCServices`, `MCProgress` | sums of components that share no state (section 3) | |
| `TaskPipelineProofs` | proofs about `TaskPipeline`, and about `DeadletterReplay` on top of them | proofs |
| `TaskAdmissionProofs`, `TaskInputProofs`, `TaskMemoryStoreProofs`, `WebhookDeliveryProofs`, `AccountDeletionProofs` | TLAPS proofs about the module they are named after | proofs |
| `BillingProofs` | proofs about `Subscriptions`, `BillingReconcile`, `PlanCatalog` and `AdminConsole` | proofs |
| `ErasureProofs` | proofs about `MaskEditor`, `EditTimeline`, `RegionMask` and `InferenceGateway` | proofs |

`TaskContract` is implemented three times: by `TaskPipeline` (Postgres, queue
and workers), by `TaskMemoryStore` (no database) and by `TaskInput` (pages that
all advance one task). `WebhookDelivery` implements `DeliveryLog`, `MaskEditor`
implements `EditTimeline`. `TaskAdmission` takes the life of a task after its
creation as the contract has it, and `AdminConsole` an admin's replay and retry
as an effect or none: `TaskPipeline` and `WebhookDelivery` have their steps.

A *step* is the code between two awaits that other processes can get between.
Reading a row and the conditional `updateMany` that follows are two steps; from
the `updateMany` on, the transaction holds the row lock, so the update, the
inserts behind it and the commit are one step. (`Subscriptions`, where a
transaction locks several rows, has the locks.)

### TaskPipeline and the code

| variables | code |
|---|---|
| `status`, `version`, `hasInput`, `ledger`, `outbox`, `idem` | the tables; `nextEvent` numbers outbox rows in `createdAt` order |
| `request` | a call of `applyTaskActionWithPrisma`: look-up, read, compare-and-set, answer |
| `upload` | a call of `upsertMaskWithPrisma` / `upsertRegionsWithPrisma` |
| `job`, `dlq` | BullMQ job hashes by id, and the dead-letter queue |
| `run` | one `processQueueJob` (or `failed` handler) per job: where it is and the snapshot it holds |
| `disp` | `dispatchOutboxEvents`: the batch it read and how far it is |
| `attempt`, `faults` | history and bound |

Actions: `CreateTask`; `CheckIdempotency`, `ReadForAction`, `ActionCommit`,
`ActionConflict`, `RememberInvalid` (cancel and retry); `UploadRead`,
`UploadCommit`; `Poll`, `DispatchAdd`, `DispatchMark`, `DispatchFail`,
`DispatchDeadletter`, `DispatchAbort` (dispatcher); `TakeJob`, `ReadTask`,
`DetectInput`, `StepCommit`, `StepConflict`, `StepRejected`, `Park`,
`CompleteJob`, `AttemptFailed` (worker); `FailRead`, `FailCommit`,
`FailConflict`, `FailSwallowed`, `FinalDeadletter`, `DeadletterLost`
(`markTaskFailed` and the `failed` handler); `Crash` (the orchestrator dies).

Abstractions, each deliberate:

- BullMQ is external and modelled from its use: an `add` under an id it holds
  is ignored, a completed job's hash is removed (`removeOnComplete: true`), a
  failed one is kept (`removeOnFail: 100`), an active job of a dead process is
  handed out again. It is, however often its process dies; that BullMQ fails a
  job which stalls more than once is not modelled (section 7). Delays are
  arbitrary: a delayed job is a waiting one.
- An outbox row gets its number when it commits; `createdAt` is set by the
  application a moment earlier, and no property depends on the difference.
- An HTTP call that dies with its process is a call that takes no further step.
- Progress numbers, result URLs and artifacts are left out; the simulation is
  `TaskInput`'s, `advanceTaskStatus` and `seedFailedTask` (called by tests only)
  are `TaskMemoryStore`'s.
- Mask and regions are one flag here: is there detection input. `TaskInput`
  tells them apart and has their versions.

`DeadletterReplay` adds `replay` (per operator: the records still to replay, the
chunk at hand, those whose work is done and whose record is still there) and
`StartReplay`, `NextChunk`, `ReplayJob`, `ReplayEvent`, `RemoveDeadletter`,
`ReplayFails`. A dry run and a run that the bulk guard refuses do nothing and
are left out. Records of a chunk go on in any order, as `Promise.all` has them.

### TaskAdmission and the code

| variables | code |
|---|---|
| `call` | a call of `createTask`: its key and payload, how far it is, the month its quota was counted in, its answer |
| `keyTask` | `TaskIdempotencyKey`, one row for a user's key |
| `phase`, `input` | `Task`: where it stands, and what was asked for |
| `ledger` | `UsageLedger`: rows with the month of their `consumeAt` |
| `month` | the clock, as far as the quota sees it |
| `late` | history: tasks whose create overlapped another's, tasks held in a later month than counted in, retried tasks |

Actions: `Request`, `FindKey`, `CheckQuota`, `CheckAsset`, `Insert`, `Fail`
(`createTaskWithPrisma` and the controller's comparison of payloads); `End`,
`Retry` (the pipeline and the user); `NextMonth`.

Abstractions: the look-up of the plan is the constant `Quota`; every ledger row
is one unit, so a task weighs one or nothing in a month; whether the asset
exists and fits is a choice; a key whose task is gone cannot occur, since
nothing deletes tasks.

### TaskInput and the code

| variables | code |
|---|---|
| `row`, `rows`, `events`, `input` | `Task`, its `UsageLedger` rows, `OutboxEvent`, `TaskMask` and `TaskRegion` |
| `ups` | a call of `upsertMaskWithPrisma` / `upsertRegionsWithPrisma`: version compared, task read, row read, written |
| `page` | a page that polls a task or the list (`getByUser`, `listByUser`): what it planned, what it is told of waiting |
| `simulation` | `TASKS_SIMULATION_ENABLED` |

Actions: `CreateRow`, `CancelRow`, `WorkerMoves` (what others do to the row, one
transaction each); `BeginUpload`, `ReadLatestTask`, `ReadActive`, `WriteUpload`;
`OpenPage`, `PlanAdvance`, `MoveOn` (`maybeAdvanceForSimulationWithPrisma`),
`AskStatus`, `AskInput` (`waitReason`), `ClosePage`. The version that the client
sends is compared before the transaction and not in it, so uploads that overlap
both pass; `alone` marks those that met no rival. `Room` bounds the events.

### TaskMemoryStore and the code

| variables | code |
|---|---|
| `mem` | the maps of `TasksService` |
| `disk` | `TASKS_STATE_FILE` |
| `todo` | tasks that a listing has still to advance |
| `seeding` | are `advanceTaskStatus` and `seedFailedTask` used, which only tests and demos call |
| `told`, `memFaults` | history of answers; bound on failed writes, lost answers and restarts |

One thread and no await inside an operation: an operation is a step that writes
the file (`RunInTransaction`), restores the maps when the write fails, or
answers without either. Actions: `CreateTaskInMemory`, `QuotaExceeded`,
`ApplyTaskAction`, `GetInMemory`, `ListByUserInMemory`, `ListNext`,
`UploadInMemory`, `AdvanceTaskStatus`, `SeedFailedTask`, `RestartInMemory`. The
month is one.

### WebhookDelivery and the code

| variables | code |
|---|---|
| `outbox`, `endpoint`, `delivery` | the tables `OutboxEvent`, `WebhookEndpoint`, `WebhookDelivery` |
| `worker` | one `dispatchPendingEvents` per dispatcher: the batch, the event at hand, endpoints and attempts it read, results so far, the POST under way |
| `call` | one `retryDelivery` |
| `steady`, `edits`, `faults` | history and bounds |

Actions: `Announce` (the producers' outbox row); `createEndpoint`,
`updateEndpoint`, `deleteEndpoint`, `sendTestDelivery`, `RetryRead`,
`RetryCreate` (API); `Poll`, `ReadEndpoints`, `ReadAttempts`, `PassOver`,
`Post`, `RecordAttempt`, `Settle` (dispatcher); `LoseBatch` (an error or the end
of the process in the middle of a batch).

Abstractions: the endpoints' customer answers as it likes; whether a retry is
due is a choice, since a dispatcher may look at any time; payload, signature,
`retryCount`, metrics and the API's lists are left out, and so are the
in-memory fallback of the API and the branches for a missing task, secret or
unsupported event, which the modelled producers never cause.

### Subscriptions and the code

| variables | code |
|---|---|
| `status`, `announced` | `Subscription` rows of one user, and their outbox events |
| `lock` | the row locks an activation holds on the plans it is expiring |
| `memory` | `memorySubscriptions` of the API process |
| `call` | one `confirmCheckout` or `processPaymentCallback` |
| `met`, `faults` | history and bound |

Actions: `checkout`; `Arrive`; `ConfirmRead`, `ExpireOthers`, `ExpireRow`,
`Activate` (`confirmCheckoutWithPrisma`); `RefundRead`, `Refund`
(`refundCheckoutWithPrisma`); `NotFound`, `DatabaseError`, `DeadlockVictim`
(the fallback to memory); `Restart`.

Abstractions: one user, because an activation touches the rows of its user
only; reads, dates, prices and the signature of the callback are left out.
Postgres is external: an update waits for a row's lock, looks at the row's
condition again once it has it, and one call of a circle of waiting calls is
ended.

### BillingReconcile and the code

| variables | code |
|---|---|
| `usage` | `usage_ledger` and the transactions that are writing it: a row is dated, then committed |
| `monthly`, `checkpoint` | `billing_reconcile_monthly`; the watermark in `billing_reconcile_checkpoints` |
| `job` | one run (`runReconciliation`) per process: its mode, window, what it read, where it moves the watermark |
| `now`, `runs` | clock and bound |
| `lateRows`, `overlap` | history: rows that committed behind what a run had read; runs that overlapped since the last daily run that was alone |

Actions: `WriteRow`, `CommitRow`, `Elapse` (the task service and time);
`StartRun`, `QueryPeriods`, `QueryAggregatesGlobal`, `QueryLatest`,
`QueryAggregatesForPeriods`, `WriteAggregates`, `CompareStored`,
`SaveCheckpoint`, `EndRun`, `FailRun`. A sum of rows is represented by the set of
rows in it, so that a row left out or counted twice shows. Ids are random, so
rows with one `consume_at` come in any order of ids.

### AccountDeletion and the code

| variables | code |
|---|---|
| `store` | for the database and for the gateway's memory: assets, hidden tasks, requests, idempotency rows, audit records |
| `delCall` | one call of the compliance API: idempotency look-up, effect, answer stored, audit record |
| `run` | one run of `account-delete-reconcile`: scan, claim, assets, tasks, commit, audit |
| `mode` | `COMPLIANCE_STORE`; `tasks`, `eta`, `clock` what it deletes and when it is due |
| `covered`, `orphan`, `delFaults` | history and bound |

Actions: `StartCall`, `ResolveIdempotency`, `CreateUploadPolicy`, `DeleteAsset`,
`DeleteTaskView`, `CreateAccountDeleteRequest`, `PersistIdempotency`,
`AppendAuditLog`, `RestartGateway` (calls); `Scan`, `Claim`, `SelectAssets`,
`SelectTasks`, `Commit`, `RollBackRun`, `MarkFailed`, `AuditRun`, `StopRun`
(script). A statement the database does not answer is redone in the gateway's
memory, call by call, as the code does. Without a database the script has no
transaction: the assets are deleted as they are found (`AssetsErased`), before
the tasks are asked for, and stay deleted if that fails. Purging old audit
records is left out.

### PlanCatalog, AdminConsole and the code

| variables | code |
|---|---|
| `planStore` | `preferPrismaStore`: with or without a database |
| `planTable`, `memoryPlans` | the table `plans`, and `memoryPlans` of the gateway |
| `order`, `used` | the plan of the user's order in force (table and memory), and the units in the user's ledger this month |
| `inquiry` | one `getMyUsage` per reader: the plans it read, the quota it worked out, what it tells is left |
| `listing` | one `listPlansForAdmin`: what it counted and found |
| `console` | the console's calls: role, operation, how far, answer, did it change something, did a statement fail |
| `task`, `replayed`, `retried` | failed tasks, `TaskActionIdempotency` of replays, deliveries with a next attempt |
| `trail` | audit rows in the table and in memory |

Actions: `HoldUnit`, `ReleaseUnits`, `OrderChanges` (tasks, months and
subscriptions); `ListPlans`, `ResolveActivePlanId`, `CountUnits` (`getMyUsage`);
`listPlansForAdmin`, `CountPlans`, `FindPlans`, `ListingFails`,
`ListFromMemory`; `Request` (`ensureAdminPermission`), `replayTask`,
`retryWebhookDelivery`, `createPlanCall`, `updatePlanCall`,
`appendAdminAuditLog`; `TaskFails`, `GatewayRestarts`. A statement that the
database does not answer may have reached it: a write answered by memory changes
the table or does not.

Abstractions: a plan is its name, its quota and whether it is on sale; names
differ by more than their case; the console's lists of tasks and deliveries,
`x-admin-secret` and the login are left out; a replay's own steps between its
look-up and its commit are `TaskPipeline`'s.

### InferenceGateway, RegionMask and the code

| variables of `InferenceGateway` | code |
|---|---|
| `stage`, `driver` | the task row and the jobs of the orchestrator that call (`callInferenceGateway`) |
| `handler` | one request in the gateway: sweeping, waiting for a slot, working page by page |
| `workDir` | `work_dir/<taskId>`: converted PDF, page images and their content, is it old |
| `delivered` | the pages in the result bucket |
| `spent` | bound on timeouts, crashes, failures, agings and reruns |

Actions: `Ask`, `HearOk`, `HearError`, `ClientTimeout`, `WorkerCrash`,
`UserDraws`, `Rerun` (orchestrator and user); `GrowsOld`, `SweepDir`, `Unlink`,
`Swept`, `QueueBusy`, `TakeSlot`, `RenderPage`, `InpaintPage`, `PackPage`,
`Finish`, `RunFails` (gateway). Only documents: images and videos are one call
without shared files. What a page looks like is none, raw or clean. One page is
done at a time under a slot; the number of slots is `INFERENCE_POOL_DOC`, 1 by
default, and that is the instance. `WorkerCrash` leaves out a death while the
orchestrator's call waits for its slot.

`RegionMask` has `request`, `frame`, `masks`, `verdict` and the pure operators
`normalize_value`, `normalize_box`, `normalize_polygon`, `KeyedRegions`
(interpolation between key frames) with their arithmetic: a JSON number `v` is
`1000 * v`, so that fractions are integers. A negative frame number is frame 0
(`split_video_regions`).

### MaskEditor and the code

| variables | code (`pages/editor/index.tsx`) |
|---|---|
| `mode`, `now`, `selected` | the tool, the mask on the screen, the selected rectangle |
| `drag`, `preview`, `strokePoints` | `dragRef`, `previewRect`, `activeStrokeRef` |
| `history`, `future` | the two stacks |

Actions: `PickTool`, `Undo`, `Redo`, `DeleteSelected`, `ClearMask` (buttons);
`StartStroke`, `Grab`, `StartDraw`, `ExtendStroke`, `MovePreview`, `EndStroke`,
`EndDraw`, `EndGrab`, `EndNothing` (pointer events). Coordinates are abstracted
to which rectangle is hit and whether a new one is large enough to keep;
loading, polling and submitting are not modelled.

## 3. Runs

All bounds are constants of the configurations: the sets of tasks, calls,
uploads, keys, events, rows and so on; `MaxFaults`, `PayMaxFaults`,
`DelMaxFaults`, `MaxMemFaults`, `GatewayBudget`, the numbers of errors and
crashes; `MaxEdits`, of changes of endpoints; `MaxRuns`, of billing runs;
`LastMonth`, `LastMs`, `LastTick`, of the clocks; `MaxItems` and `HistoryDepth`,
of the editor. Deadlock checking is off because each system rests when its users
are done.

Components that share no state are checked side by side in one run: the *sum*
of their specifications. A variable `part`, chosen at the start, says whose
behaviour it is; the others rest. A property of one component holds in the sum
exactly if it holds of the component, and the sum is as large as the components
together, not as their product.

| run | instance | question |
|---|---|---|
| `core` | 1 task, 1 cancel/retry, 1 upload, 1 fault; in one part one job at a time, in the other 2 workers, 2 operators, 2 replays | types; no ABA on a version; no silent stall; the ledger tells the fate of a task; legal transitions; `TaskPipeline` implements `TaskContract`; the same with replays going on, and no outcome is announced twice |
| `pair` | 2 tasks, batches of 2, an outbox retry, 2 workers, 2 faults, 2 calls, 2 keys | a failing batch loses no task; a replayed success belongs to the same request |
| `liveness` | 1 task, 1 upload, 2 attempts, 1 fault, 2 workers, 4 iterations, fair | a created task comes to rest, also if a job runs out of iterations |
| `replay` | 1 task, 1 operator, 2 replays, 2 at a time, 2 faults, fair | what a replay has taken up is carried on |
| `accounts` | the sum of `Subscriptions` (2 orders, 3 calls, 1 fault), `TaskAdmission` (2 tasks, 2 calls, quota 1, 2 months), `BillingReconcile` (2 rows, 2 periods, 2 processes, 2 runs), `AccountDeletion` (1 asset, 1 task, 2 requests, 2 calls, 2 runs of the script, 1 fault), `WebhookDelivery` (1 event and 1 test event, 1 endpoint with a retry, 2 dispatchers, 1 manual retry, 2 edits, 1 lost batch) | events tell the status, two plans are in force only if their activations overlapped; a key names one task, only overlapping, carried-over and retried tasks exceed the quota; the watermark passes over nothing but late rows, a mismatch tells of an overlap; a DONE request is complete, a request has one run, a repeated call is told the same and what it was told stays so; the delivery log is gapless and ends with a success, no event is closed too early, `WebhookDelivery` implements `DeliveryLog` |
| `services` | the sum of `TaskMemoryStore` (2 tasks, 2 keys for creates and 1 for actions, 2 payloads, quota 1, 1 fault), `TaskInput` (1 task, 2 uploads, 2 pages), `MaskEditor` (2 rectangles, 1 stroke, depth 2, 2 items), `RegionMask` (the requests of `MCRegionMask`, 4 frames), `InferenceGateway` (1 PPT, 2 pages, 2 calls, 1 slot, one timeout, crash, failure, aging and rerun) | keys, charges and uploads of the memory store, which implements `TaskContract`; no silent overwrite of an upload, no stale "waiting", pages implement `TaskContract`; a drag is of what is on the screen, undo implements `EditTimeline`; every frame is masked; no raw page is delivered |
| `console` | 3 plans (the free one, a paid one, one that may be added), quotas 0, 1 and 2, 1 reader, 2 calls, 1 task, 1 delivery, 1 key, 1 fault or restart | the quota told is the quota enforced; a change that met no failure is audited, what is audited was done and permitted, the list of plans is that of the store in charge |
| `progress` | the sum of `AccountDeletion` (1 request, 2 runs of the script, 2 faults), `TaskInput` (1 task, 1 upload, 1 page) and `WebhookDelivery` (2 events, 2 dispatchers, 1 lost batch), fair | a due request is settled unless its run stopped over it; a task that is watched ends or waits for input; every event comes to rest |
| `input`, `refund`, `video`, `marked` | small instances | the disagreements of section 5 |

The properties by module:

| module | properties |
|---|---|
| `TaskPipeline`, `DeadletterReplay` | `TypeOK`, `SnapshotsFresh`, `OutcomesAnnouncedOnce`, `NoSilentStall`, `LedgerSettled`, `TransitionsLegal`, `ImplementsContract`, `ReplayEchoesSuccess`; `TaskComesToRest`, `ReplayTakesEffect`; violated: `InputResumesTask` |
| `TaskAdmission` | `SameKeySameTask`, `QuotaHolds` |
| `AdminConsole`, `PlanCatalog` | `ConsoleIsHonest`, `UsageIsEnforced` |
| `TaskInput` | `NoSilentOverwrite`, `UploadEndsWaiting`, `PagesImplementContract`; `WatchedTaskEnds` |
| `TaskMemoryStore` | `KeysTellTheSame`, `ChargedUnlessCanceled`, `NoUploadLost`, `MemoryImplementsContract` |
| `WebhookDelivery` | `LogLinear`, `SettledMeansTried`, `ImplementsDeliveryLog`; `EventsComeToRest` |
| `Subscriptions` | `EventsTellStatus`, `OneActiveUnlessConcurrent`; violated: `RefundIsFinal` |
| `BillingReconcile` | `CountedUpToWatermark`, `MismatchMeansOverlap` |
| `AccountDeletion` | `DoneIsComplete`, `ClaimedByOne`, `SameKeySameAnswer`, `AnsweredIsKept`; `RequestsSettle` |
| `InferenceGateway` | `DeliveredIsClean` |
| `RegionMask` | `EveryFrameMasked`; violated: `BoxMovesBetweenKeyFrames`, `MarkedIsErased` |
| `MaskEditor` | `GrabIsCurrent`, `UndoKeepsTimeline` |

`core` checks the type invariant of `TaskPipeline`. Those of the other
components are theorems (section 4).

Why the bounds are enough:

- One task is enough for most questions because tasks meet only in dispatcher
  batches, in idempotency keys and in the number of workers: `pair` has two of
  each. Its bound `CallsWithoutFaults` keeps its two dimensions apart: faults
  happen in behaviours without calls, and calls come in while nothing has
  failed and one job is active at a time (an answer is stored in the
  transaction of its effect, so the workers matter to a call only by the
  statuses they leave). One fault is enough for each error path to be taken at
  every point; two allow a fault while the first one is being handled, and
  `replay` needs one to have a dead letter. `EventId` is large enough never to
  stop a behaviour: a task emits one event at creation, one per upload, two per
  failed-and-retried attempt and one at its end. The iterations of a job are 20,
  the default, which no loop of these instances reaches (`WorkersDoNotSpin`, in
  section 4, bounds them); `liveness` has 4, where jobs do run out of them and
  the followup goes on.
- `core` is a sum of two parts (`part` in `MCPipeline`). With the users alone
  every interleaving of one worker is in it. With operators the part is about
  what replays can do to a task that goes on, and named bounds keep the rest
  small: the fault is the one that makes a dead letter, of an event or of a job,
  and nothing but the upload comes before it (`DeadletterFirst`); a second job
  begins when the task is in its last step or at an end, which is where two
  workers can both announce something (`SecondJobLate`); what is not a race about
  an outcome goes on without a pause (`GoesOn`). What is left has the cases the
  question is about: both operators hold the same record, each adds a job of its
  own; a replayed job and another, or both replayed jobs, are about to finish the
  task at once; a replay goes on after the task has succeeded, was canceled, or
  was retried by its user and succeeded then. The theorems on `DeadletterReplay`
  do without these bounds.
- `TaskAdmission`: quota 1 is the boundary; two creates overlap; two keys let
  the calls share a key or not; two months have one turn.
- `WebhookDelivery`: two dispatchers and a manual retry are three writers for
  one attempt number. The endpoint is created, then edited or deleted.
- `Subscriptions`: two activations expire each other's plan and may deadlock;
  a third call is a duplicate callback or a refund.
- `BillingReconcile`: two rows are one that is read and one that commits behind
  it; two runs are an hourly and a daily one that overlap, or one after the
  other. The proofs of section 4 do away with these bounds.
- `AccountDeletion`: two requests meet the limit of one per scan; two runs of
  the script race for a claim; `Sla` 1 makes a request fall due.
- `AdminConsole`: the two parts of the instance (`part` in `MCAdminConsole`) are
  a user who is told the quota while plans are added, emptied and retired, and
  operators whose calls race for a key, a delivery and a name while plans are
  renamed and listed. The paid quota is above the free one and a quota of 0
  counts as none, which are the boundaries of the two computations; one fault
  lets each statement fall back to memory.
- `TaskMemoryStore`: a restart, a failed write and a lost answer at every point;
  `SeedsWithoutUploads` (a test that seeds makes no uploads) keeps the two
  dimensions apart, which meet in nothing but the status.
- `TaskInput`: two uploads and two pages are the rivals; three events have room
  for a create, an upload and an end.
- `InferenceGateway`: the call that timed out and its repetition are two calls
  on one directory; two pages let one be clean while the other is raw.
- Symmetry: dispatchers, operators and the ids of their jobs, processes of the
  other components and periods are interchangeable, and so are pages and gateway
  calls; no run with symmetry has a liveness property.

Fairness:

- `TaskPipeline` (`liveness`): an HTTP handler that has started goes on, the
  poll loop never stops, a worker that has a job goes on with it (weak
  fairness), and a waiting job is not passed over for ever (strong fairness of
  `TakeJob`: BullMQ hands jobs out first come, first served).
- `DeadletterReplay` (`replay`): as before, and an operator's run that has begun
  goes on (it need not begin). `ReplayTakesEffect` speaks of the time after the
  last fault, and leaves out an event whose job is in the failed set
  (`JobInTheWay`, section 5).
- `WebhookDelivery` (`progress`): the poll loop goes on (`main.ts` sleeps and
  polls again, also after an error: weak fairness of a dispatcher's next step),
  and a retry that is looked at again and again falls due (strong fairness of
  `Post`: delays are finite and time passes).
- `AccountDeletion` (`progress`): time passes, and the script is started again
  and again, as an operator's schedule does; a run that has started goes on or
  stops.
- `TaskInput` (`progress`): a request that has begun is carried on; a page polls
  its task every few seconds for as long as its user waits (strong fairness of
  `OpenPage`).

Users, customers, errors and crashes are not obliged to anything; in particular
endpoints may refuse for ever.

## 4. Proofs

The assumptions of the theorems are those on the constants, which the runs
evaluate, except that the theorems about the gateway state two hypotheses of
their own (below). Each theorem holds for every number of tasks, calls, workers,
keys, events, endpoints, orders, months, rows, periods, requests, uploads, pages,
plans and so on; bounds on faults and clocks are any natural number.

The proofs go the same way everywhere: an inductive invariant, one lemma per
action (or group of actions that touch the same variables), and a theorem that
draws the property from it. For a refinement, a first lemma says what a step
does to the few variables that the mapping reads, and a second one maps that to
a step of the abstract specification or a stutter; no action is looked at
twice.

`TaskPipelineProofs`: `TypeCorrect`, `NoStaleCommit` (`SnapshotsFresh`),
`LegalTransitions` (`TransitionsLegal`), `LedgerTellsFate` (`LedgerSettled`),
`EveryOutcomeAnnounced` (`OutcomesAnnouncedOnce`), `PipelineImplementsContract`
(`ImplementsContract`), `ReplayIsHonest` (`ReplayEchoesSuccess`),
`NoTaskLeftBehind` (`NoSilentStall`), `IterationsSuffice`, `WorkersDoNotSpin`.
`TypeOK` is not inductive: a worker's next status is looked up in `StepTarget`
by the status in its snapshot, and an upload's, a batch's or a job's task must
be one that exists. The inductive invariant `IInv` adds `Provenance` (a job, a
batch entry, a running handler or a trigger event belongs to a created task),
`Planned` (the snapshot in a call or a worker is one from which its plan is
legal) and `SnapshotsFresh` (a version once read stands for one status). The
step everything rests on: a compare-and-set that matches the version read
commits against the very status it planned for, even `markTaskFailed`, which
compares the version alone. From that follow the transition table and, with
the rows each transition appends, the ledger. Outbox and contract follow from
`HistoryStep`, which says of each step what it does to status, ledger, outbox and
retry count together: nothing, a mask announced, a task moved on within its
attempt, or one of five writes, each with its event in the same instant. An
outcome is counted by the cardinality of its events, which one write raises by
one (`EventsEmit`). `AnswersBacked` says that a row of the idempotency table that
tells of a success was written by a call which has answered it, and that a call
that has answered stays as it is; a replay can only echo such a row.

`NoSilentStall` says that a task has a driver or an excuse, which is not
inductive: the driver changes hands all the time, and not every running job is
one. A worker whose snapshot is stale, or a dispatcher that is about to mark an
event as published, has nothing to give the task any more. `Attended` says who
really has the task (`Carried`): an event that will still become a job
(`WillTrigger`: not dispatched, or dead, and its id free in the queue), a job
that waits or is kept as failed, or a run that will look at the task's latest
version (`Carries`); or why it needs nobody (`Excused`). One lemma per hand that
may let go: who changes a version takes care of the task (`MoverCares`), an
excuse ends with the event that replaces it (`ExcuseKept`), an event ends as a
job (`TriggerKept`), and a job hands on to its next attempt, to the failed set,
to a followup, or leaves the task to whoever made its snapshot stale
(`HolderKept`). Beside it `DInv` has that exactly the active jobs are worked on
(`JobsMatchRuns`), that a job of an event's id is younger than the event
(`EventsEmitted`: a new event finds its id free), and that every iteration that
has ended cost the task a version (`IterationsCounted`). The last one is what a
followup out of iterations needs: it can be lost only if the task has more
versions than `MaxStepIterations` (`OutOfIterations`). A task changes at most
six times for each time it is started (`VersionsBudgeted`), so the default of 20
is safe for a task that is retried at most twice (`IterationsSuffice`), and no
loop goes round more often than that (`WorkersDoNotSpin`), whoever overtakes it.

On `DeadletterReplay`: `ReplayTypeCorrect`, `ReplayLegalTransitions`,
`ReplayLedgerTellsFate`, `ReplayAnnouncesNothing` (`OutcomesAnnouncedOnce`),
`ReplayImplementsContract`, `ReplayLeavesNoTaskBehind` (`NoSilentStall`), the
theorems above with `ReplaySpec` for `Spec`. `OperatorTouches` says all that an
operator's step may do to the pipeline (`Touched`): set the status of an outbox
row to PENDING, add a job of an id of its own for a task that exists, take a
dead letter away. The second needs `LettersKnown`: what is in the dead-letter
queue, or in the hands of an operator, is of a created task. Each invariant then
has one more case: a row keeps its type and its task, so ledger, outcomes and
contract see nothing (`TouchedQuiet`), and an event that was dead or done and a
job that did not exist can only add to what carries a task (`TouchedDrivers`).

`TaskAdmissionProofs`: `AdmissionTypeCorrect`, `OneTaskPerKey`
(`SameKeySameTask`), `QuotaIsKept` (`QuotaHolds`). The bound on the charged
tasks is not inductive: an insert adds one. `CountGuards` says that a call
whose count no other insert has overtaken, in the month it counted in, still
leaves room for one; an insert marks every other call that has counted, so that
it guards no longer, and nothing else lets a task on time appear in the count
(`RunningHolds`: a task that is running has given nothing back, unless it was
retried). `KeyNamesTask` and `AnswersStand` tie what a call was told to the
unique index.

`TaskInputProofs`: `InputTypeCorrect`, `SecondEditorIsTold`
(`NoSilentOverwrite`), `AcceptedIsSeen` (`UploadEndsWaiting`),
`PagesDoAsPromised` (`PagesImplementContract`). Of uploads to one
file, one that is alone is the only one under way (`AloneIsOnly`), so the
version it was made from is the one it finds (`BaseStands`) and the one it writes
is newer; whatever is under way after it was accepted started from a later
version (`LaterGoOn`), so nothing that overlaps others can set the file back
behind it. `UploadsFit` (an accepted upload is in the table, and a mask is of an
image) and `PagesSee` (a page opened after it finds the input) give the second
one: input is replaced, never removed. The refinement needs `PlansFresh` (the
row an upload or a page plans from is still there, or has a later version) and
`RowsSettled` (the ledger rows of a task are those its status calls for): a move
that comes true is a legal one, and its charge is one that was open.

`TaskMemoryStoreProofs`: `MemoryTypeCorrect`, `MemoryKeysHonest`
(`KeysTellTheSame`), `MemoryChargesRight` (`ChargedUnlessCanceled`),
`MemoryKeepsUploads` (`NoUploadLost`), `MemoryDoesAsPromised`
(`MemoryImplementsContract`). Every operation has an `Effect` of a few forms (a
task is made, seeded, shifted, touched by an upload) or is undone as a whole,
and never forgets a key or sets a version back (`Remembers`). The invariant
`MemInv` says that file and maps agree whenever no operation is under way
(`disk = mem`; an operation is one step), that ledger and status agree
(`MapsSettled`, `AllHeld`), that the quota is kept, that whatever a client was
told is still in the maps (`ToldHonest`), and that no version of a file was
given out twice (`UploadsApart`).

`WebhookDeliveryProofs`: `DeliveryTypeCorrect`, `LogIsLinear` (`LogLinear`),
`SettledIsTried` (`SettledMeansTried`), `ImplementsLog` (the refinement of
`DeliveryLog`). `IInv` adds `ReadsLast` (what a dispatcher or a retry has read
as the last attempt is in the log, and a failure if it is going to try again)
and `InTurn` (an endpoint that has been subscribed all the time waits for its
turn in the event at hand, or has had it). A writer adds the attempt after one
it read; the unique index lets only one do so; so the log has no gap, and a
success, which nobody tries again after, is its end. An insertion counts as a
failure or a success of the abstract log, all other steps stutter.

`BillingProofs`, on `Subscriptions`: `SubscriptionsTypeCorrect`,
`ActiveOrdersOverlapped` (`OneActiveUnlessConcurrent`), `LastEventTellsStatus`
(`EventsTellStatus`). `IInv` adds `LocksHold` (a lock is held by an activation of
another order, on a row that is ACTIVE) and `OthersAccounted` (an activation
under way still has to expire an ACTIVE order, holds its lock, or has met its
activation): at the commit every other ACTIVE order is expired or met.

`BillingProofs`, on `BillingReconcile`: `BillingTypeCorrect`,
`NothingPassedOver` (`CountedUpToWatermark`), `MismatchTellsOverlap`
(`MismatchMeansOverlap`). `BillInv` adds `Dated` and `RowsBooked` (a row has its
period, and what runs have summed up was committed), `AloneIsAlone`, and for each
run that is alone `Faithful`: it has read all it needs before it writes
(`Advancing`), it reads from the watermark on and knows the periods of every row
on time in its window (`ReadsWell`), it has summed up all such rows of these
periods behind the old watermark and the new one (`SumsWell`), and the table has
its sums before they are compared (`WritesWell`). A row is late exactly if it
commits behind the marker of a run that has read; the marker is the latest row
read, and a latest row exists by well-foundedness.

`BillingProofs`, on `PlanCatalog` and `AdminConsole`: `ConsoleTypeCorrect`,
`UsageToldIsEnforced` (`UsageIsEnforced`), `ConsoleKeepsHonest`
(`ConsoleIsHonest`). `UsageInv` says what an answer on its way holds as long as
nothing has changed since its first read: the plans on sale, then the quota
enforced, then what is left of it. The case split is on whether the order's plan
is in the table: `checkWithPrisma` falls back from a quota of 0 to the free
plan's and then to the constant, `getMyUsage` from a plan that is not offered to
the free one and from 0 to 20; the two agree where `PlanOnSale` holds, and only
there (section 5). `ListingInv` is the same for the console's list. `AuditInv`
follows a call: it changes something at most once, before its audit row, and one
that changes nothing reaches the trail only as the repetition of a replay whose
key was used by a call that did (`KeyOf`).

`AccountDeletionProofs`: `DeletionTypeCorrect`, `OneRunPerRequest`
(`ClaimedByOne`), `DoneMeansDone` (`DoneIsComplete`), `RepeatedCallsAgree`
(`SameKeySameAnswer`), `AnswersAreKept` (`AnsweredIsKept`). A claim is a
conditional update, so a PENDING request is in no run (`RunsTaken`); the lists of
assets and tasks that a run selects after its claim hold what `covered` recorded
at it or find it deleted already (`InFlight`); calls of the user only ever delete
and hide (`CallFrame`, `CallsAsk`, `Unmade`). The last two properties are about
the calls of an `Orderly` key: one after the other, none of them met a fault or a
restart. Faults and restarts of other keys' calls and of the script go on beside
them. `KeyInv` says of such a key that its row is in one place and tells what
was done and audited (`RowTells`), and of each of its calls what it has done so
far (`CallTells`). What makes it inductive is `AssetInv`: an asset is where its
one upload put it, so that a call sent to one place cannot find it alive in the
other.

`ErasureProofs`, on `MaskEditor`: `EditorTypeCorrect`, `GrabStaysCurrent`
(`GrabIsCurrent`), `StacksFit` (`NothingForgotten`), `UndoWalksTheLine`
(`UndoKeepsTimeline`, a refinement). Every step that replaces the mask goes
through `applySnapshot`, which ends the drag. The two stacks together never
exceed the depth, so undo and redo cut nothing; hence a commit is `Draw`, undo is
`Back`, redo is `Forward` of `EditTimeline`, and all other steps stutter.

`ErasureProofs`, on `RegionMask`: `EveryFrameIsMasked` (`EveryFrameMasked`), for
any numbers in the regions and any size of the video. A frame has key frames on
one side or both, and then a nearest one (a least element of a set of naturals);
the boxes of the nearest, or those between the two, are clamped, put in order and
widened to a pixel, so that none is empty.

`ErasureProofs`, on `InferenceGateway`: `GatewayTypeCorrect`,
`DeliveryStaysClean` (`DeliveredIsClean`), under two hypotheses: `OneSlot`
(`INFERENCE_POOL_DOC` is 1, its default in `app.py`) and `OneJobEach` (no two
jobs of the orchestrator call for one document). Section 5 says what happens
without the first. `GwInv` has what the slot gives (`OneRuns`), that a call which
waits or answers has its client (`GivenUpRuns`: only one that runs may have been
given up), that a job's snapshot is current (`SeenIsCurrent`), and so, by the
stage of the document, which pages may be raw: those an inpainting has still to
do, and none once the row says PACKAGING (`RunsClean`, `AnswersClean`,
`PackedClean`). A render that outlives its time-out still has the slot, so the
repeated call waits for it.

Only model-checked:

- liveness (`TaskComesToRest`, `ReplayTakesEffect`, `RequestsSettle`,
  `WatchedTaskEnds`, `EventsComeToRest`): the prover has neither fairness nor
  ENABLED;
- the violated properties of section 5, which are false.

## 5. Disagreements

With a run:

1. `input`: an upload that reads a task as FAILED, while its user retries it
   and the retried job parks, stores the input and emits nothing. The parked
   task's single followup may be spent by then (a followup cannot re-add its
   own id while it runs), so the task has its regions and waits for ever.
   `NoSilentStall` is what remains true: a task without a driver is at rest, on
   record for an operator, in this case, or in that of a followup out of
   iterations (below).
2. `refund`: a confirmation reads an order as PENDING, a refund commits, and
   the confirmation activates the order.
3. `video`: between two key frames the gateway interpolates boxes that it has
   already turned into pixels and then normalises them again
   (`app.py:683`, `app.py:536`): pixels up to 1000 are taken for permilles, and
   the box jumps.
4. `marked`: strokes of the brush are refused (`draw_region_mask` knows boxes
   and polygons only), and rectangles near the origin, whose pixels are at most
   1000, are painted elsewhere. (`normalize_value` is not even monotone: 1 is
   the whole side, 2 is two permilles.)

Behaviours that are worth knowing and have no run:

Tasks and queue
- Two concurrent cancels or retries with one key both pass the look-up; the
  second to commit overwrites the answer the first one recorded.
- `markTaskFailed` does not know which attempt failed: a handler left over from
  the first attempt fails the second one (`doc/api-spec.md:198` wants a worker's
  reports keyed by `taskId + step + attempt`).
- `doc/api-spec.md:199` names a reconciliation that settles ledger rows left
  HELD. There is none, `BillingReconcile` only sums up: a task that nobody works
  on keeps its hold.
- A followup job that runs out of `ORCHESTRATOR_MAX_STEP_ITERATIONS` re-adds
  its own id, which BullMQ ignores; so it ignores the followup of any other job
  while it holds the task's followup. With a bound of 3, `TaskComesToRest` fails in
  the instance of `liveness`, which has 4. The default is 20: `IterationsSuffice`
  shows that it takes a third retry of the task to get there.
- Creates that overlap, and retries, take a user over the quota; a task held in
  one month and committed in the next is charged in both.
- The slower of two concurrent creates with one key is answered 500;
  `doc/api-spec.md:394` promises it the same `taskId`. Without a database
  `createTask` gives the first task's id whatever the payload: only the
  controller compares payloads.
- Uploads that overlap all pass the version check; the last to write wins
  silently, and both are told the same new version. With the simulation, an
  upload whose task moved meanwhile is answered 409 and stored all the same.
- A page's `waitReason` comes from a read after the one its status comes from.
- Without a database, a task that a test fails keeps its hold.

Plans and the console
- A plan that was taken off sale still counts in the check of a create, and
  `getMyUsage` tells its subscribers the free quota (`doc/prd.md:297` wants the
  rules of a plan carried out alike on both sides). A plan that exists in memory
  alone is told and not enforced.
- Without a database the paid quota is told and the free one enforced
  (`task-quota.service.ts`).
- The plans in memory stand in for a table without a plan on sale, too, where
  `doc/engineering/rd-progress-management.md:1290` speaks of a database that is
  not available.
- `listPlansForAdmin` returns a promise inside its `try` without awaiting it
  (`plans.service.ts:131`): its `catch` never runs, and a failing database is an
  error where the other calls fall back to memory.
- A replay that is answered from its key writes a second audit row.

Replay
- A record is removed after its event is PENDING again, although the event may
  have died anew by then: the event is DEAD and no record tells of it.
- An event whose job is in the failed set is marked PUBLISHED when it is
  dispatched again, and nothing runs.
- A replay sets an event PENDING whatever its status, PUBLISHED ones too.
- `doc/event-contracts.md:226` asks for an audit record with the reason of a
  replay; the code logs a line.

Webhooks and payments
- Two dispatchers POST the same attempt; one is answered 2xx and the other not,
  and the failure's row is first. The success is forgotten, and the event ends
  DEAD (`doc/webhook.md:192`).
- `retryDelivery` posts nothing and records a success that did not happen
  (`webhooks.service.ts:599`), after which dispatchers skip the endpoint.
- A webhook's payload tells the task's status when it is sent, not when the
  event was made (`dispatcher.ts:301`): the `task.failed` of a task that was
  retried says QUEUED.
- A PAID callback and its concurrent duplicate both emit
  `subscription.activated`.

Deletion
- A script that stops after its claim leaves the request PROCESSING for ever
  (`doc/api-spec.md:631`); `RequestsSettle` says so (`orphan`).
- A request that the database did not take is kept in the gateway's memory,
  where no script looks; lists and details then disagree about it.
- The look-up and the storing of an idempotency row are apart, and the storing
  is an upsert: concurrent calls of one key overwrite each other's answer. A
  stop between the storing and the audit record leaves a call without record.
- A commit whose answer is lost is DONE and then FAILED.
- With `COMPLIANCE_RECONCILE_DUE_ONLY` a request is worked off only after its
  deadline has passed (`compliance.service.ts:755`, `:1043`), where
  `doc/prd.md:435` promises the deletion within it.

Inference
- `INFERENCE_QUEUE_BUSY` (429) says it can be retried (`app.py:141`), and the
  orchestrator takes every 4xx for final (`main.ts:501`, against
  `doc/tad.md:158`).
- The sweeper can remove the pages of a task that waits for its user's mask;
  the regions of later pages are then taken by index for other pages.
- With more than one slot for documents (or if the orchestrator dies while its
  call waits for the slot) a second rendering may overwrite a page that has been
  inpainted, and the raw page is delivered.
- Pages that PyMuPDF and poppler rendered have different names and may lie side
  by side, and PyMuPDF's are taken in lexical order.

Editor
- A click on a rectangle commits an unchanged mask and so clears redo.
- Changing the tool in the middle of a stroke leaves the stroke unfinished.
- Submitting makes a new idempotency key with each click; edits made while the
  mask is sent are not sent.

## 6. Plan

What would come next, in this order:

1. Compositions: the notices of `TaskContract` as the events of
   `WebhookDelivery`; the active plan of `Subscriptions` as the `Quota` of
   `TaskAdmission`; the ledger of `TaskPipeline` as the rows of
   `BillingReconcile`.
2. Components that are partly modelled: the loading, polling and submitting of
   the editor's page; the sending side of audit records and their purge; image
   and video calls of the gateway, where a call that timed out may overwrite a
   newer result.

## 7. Not modelled

- Of plans: prices, features, the order of a list, keywords and pages.
- Of the admin console: its lists of tasks and deliveries. Auth and the other
  HTTP controllers: validation, and single reads and writes in front of the
  services. Where a controller decides something (the comparison
  of payloads, the upload policy of an asset) the module of its service has it.
- The user's other pages and the admin console: they show what they are told
  and poll; `TaskInput` has the polling.
- BullMQ fails a job that stalls more than once. If that leaves it attempts,
  the `failed` handler only logs it (`main.ts:1248`): no mark, no dead letter, and
  nobody drives the task. `Crash` hands a job out again however often it stalls.
- No property says what the console and `getMyUsage` owe in the middle of a
  failure or a change: `UsageIsEnforced` is about answers that met neither, and
  `ConsoleIsHonest` asks no audit row of a call one of whose statements failed. A
  gateway that stops between an effect and its audit row leaves the effect
  without one.
- The stub workers: each logs one line. The shared packages: constants, types,
  logging, tracing.
- Of `TaskPipeline`'s Postgres: crashes of the database. Of the webhooks API:
  its fallback to memory. Of compliance: the purge of old audit records.
- Of `InferenceGateway`: images and videos, and a death of the orchestrator
  while its call waits for a slot. With that death, two calls may work on one
  directory after the other in an order that `DeliveredIsClean` does not
  survive (section 5).
- What the models make of a page or a frame: pictures are raw or clean.
