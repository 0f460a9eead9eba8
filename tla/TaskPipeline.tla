---------------------------- MODULE TaskPipeline ----------------------------
(***************************************************************************)
(* The task pipeline on the Postgres store: the API gateway's task         *)
(* transactions, the outbox dispatcher, the BullMQ queue and the           *)
(* orchestrator's workers, at the grain at which they interleave.          *)
(*                                                                         *)
(* Transactions run at READ COMMITTED, Prisma's default: a SELECT and the  *)
(* UPDATE that follows it in the same transaction are two steps.  From its *)
(* conditional UPDATE on, a transaction holds the row lock, so the UPDATE, *)
(* the inserts behind it and the commit are one step.                      *)
(***************************************************************************)
EXTENDS TaskLifecycle, Naturals, FiniteSets

CONSTANTS
    Tasks,              \* task rows that may come to exist
    Requests,           \* cancel/retry calls, each made at most once
    Uploads,            \* mask/regions uploads, each made at most once
    Keys,               \* Idempotency-Key values of the cancel/retry calls
    EventId,            \* outbox rows in order of createdAt; a set of positive naturals
    ReplayId,           \* job ids that deadletter-replay makes up (DeadletterReplay)
    MaxAttempts,        \* BullMQ attempts of a job (ORCHESTRATOR_MAX_RETRIES + 1)
    OutboxMaxRetries,   \* ORCHESTRATOR_OUTBOX_MAX_RETRIES
    BatchSize,          \* ORCHESTRATOR_OUTBOX_BATCH_SIZE
    MaxStepIterations,  \* ORCHESTRATOR_MAX_STEP_ITERATIONS
    Concurrency,        \* ORCHESTRATOR_WORKER_CONCURRENCY
    MaxFaults           \* bound: errors and crashes in one behaviour

ASSUME TasksAssumption == Tasks # {}
ASSUME KeysAssumption == Keys # {}
ASSUME EventIdAssumption == EventId \subseteq Nat \ {0}
ASSUME ReplayIdAssumption == ReplayId \cap ({0} \cup EventId) = {}
ASSUME BoundsAssumption ==
    /\ MaxAttempts \in Nat \ {0}
    /\ OutboxMaxRetries \in Nat
    /\ BatchSize \in Nat \ {0}
    /\ MaxStepIterations \in Nat \ {0}
    /\ Concurrency \in Nat \ {0}
    /\ MaxFaults \in Nat

VARIABLES
    \* Postgres
    status,     \* Task.status, NoStatus before the row exists
    version,    \* Task.version
    hasInput,   \* is there a TaskRegion row (or, for an image, a TaskMask row)?
    ledger,     \* UsageLedger rows of the task
    outbox,     \* OutboxEvent rows
    nextEvent,  \* the next free event id
    idem,       \* TaskActionIdempotency rows
    \* API gateway
    request,    \* cancel/retry calls in progress
    upload,     \* mask/regions uploads in progress
    \* Redis
    job,        \* BullMQ job hashes
    dlq,        \* ids in the dead-letter queue
    \* worker orchestrator
    run,        \* processQueueJob and the "failed" handler, one per job
    disp,       \* dispatchOutboxEvents
    \* history and bounds
    attempt,    \* how often the task has been retried
    faults      \* errors and crashes so far

dbVars   == <<status, version, hasInput, ledger, outbox, nextEvent, idem, attempt>>
apiVars  == <<request, upload>>
workVars == <<job, dlq, run, disp>>
vars     == <<dbVars, apiVars, workVars, faults>>

-----------------------------------------------------------------------------
(* Queue jobs.  A job is named by its task and its BullMQ id: the event id *)
(* for a job the dispatcher adds, Followup for job_followup_<taskId>, one  *)
(* of ReplayId for a job that deadletter-replay adds.                      *)

Followup == 0
BullId   == {Followup} \cup EventId \cup ReplayId
JobId    == Tasks \X BullId
JobState == {"absent", "waiting", "active", "failed"}
NoJob    == [state |-> "absent", made |-> 0]

WorkerPc  == {"idle", "read", "detect", "step", "park", "fail_read", "fail_cas", "done",
              "final_read", "final_cas", "final_dlq"}
RunAt(pc, iter) == [pc |-> pc, iter |-> iter, ver |-> 0, st |-> NoStatus]
NoRun     == RunAt("idle", 0)
AnyTask   == CHOOSE t \in Tasks : TRUE
AnyKey    == CHOOSE k \in Keys : TRUE
NoEvent   == [type |-> NoEventType, task |-> AnyTask, status |-> "PENDING", retryCount |-> 0]
NoIdem    == [action |-> "CANCEL", task |-> AnyTask, result |-> "none"]
NewCall   == [pc |-> "new", action |-> "CANCEL", task |-> AnyTask, key |-> AnyKey,
              ver |-> 0, st |-> NoStatus, result |-> "none"]
NewUpload == [pc |-> "new", task |-> AnyTask, st |-> NoStatus]

Init ==
    /\ status = [t \in Tasks |-> NoStatus]
    /\ version = [t \in Tasks |-> 0]
    /\ hasInput = [t \in Tasks |-> FALSE]
    /\ ledger = [t \in Tasks |-> {}]
    /\ outbox = [e \in EventId |-> NoEvent]
    /\ nextEvent = 1
    /\ idem = [k \in Keys |-> NoIdem]
    /\ request = [r \in Requests |-> NewCall]
    /\ upload = [u \in Uploads |-> NewUpload]
    /\ job = [j \in JobId |-> NoJob]
    /\ dlq = {}
    /\ run = [j \in JobId |-> NoRun]
    /\ disp = [pc |-> "idle", batch |-> {}]
    /\ attempt = [t \in Tasks |-> 0]
    /\ faults = 0

-----------------------------------------------------------------------------
(* One more error or crash of the environment. *)
Fault == faults < MaxFaults /\ faults' = faults + 1

(* Statements of the transactions. *)

(* tx.outboxEvent.create *)
Emit(type, t) ==
    /\ nextEvent \in EventId
    /\ outbox' = [outbox EXCEPT ![nextEvent] =
                    [type |-> type, task |-> t, status |-> "PENDING", retryCount |-> 0]]
    /\ nextEvent' = nextEvent + 1

(* Mutant: the latest row replaces the others. *)
ReplaceLedger(t, rows) == ledger' = [ledger EXCEPT ![t] = rows]

(* usageLedger.createMany with skipDuplicates *)
AppendLedger(t, rows) == ledger' = [ledger EXCEPT ![t] = @ \cup rows]

(* Mutant: the update is conditional on nothing but the task. *)
UnconditionalUpdate(t, ver, st) == TRUE

(* The WHERE clause of task.updateMany: taskId, version and status. *)
CasMatches(t, ver, st) == version[t] = ver /\ status[t] = st

(* The WHERE clause of markTaskFailed's updateMany: taskId and version only. *)
VersionMatches(t, ver) == version[t] = ver

(* Mutant: the version increment is forgotten. *)
SetStatusOnly(t, to) ==
    /\ status' = [status EXCEPT ![t] = to]
    /\ UNCHANGED version

(* The data of task.updateMany. *)
SetStatus(t, to) ==
    /\ status' = [status EXCEPT ![t] = to]
    /\ version' = [version EXCEPT ![t] = @ + 1]

-----------------------------------------------------------------------------
(* API gateway: createTask.  The admission checks (idempotency key, quota, *)
(* asset) decide whether the transaction commits; this is its commit.      *)

CreateTask(t) ==
    /\ status[t] = NoStatus
    /\ status' = [status EXCEPT ![t] = "QUEUED"]
    /\ version' = [version EXCEPT ![t] = 1]
    /\ AppendLedger(t, {Held})
    /\ Emit("task.created", t)
    /\ UNCHANGED <<hasInput, idem, attempt, apiVars, workVars, faults>>

-----------------------------------------------------------------------------
(* API gateway: cancel and retry (applyTaskActionWithPrisma). *)

(* Mutant: the payload hash is not compared. *)
ReplayAnyPayload(row, a, t) == IF row.result = "SUCCESS" THEN "REPLAYED" ELSE row.result

ReplayOf(row, a, t) ==
    IF row.action # a \/ row.task # t THEN "CONFLICT"
    ELSE IF row.result = "SUCCESS"    THEN "REPLAYED" ELSE row.result

(* The idempotency row is looked up before the transaction begins.  A call *)
(* for a task that is not the user's goes the way of an invalid one and is *)
(* not enumerated.                                                         *)
CheckIdempotency(r, a, t, k) ==
    /\ request[r].pc = "new"
    /\ status[t] # NoStatus
    /\ request' = [request EXCEPT ![r] =
         IF idem[k] = NoIdem
         THEN [NewCall EXCEPT !.pc = "checked", !.action = a, !.task = t, !.key = k]
         ELSE [NewCall EXCEPT !.pc = "done", !.action = a, !.task = t, !.key = k,
                              !.result = ReplayOf(idem[k], a, t)]]
    /\ UNCHANGED <<dbVars, upload, workVars, faults>>

(* The transaction reads the task and plans the transition. *)
ReadForAction(r) ==
    LET t == request[r].task
    IN  /\ request[r].pc = "checked"
        /\ request' = [request EXCEPT ![r] = [@ EXCEPT
                          !.pc = IF ActionAllowed(request[r].action, status[t]) THEN "cas" ELSE "invalid",
                          !.ver = version[t],
                          !.st = status[t]]]
        /\ UNCHANGED <<dbVars, upload, workVars, faults>>

(* persistActionIdempotency: an upsert, whatever the row holds by now. *)
PersistIdempotency(r, result) ==
    idem' = [idem EXCEPT ![request[r].key] =
               [action |-> request[r].action, task |-> request[r].task, result |-> result]]

ActionCommit(r) ==
    LET c  == request[r]
        to == ActionTarget(c.action)
    IN  /\ c.pc = "cas"
        /\ CasMatches(c.task, c.ver, c.st)
        /\ SetStatus(c.task, to)
        /\ AppendLedger(c.task, PostTransitionLedger(to))
        /\ Emit(PostTransitionEvent(c.st, to), c.task)
        /\ PersistIdempotency(r, "SUCCESS")
        /\ attempt' = [attempt EXCEPT ![c.task] = IF to = "QUEUED" THEN @ + 1 ELSE @]
        /\ request' = [request EXCEPT ![r] = [@ EXCEPT !.pc = "done", !.result = "SUCCESS"]]
        /\ UNCHANGED <<hasInput, upload, workVars, faults>>

(* The conditional update matched no row. *)
ActionConflict(r) ==
    LET c == request[r]
    IN  /\ c.pc = "cas"
        /\ ~CasMatches(c.task, c.ver, c.st)
        /\ request' = [request EXCEPT ![r].pc = "invalid"]
        /\ UNCHANGED <<dbVars, upload, workVars, faults>>

RememberInvalid(r) ==
    /\ request[r].pc = "invalid"
    /\ PersistIdempotency(r, "INVALID")
    /\ request' = [request EXCEPT ![r] = [@ EXCEPT !.pc = "done", !.result = "INVALID"]]
    /\ UNCHANGED <<status, version, hasInput, ledger, outbox, nextEvent, attempt, upload,
                   workVars, faults>>

-----------------------------------------------------------------------------
(* API gateway: mask and regions uploads.  The status that decides whether *)
(* task.masked is emitted is the one the transaction read first.  Regions  *)
(* count as detection input, and so does a mask if the task is an image.   *)

UploadRead(u, t) ==
    /\ upload[u].pc = "new"
    /\ status[t] # NoStatus
    /\ upload' = [upload EXCEPT ![u] = [pc |-> "read", task |-> t, st |-> status[t]]]
    /\ UNCHANGED <<dbVars, request, workVars, faults>>

UploadCommit(u) ==
    LET t == upload[u].task
    IN  /\ upload[u].pc = "read"
        /\ \E counts \in BOOLEAN : hasInput' = [hasInput EXCEPT ![t] = @ \/ counts]
        /\ IF isTerminalTaskStatus(upload[u].st)
           THEN UNCHANGED <<outbox, nextEvent>>
           ELSE Emit("task.masked", t)
        /\ upload' = [upload EXCEPT ![u].pc = "done"]
        /\ UNCHANGED <<status, version, ledger, idem, attempt, request, workVars, faults>>

-----------------------------------------------------------------------------
(* The queue. *)

(* queue.add: BullMQ ignores an add whose job id it still holds. *)
AddJob(j) == job' = [job EXCEPT ![j] = IF @.state = "absent" THEN [state |-> "waiting", made |-> 0]
                                       ELSE @]

ActiveJobs == {j \in JobId : job[j].state = "active"}

-----------------------------------------------------------------------------
(* Outbox dispatcher (dispatchOutboxEvents). *)

PendingTriggers ==
    {e \in EventId : e < nextEvent /\ outbox[e].type \in TriggerEvent /\ outbox[e].status = "PENDING"}

(* A batch: the oldest pending trigger events, with the retryCount read. *)
Batches ==
    {B \in SUBSET PendingTriggers :
        /\ B # {}
        /\ Cardinality(B) <= BatchSize
        /\ B # PendingTriggers => Cardinality(B) = BatchSize
        /\ \A e \in B, f \in PendingTriggers \ B : e < f}

Poll ==
    /\ disp.pc = "idle"
    /\ \E B \in Batches :
         disp' = [pc |-> "add", batch |-> {[id |-> e, retryCount |-> outbox[e].retryCount] : e \in B}]
    /\ UNCHANGED <<dbVars, apiVars, job, dlq, run, faults>>

IsCurrent(x) == x \in disp.batch /\ \A y \in disp.batch : x.id <= y.id

Advance(x) ==
    LET rest == disp.batch \ {x}
    IN  [pc |-> IF rest = {} THEN "idle" ELSE "add", batch |-> rest]

DispatchAdd(x) ==
    /\ disp.pc = "add" /\ IsCurrent(x)
    /\ AddJob(<<outbox[x.id].task, x.id>>)
    /\ disp' = [disp EXCEPT !.pc = "mark"]
    /\ UNCHANGED <<dbVars, apiVars, dlq, run, faults>>

(* Mutant: the first add marks the whole batch as published. *)
MarkWholeBatch(x) ==
    /\ disp.pc = "mark" /\ IsCurrent(x)
    /\ outbox' = [e \in EventId |-> IF \E y \in disp.batch : y.id = e
                                    THEN [outbox[e] EXCEPT !.status = "PUBLISHED"] ELSE outbox[e]]
    /\ disp' = Advance(x)
    /\ UNCHANGED <<status, version, hasInput, ledger, nextEvent, idem, attempt, apiVars, job, dlq,
                   run, faults>>

DispatchMark(x) ==
    /\ disp.pc = "mark" /\ IsCurrent(x)
    /\ outbox' = [outbox EXCEPT ![x.id].status = "PUBLISHED"]
    /\ disp' = Advance(x)
    /\ UNCHANGED <<status, version, hasInput, ledger, nextEvent, idem, attempt, apiVars, job, dlq,
                   run, faults>>

(* queue.add or the update to PUBLISHED threw. *)
DispatchFail(x) ==
    LET n == x.retryCount + 1
        dead == n > OutboxMaxRetries
    IN  /\ Fault
        /\ disp.pc \in {"add", "mark"} /\ IsCurrent(x)
        /\ outbox' = [outbox EXCEPT ![x.id] = [@ EXCEPT
                        !.status = IF dead THEN "DEAD" ELSE outbox[x.id].status,
                        !.retryCount = n]]
        /\ disp' = IF dead THEN [disp EXCEPT !.pc = "dead"] ELSE Advance(x)
        /\ UNCHANGED <<status, version, hasInput, ledger, nextEvent, idem, attempt, apiVars, job, dlq,
                       run>>

DispatchDeadletter(x) ==
    /\ disp.pc = "dead" /\ IsCurrent(x)
    /\ dlq' = dlq \cup {[source |-> "outbox.dispatch", id |-> <<outbox[x.id].task, x.id>>]}
    /\ disp' = Advance(x)
    /\ UNCHANGED <<dbVars, apiVars, job, run, faults>>

(* An await inside the catch block threw: the tick ends, the poll loop     *)
(* logs it and the rest of the batch stays PENDING.                        *)
DispatchAbort ==
    /\ Fault
    /\ disp.pc # "idle"
    /\ disp' = [pc |-> "idle", batch |-> {}]
    /\ UNCHANGED <<dbVars, apiVars, job, dlq, run>>

-----------------------------------------------------------------------------
(* Workers (processQueueJob, processTaskStep, advanceTask). *)

Owner(j) == j[1]

TakeJob(j) ==
    /\ job[j].state = "waiting"
    /\ run[j].pc = "idle"
    /\ Cardinality(ActiveJobs) < Concurrency
    /\ job' = [job EXCEPT ![j].state = "active"]
    /\ run' = [run EXCEPT ![j] = RunAt("read", 0)]
    /\ UNCHANGED <<dbVars, apiVars, dlq, disp, faults>>

(* processTaskStep reads the task. *)
ReadTask(j) ==
    LET st == status[Owner(j)]
    IN  /\ run[j].pc = "read"
        /\ run' = [run EXCEPT ![j] = [@ EXCEPT
                      !.pc = IF isTerminalTaskStatus(st) THEN "done"
                             ELSE IF st = "DETECTING"    THEN "detect" ELSE "step",
                      !.ver = version[Owner(j)],
                      !.st = st]]
        /\ UNCHANGED <<dbVars, apiVars, job, dlq, disp, faults>>

(* hasDetectionInput, a later query than the one that read the task. *)
DetectInput(j) ==
    /\ run[j].pc = "detect"
    /\ run' = [run EXCEPT ![j].pc = IF hasInput[Owner(j)] THEN "step" ELSE "park"]
    /\ UNCHANGED <<dbVars, apiVars, job, dlq, disp, faults>>

(* The next iteration of the loop; past the last one a followup is queued. *)
NextIteration(j) ==
    [run EXCEPT ![j] = RunAt(IF run[j].iter + 1 < MaxStepIterations THEN "read" ELSE "park",
                             run[j].iter + 1)]

StepCommit(j) ==
    LET t  == Owner(j)
        to == StepTarget[run[j].st]
    IN  /\ run[j].pc = "step"
        /\ CasMatches(t, run[j].ver, run[j].st)
        /\ SetStatus(t, to)
        /\ IF to = "SUCCEEDED"
           THEN /\ AppendLedger(t, {Committed})
                /\ Emit("task.succeeded", t)
                /\ run' = [run EXCEPT ![j].pc = "done"]
           ELSE /\ run' = NextIteration(j)
                /\ UNCHANGED <<ledger, outbox, nextEvent>>
        /\ UNCHANGED <<hasInput, idem, attempt, apiVars, job, dlq, disp, faults>>

(* VERSION_CONFLICT: sleep and read again. *)
StepConflict(j) ==
    /\ run[j].pc = "step"
    /\ ~CasMatches(Owner(j), run[j].ver, run[j].st)
    /\ run' = NextIteration(j)
    /\ UNCHANGED <<dbVars, apiVars, job, dlq, disp, faults>>

(* The inference gateway answered 4xx. *)
StepRejected(j) ==
    /\ Fault
    /\ run[j].pc = "step"
    /\ run[j].st \in InferenceStatus
    /\ run' = [run EXCEPT ![j].pc = "fail_read"]
    /\ UNCHANGED <<dbVars, apiVars, job, dlq, disp>>

(* The followup is added while j itself is still held by the queue. *)
Park(j) ==
    /\ run[j].pc = "park"
    /\ AddJob(<<Owner(j), Followup>>)
    /\ run' = [run EXCEPT ![j].pc = "done"]
    /\ UNCHANGED <<dbVars, apiVars, dlq, disp, faults>>

(* removeOnComplete: the job hash goes, its id can be added again. *)
CompleteJob(j) ==
    /\ run[j].pc = "done"
    /\ job' = [job EXCEPT ![j] = NoJob]
    /\ run' = [run EXCEPT ![j] = NoRun]
    /\ UNCHANGED <<dbVars, apiVars, dlq, disp, faults>>

(* A job that deadletter-replay adds has BullMQ's default, one attempt.    *)
Attempts(j) == IF j[2] \in ReplayId THEN 1 ELSE MaxAttempts

(* An await of the processor threw: one attempt is spent.  The job is      *)
(* queued again, or it stays in the failed set (removeOnFail keeps it) and *)
(* the worker's "failed" event starts the final-failure handler.           *)
AttemptFailed(j) ==
    LET made == job[j].made + 1
    IN  /\ Fault
        /\ job[j].state = "active"
        /\ run[j].pc \in {"read", "detect", "step", "park", "fail_read", "fail_cas", "done"}
        /\ job' = [job EXCEPT ![j] = [state |-> IF made < Attempts(j) THEN "waiting" ELSE "failed",
                                      made |-> made]]
        /\ run' = [run EXCEPT ![j] = IF made < Attempts(j) THEN NoRun
                                     ELSE RunAt("final_read", 0)]
        /\ UNCHANGED <<dbVars, apiVars, dlq, disp>>

-----------------------------------------------------------------------------
(* markTaskFailed, called by the processor on a 4xx ("fail_") and by the   *)
(* "failed" handler once a job is out of attempts ("final_").              *)

AfterFailure(pc) == IF pc \in {"fail_read", "fail_cas"} THEN "done" ELSE "final_dlq"

FailRead(j) ==
    LET pc == run[j].pc
        st == status[Owner(j)]
    IN  /\ pc \in {"fail_read", "final_read"}
        /\ run' = [run EXCEPT ![j] = [@ EXCEPT
                      !.pc = IF isTerminalTaskStatus(st) THEN AfterFailure(pc)
                             ELSE IF pc = "fail_read"    THEN "fail_cas" ELSE "final_cas",
                      !.ver = version[Owner(j)],
                      !.st = st]]
        /\ UNCHANGED <<dbVars, apiVars, job, dlq, disp, faults>>

FailCommit(j) ==
    LET t == Owner(j)
    IN  /\ run[j].pc \in {"fail_cas", "final_cas"}
        /\ VersionMatches(t, run[j].ver)
        /\ SetStatus(t, "FAILED")
        /\ AppendLedger(t, {ReleasedFailure})
        /\ Emit("task.failed", t)
        /\ run' = [run EXCEPT ![j].pc = AfterFailure(run[j].pc)]
        /\ UNCHANGED <<hasInput, idem, attempt, apiVars, job, dlq, disp, faults>>

(* The conditional update matched no row: markTaskFailed just returns. *)
FailConflict(j) ==
    /\ run[j].pc \in {"fail_cas", "final_cas"}
    /\ ~VersionMatches(Owner(j), run[j].ver)
    /\ run' = [run EXCEPT ![j].pc = AfterFailure(run[j].pc)]
    /\ UNCHANGED <<dbVars, apiVars, job, dlq, disp, faults>>

(* The handler catches an error of markTaskFailed and goes on. *)
FailSwallowed(j) ==
    /\ Fault
    /\ run[j].pc \in {"final_read", "final_cas"}
    /\ run' = [run EXCEPT ![j].pc = "final_dlq"]
    /\ UNCHANGED <<dbVars, apiVars, job, dlq, disp>>

FinalDeadletter(j) ==
    /\ run[j].pc = "final_dlq"
    /\ dlq' = dlq \cup {[source |-> "task.progress", id |-> j]}
    /\ run' = [run EXCEPT ![j] = NoRun]
    /\ UNCHANGED <<dbVars, apiVars, job, disp, faults>>

(* publishDeadletter threw: the handler logs it and the record is lost. *)
DeadletterLost(j) ==
    /\ Fault
    /\ run[j].pc = "final_dlq"
    /\ run' = [run EXCEPT ![j] = NoRun]
    /\ UNCHANGED <<dbVars, apiVars, job, dlq, disp>>

(* The orchestrator process dies: the dispatcher's batch and the running   *)
(* handlers are gone, and BullMQ hands its active jobs out again.          *)
Crash ==
    /\ Fault
    /\ job' = [j \in JobId |-> IF job[j].state = "active" THEN [job[j] EXCEPT !.state = "waiting"]
                                                          ELSE job[j]]
    /\ run' = [j \in JobId |-> NoRun]
    /\ disp' = [pc |-> "idle", batch |-> {}]
    /\ UNCHANGED <<dbVars, apiVars, dlq>>

-----------------------------------------------------------------------------
CallStep(r) ==
    \/ ReadForAction(r)
    \/ ActionCommit(r)
    \/ ActionConflict(r)
    \/ RememberInvalid(r)

ApiStep ==
    \/ \E t \in Tasks : CreateTask(t)
    \/ \E r \in Requests, a \in TaskActionType, t \in Tasks, k \in Keys : CheckIdempotency(r, a, t, k)
    \/ \E r \in Requests : CallStep(r)
    \/ \E u \in Uploads, t \in Tasks : UploadRead(u, t)
    \/ \E u \in Uploads : UploadCommit(u)

DispatcherStep ==
    \/ Poll
    \/ \E x \in disp.batch : DispatchAdd(x) \/ DispatchMark(x) \/ DispatchDeadletter(x)

WorkerStep(j) ==
    \/ TakeJob(j)
    \/ ReadTask(j)
    \/ DetectInput(j)
    \/ StepCommit(j)
    \/ StepConflict(j)
    \/ Park(j)
    \/ CompleteJob(j)
    \/ FailRead(j)
    \/ FailCommit(j)
    \/ FailConflict(j)
    \/ FinalDeadletter(j)

(* Errors the environment may or may not raise. *)
DispatcherError == DispatchAbort \/ \E x \in disp.batch : DispatchFail(x)
WorkerError(j)  == StepRejected(j) \/ AttemptFailed(j) \/ FailSwallowed(j) \/ DeadletterLost(j)

Next ==
    \/ ApiStep
    \/ DispatcherStep
    \/ DispatcherError
    \/ \E j \in JobId : WorkerStep(j) \/ WorkerError(j)
    \/ Crash

Spec == Init /\ [][Next]_vars

(***************************************************************************)
(* Fairness.  An HTTP handler that has started finishes, the poll loop     *)
(* never stops, and BullMQ hands out waiting jobs first come first served, *)
(* so a waiting job is not passed over for ever.  Nothing obliges a user   *)
(* to call, an error to happen, or the process to crash.                   *)
(***************************************************************************)
Fairness ==
    /\ \A r \in Requests : WF_vars(CallStep(r))
    /\ \A u \in Uploads : WF_vars(UploadCommit(u))
    /\ WF_vars(DispatcherStep)
    /\ \A j \in JobId : WF_vars(WorkerStep(j)) /\ SF_vars(TakeJob(j))

FairSpec == Spec /\ Fairness

-----------------------------------------------------------------------------
(* Invariants. *)

EventRow  == [type : EventType \cup {NoEventType}, task : Tasks,
              status : {"PENDING", "PUBLISHED", "DEAD"}, retryCount : Nat]
IdemRow   == [action : TaskActionType, task : Tasks, result : {"none", "SUCCESS", "INVALID"}]
Call      == [pc : {"new", "checked", "cas", "invalid", "done"}, action : TaskActionType,
              task : Tasks, key : Keys, ver : Nat, st : TaskStatus \cup {NoStatus},
              result : {"none", "SUCCESS", "REPLAYED", "INVALID", "CONFLICT"}]
UploadRow == [pc : {"new", "read", "done"}, task : Tasks, st : TaskStatus \cup {NoStatus}]
RunRow    == [pc : WorkerPc, iter : Nat, ver : Nat, st : TaskStatus \cup {NoStatus}]

TypeOK ==
    /\ status \in [Tasks -> TaskStatus \cup {NoStatus}]
    /\ version \in [Tasks -> Nat]
    /\ hasInput \in [Tasks -> BOOLEAN]
    /\ ledger \in [Tasks -> SUBSET LedgerRow]
    /\ outbox \in [EventId -> EventRow]
    /\ nextEvent \in Nat \ {0}
    /\ idem \in [Keys -> IdemRow]
    /\ request \in [Requests -> Call]
    /\ upload \in [Uploads -> UploadRow]
    /\ job \in [JobId -> [state : JobState, made : Nat]]
    /\ dlq \subseteq [source : {"outbox.dispatch", "task.progress"}, id : JobId]
    /\ run \in [JobId -> RunRow]
    /\ disp \in [pc : {"idle", "add", "mark", "dead"},
                 batch : SUBSET [id : EventId, retryCount : Nat]]
    /\ attempt \in [Tasks -> Nat]
    /\ faults \in Nat

(* No ABA: a version number a transaction has read stands for one status   *)
(* for ever.  It is why markTaskFailed may compare the version alone.      *)
Fresh(t, ver, st) == ver <= version[t] /\ (ver = version[t] => st = status[t])

SnapshotsFresh ==
    /\ \A j \in JobId :
         run[j].pc \in {"detect", "step", "fail_cas", "final_cas"} =>
            Fresh(Owner(j), run[j].ver, run[j].st)
    /\ \A r \in Requests :
         request[r].pc = "cas" => Fresh(request[r].task, request[r].ver, request[r].st)

(* The usage ledger tells a task's fate: one HELD row from its creation    *)
(* on, a COMMITTED row exactly if it succeeded, a cancel's RELEASED row    *)
(* exactly if it was canceled, a failure's exactly if it ever failed.      *)
LedgerSettled ==
    \A t \in Tasks :
        /\ Held \in ledger[t]            <=> status[t] # NoStatus
        /\ Committed \in ledger[t]       <=> status[t] = "SUCCEEDED"
        /\ ReleasedCancel \in ledger[t]  <=> status[t] = "CANCELED"
        /\ ReleasedFailure \in ledger[t] <=> status[t] = "FAILED" \/ attempt[t] > 0

EventsOf(t, type) == {e \in EventId : e < nextEvent /\ outbox[e].type = type /\ outbox[e].task = t}

CountIf(P) == IF P THEN 1 ELSE 0

(* Every outcome is announced exactly once, and every failure exactly as   *)
(* often as it happened.                                                   *)
OutcomesAnnouncedOnce ==
    \A t \in Tasks :
        /\ Cardinality(EventsOf(t, "task.created"))   = CountIf(status[t] # NoStatus)
        /\ Cardinality(EventsOf(t, "task.succeeded")) = CountIf(status[t] = "SUCCEEDED")
        /\ Cardinality(EventsOf(t, "task.canceled"))  = CountIf(status[t] = "CANCELED")
        /\ Cardinality(EventsOf(t, "task.retried"))   = attempt[t]
        /\ Cardinality(EventsOf(t, "task.failed"))    = attempt[t] + CountIf(status[t] = "FAILED")

(* A replayed SUCCESS repeats the answer given to another call of the same *)
(* key for the same action on the same task: a key that was used for       *)
(* something else gets a conflict, never somebody else's success.          *)
ReplayEchoesSuccess ==
    \A r \in Requests : request[r].result = "REPLAYED" =>
        \E q \in Requests \ {r} :
            /\ request[q].result = "SUCCESS"
            /\ request[q].key = request[r].key
            /\ request[q].action = request[r].action
            /\ request[q].task = request[r].task

(* What can still move a task without its user: a pending trigger event, a *)
(* queued or running job, or a failure handler at work.                    *)
JobsOf(t) == {t} \X BullId

Driven(t) ==
    \/ \E e \in PendingTriggers : outbox[e].task = t
    \/ \E j \in JobsOf(t) : job[j].state \in {"waiting", "active"} \/ run[j].pc # "idle"

AwaitsInput(t) == status[t] = "DETECTING" /\ ~hasInput[t]

(* A dead outbox row, or a job kept in the failed set. *)
LeftToOperator(t) ==
    \/ \E e \in EventId : e < nextEvent /\ outbox[e].task = t /\ outbox[e].status = "DEAD"
    \/ \E j \in JobsOf(t) : job[j].state = "failed"

UploadSkippedEvent(t) ==
    \E u \in Uploads : upload[u].pc = "done" /\ upload[u].task = t /\ isTerminalTaskStatus(upload[u].st)

AtRest(t) == isTerminalTaskStatus(status[t]) \/ AwaitsInput(t) \/ LeftToOperator(t)

(* Every iteration of a job's loop costs the task at least one version: a  *)
(* job runs out of iterations only on such a task.                         *)
OutOfIterations(t) == version[t] > MaxStepIterations

(* No lost wakeup: a task that nothing drives is finished, waits for its   *)
(* user's mask or regions, or is on record for an operator.  Except that   *)
(* an upload which took the task for terminal announces nothing, and that  *)
(* the followup of a job out of iterations is not added while the queue    *)
(* still holds the task's followup.                                        *)
NoSilentStall ==
    \A t \in Tasks :
        status[t] # NoStatus =>
            Driven(t) \/ AtRest(t) \/ UploadSkippedEvent(t) \/ OutOfIterations(t)

-----------------------------------------------------------------------------
(* Action properties. *)

(* Every change of a task's status, by whichever process, is an edge of    *)
(* STATUS_TRANSITION_MAP and costs one version; nothing leaves a settled   *)
(* task.                                                                   *)
TransitionsLegal ==
    [][\A t \in Tasks :
          /\ status'[t] # status[t] =>
                \/ status[t] = NoStatus /\ status'[t] = "QUEUED"
                \/ status[t] # NoStatus /\ canTransit(status[t], status'[t])
          /\ version'[t] = version[t] + CountIf(status'[t] # status[t])]_vars

-----------------------------------------------------------------------------
(* Liveness. *)

(* A task that has been created comes to rest again and again: the workers *)
(* do not go round in circles on it.                                       *)
TaskComesToRest ==
    \A t \in Tasks : status[t] # NoStatus ~> AtRest(t) \/ UploadSkippedEvent(t)

-----------------------------------------------------------------------------
(* Refinement: the pipeline carries out TaskContract. *)

PhaseOf(st) == CASE st = NoStatus    -> "none"
                 [] st = "SUCCEEDED" -> "succeeded"
                 [] st = "FAILED"    -> "failed"
                 [] st = "CANCELED"  -> "canceled"
                 [] OTHER            -> "running"

(* used = COMMITTED, or else HELD less RELEASED but not below zero. *)
ChargeOf(rows) ==
    IF Committed \in rows                                   THEN "charged"
    ELSE IF rows \cap {ReleasedCancel, ReleasedFailure} # {} THEN "released"
    ELSE IF Held \in rows                                   THEN "reserved" ELSE "none"

NoticeOf(row) == [outcome |-> CASE row.type = "task.succeeded" -> "succeeded"
                                [] row.type = "task.failed"    -> "failed"
                                [] row.type = "task.canceled"  -> "canceled"
                                [] OTHER                       -> "none",
                  task |-> IF row.type \in NoticeEvent THEN row.task ELSE AnyTask]

Contract == INSTANCE TaskContract WITH
    phase  <- [t \in Tasks |-> PhaseOf(status[t])],
    charge <- [t \in Tasks |-> ChargeOf(ledger[t])],
    notice <- [e \in EventId |-> NoticeOf(outbox[e])]

(* Whatever the interleaving, each committed transaction is one step of    *)
(* the contract or invisible to it.                                        *)
ImplementsContract == Contract!Spec

-----------------------------------------------------------------------------
(* What the documents say and the code does not do. *)

(* The orchestrator's test "waits in DETECTING when regions are missing    *)
(* and resumes after regions are provided": a task whose user has given    *)
(* its regions is driven on, finished, or on record for an operator.  The  *)
(* upload decides on task.masked by a status it read before its write, so  *)
(* a task that was retried in between is given its input and no event.     *)
InputResumesTask ==
    \A t \in Tasks : status[t] # NoStatus => Driven(t) \/ AtRest(t)
=============================================================================
