------------------------- MODULE TaskPipelineProofs -------------------------
(***************************************************************************)
(* Proofs about TaskPipeline, and DeadletterReplay at the end, for any     *)
(* number of tasks, calls, uploads, events, workers, attempts, operators   *)
(* and errors.                                                             *)
(***************************************************************************)
EXTENDS DeadletterReplay, FiniteSetTheorems, TLAPS

-----------------------------------------------------------------------------
(* The inductive invariant.  Beyond the types it says where things come    *)
(* from: only a created task has events, jobs and running handlers, and a  *)
(* snapshot that is about to be written back passed the check made on it.  *)

Created(t) == status[t] # NoStatus

Provenance ==
    /\ \A t \in Tasks : status[t] # "UPLOADED"
    /\ \A t \in Tasks : ~Created(t) => version[t] = 0
    /\ \A e \in EventId : outbox[e].type # NoEventType => Created(outbox[e].task)
    /\ \A x \in disp.batch : outbox[x.id].type # NoEventType
    /\ \A u \in Uploads : upload[u].pc # "new" => Created(upload[u].task)
    /\ \A j \in JobId : job[j].state # "absent" \/ run[j].pc # "idle" => Created(Owner(j))

Planned ==
    /\ \A j \in JobId : run[j].pc = "detect" => run[j].st = "DETECTING"
    /\ \A j \in JobId : run[j].pc = "step" => run[j].st \in DOMAIN StepTarget
    /\ \A j \in JobId : run[j].pc \in {"fail_cas", "final_cas"} =>
          run[j].st \notin TERMINAL_STATUS /\ run[j].st # NoStatus
    /\ \A r \in Requests : request[r].pc = "cas" => ActionAllowed(request[r].action, request[r].st)

IInv == TypeOK /\ Provenance /\ Planned /\ SnapshotsFresh

LEMMA AnyIn == AnyTask \in Tasks /\ AnyKey \in Keys
  BY TasksAssumption, KeysAssumption DEF AnyTask, AnyKey

LEMMA TypeInit == Init => TypeOK
<1> SUFFICES ASSUME Init PROVE TypeOK
    OBVIOUS
<1> USE AnyIn
<1>1. status \in [Tasks -> TaskStatus \cup {NoStatus}] /\ version \in [Tasks -> Nat]
      /\ hasInput \in [Tasks -> BOOLEAN] /\ ledger \in [Tasks -> SUBSET LedgerRow]
  BY DEF Init
<1>2. outbox \in [EventId -> EventRow] /\ nextEvent \in Nat \ {0} /\ idem \in [Keys -> IdemRow]
  BY DEF Init, NoEvent, EventRow, NoIdem, IdemRow, TaskActionType
<1>3. request \in [Requests -> Call] /\ upload \in [Uploads -> UploadRow]
  BY DEF Init, NewCall, Call, NewUpload, UploadRow, TaskActionType
<1>4. job \in [JobId -> [state : JobState, made : Nat]] /\ run \in [JobId -> RunRow]
  BY DEF Init, NoJob, NoRun, RunAt, RunRow, JobState, WorkerPc
<1>5. /\ dlq \subseteq [source : {"outbox.dispatch", "task.progress"}, id : JobId]
      /\ disp \in [pc : {"idle", "add", "mark", "dead"},
                   batch : SUBSET [id : EventId, retryCount : Nat]]
      /\ attempt \in [Tasks -> Nat] /\ faults \in Nat
  BY DEF Init
<1> QED BY <1>1, <1>2, <1>3, <1>4, <1>5 DEF TypeOK

-----------------------------------------------------------------------------
(* Type correctness of each action. *)

LEMMA EmitType ==
    ASSUME NEW type \in EventType \cup {NoEventType}, NEW t \in Tasks, TypeOK, Emit(type, t)
    PROVE  outbox' \in [EventId -> EventRow] /\ nextEvent' \in Nat \ {0}
  BY DEF TypeOK, Emit, EventRow

LEMMA LedgerType ==
    ASSUME NEW t \in Tasks, NEW rows \in SUBSET LedgerRow, TypeOK, AppendLedger(t, rows)
    PROVE  ledger' \in [Tasks -> SUBSET LedgerRow]
  BY DEF TypeOK, AppendLedger

LEMMA StatusType ==
    ASSUME NEW t \in Tasks, NEW to \in TaskStatus, TypeOK, SetStatus(t, to)
    PROVE  status' \in [Tasks -> TaskStatus \cup {NoStatus}] /\ version' \in [Tasks -> Nat]
  BY DEF TypeOK, SetStatus

LEMMA CallSnapshot ==
    ASSUME NEW f \in [Requests -> Call], NEW r \in Requests, NEW pc \in {"cas", "invalid"},
           NEW ver \in Nat, NEW st \in TaskStatus \cup {NoStatus}
    PROVE  [f EXCEPT ![r] = [@ EXCEPT !.pc = pc, !.ver = ver, !.st = st]] \in [Requests -> Call]
  BY ZenonT(60) DEF Call

LEMMA TypeNextApi == IInv /\ ApiStep => TypeOK'
<1> SUFFICES ASSUME IInv, ApiStep PROVE TypeOK'
    OBVIOUS
<1>0. /\ request \in [Requests -> Call] /\ upload \in [Uploads -> UploadRow]
      /\ version \in [Tasks -> Nat] /\ status \in [Tasks -> TaskStatus \cup {NoStatus}]
  BY DEF IInv, TypeOK
<1>1. ASSUME NEW t \in Tasks, CreateTask(t) PROVE TypeOK'
  <2>1. /\ status' \in [Tasks -> TaskStatus \cup {NoStatus}]
        /\ version' \in [Tasks -> Nat]
    BY <1>1 DEF CreateTask, IInv, TypeOK, TaskStatus
  <2>2. ledger' \in [Tasks -> SUBSET LedgerRow]
    BY <1>1, LedgerType DEF CreateTask, IInv, LedgerRow
  <2>3. outbox' \in [EventId -> EventRow] /\ nextEvent' \in Nat \ {0}
    BY <1>1, EmitType DEF CreateTask, IInv, EventType, TriggerEvent
  <2> QED
    BY <1>1, <2>1, <2>2, <2>3 DEF CreateTask, IInv, TypeOK, apiVars, workVars
<1>2. ASSUME NEW r \in Requests, NEW a \in TaskActionType, NEW t \in Tasks, NEW k \in Keys,
       CheckIdempotency(r, a, t, k)
       PROVE  TypeOK'
  <2>1. ReplayOf(idem[k], a, t) \in {"none", "SUCCESS", "REPLAYED", "INVALID", "CONFLICT"}
    BY DEF IInv, TypeOK, IdemRow, ReplayOf
  <2>2. request' \in [Requests -> Call]
    BY <1>2, <2>1, AnyIn, ZenonT(60) DEF CheckIdempotency, IInv, TypeOK, Call, NewCall
  <2> QED
    BY <1>2, <2>2 DEF CheckIdempotency, IInv, TypeOK, dbVars, workVars
<1>3. ASSUME NEW r \in Requests, ReadForAction(r) PROVE TypeOK'
  <2>1. request' \in [Requests -> Call]
    <3> DEFINE tt == request[r].task
               pc == IF ActionAllowed(request[r].action, status[tt]) THEN "cas" ELSE "invalid"
    <3>1. version[tt] \in Nat /\ status[tt] \in TaskStatus \cup {NoStatus}
      BY <1>0 DEF Call
    <3>2. pc \in {"cas", "invalid"}
      OBVIOUS
    <3>3. request' = [request EXCEPT ![r] = [@ EXCEPT !.pc = pc, !.ver = version[tt], !.st = status[tt]]]
      BY <1>3 DEF ReadForAction
    <3> HIDE DEF pc, tt
    <3> QED BY <1>0, <3>1, <3>2, <3>3, CallSnapshot
  <2> QED
    BY <1>3, <2>1 DEF ReadForAction, IInv, TypeOK, dbVars, workVars
<1>4. ASSUME NEW r \in Requests, ActionCommit(r) PROVE TypeOK'
  <2> DEFINE c == request[r]
             to == ActionTarget(c.action)
  <2>1. c \in Call /\ to \in {"CANCELED", "QUEUED"}
    BY DEF IInv, TypeOK, Call, ActionTarget
  <2>2. /\ status' \in [Tasks -> TaskStatus \cup {NoStatus}]
        /\ version' \in [Tasks -> Nat]
    BY <1>4, <2>1, StatusType DEF ActionCommit, IInv, Call, TaskStatus
  <2>3. ledger' \in [Tasks -> SUBSET LedgerRow]
    BY <1>4, <2>1, LedgerType DEF ActionCommit, IInv, Call, PostTransitionLedger, LedgerRow
  <2>4. outbox' \in [EventId -> EventRow] /\ nextEvent' \in Nat \ {0}
    <3>1. PostTransitionEvent(c.st, to) \in EventType \cup {NoEventType}
      BY DEF PostTransitionEvent, EventType, NoticeEvent, TriggerEvent
    <3> QED
      BY <1>4, <2>1, <3>1, EmitType DEF ActionCommit, IInv, Call
  <2>5. idem' \in [Keys -> IdemRow]
    BY <1>4, <2>1 DEF ActionCommit, PersistIdempotency, IInv, TypeOK, Call, IdemRow
  <2>6. request' \in [Requests -> Call]
    <3>1. [c EXCEPT !.pc = "done", !.result = "SUCCESS"] \in Call
      BY <2>1 DEF Call
    <3> HIDE DEF c
    <3>2. request' = [request EXCEPT ![r] = [request[r] EXCEPT !.pc = "done", !.result = "SUCCESS"]]
      BY <1>4 DEF ActionCommit
    <3> QED BY <1>0, <3>1, <3>2 DEF c
  <2>7. attempt' \in [Tasks -> Nat]
    BY <1>4, <2>1 DEF ActionCommit, IInv, TypeOK, Call
  <2>8. UNCHANGED <<hasInput, upload, workVars, faults>>
    BY <1>4 DEF ActionCommit
  <2> QED
    BY <2>2, <2>3, <2>4, <2>5, <2>6, <2>7, <2>8 DEF IInv, TypeOK, workVars
<1>5. ASSUME NEW r \in Requests, ActionConflict(r) PROVE TypeOK'
  <2>1. request' \in [Requests -> Call]
    BY <1>0, <1>5 DEF ActionConflict, Call
  <2> QED
    BY <1>5, <2>1 DEF ActionConflict, IInv, TypeOK, dbVars, workVars
<1>6. ASSUME NEW r \in Requests, RememberInvalid(r) PROVE TypeOK'
  <2>1. request' \in [Requests -> Call]
    BY <1>0, <1>6, ZenonT(60) DEF RememberInvalid, Call
  <2>2. idem' \in [Keys -> IdemRow]
    BY <1>6 DEF RememberInvalid, PersistIdempotency, IInv, TypeOK, Call, IdemRow
  <2> QED
    BY <1>6, <2>1, <2>2 DEF RememberInvalid, IInv, TypeOK, workVars
<1>7. ASSUME NEW u \in Uploads, NEW t \in Tasks, UploadRead(u, t) PROVE TypeOK'
  <2>1. upload' \in [Uploads -> UploadRow]
    BY <1>7 DEF UploadRead, IInv, TypeOK, UploadRow
  <2> QED
    BY <1>7, <2>1 DEF UploadRead, IInv, TypeOK, dbVars, workVars
<1>8. ASSUME NEW u \in Uploads, UploadCommit(u) PROVE TypeOK'
  <2>1. upload' \in [Uploads -> UploadRow] /\ hasInput' \in [Tasks -> BOOLEAN]
    BY <1>8 DEF UploadCommit, IInv, TypeOK, UploadRow
  <2>2. outbox' \in [EventId -> EventRow] /\ nextEvent' \in Nat \ {0}
    BY <1>8, EmitType DEF UploadCommit, IInv, TypeOK, UploadRow, EventType, TriggerEvent
  <2> QED
    BY <1>8, <2>1, <2>2 DEF UploadCommit, IInv, TypeOK, workVars
<1> QED BY <1>1, <1>2, <1>3, <1>4, <1>5, <1>6, <1>7, <1>8 DEF ApiStep, CallStep

(* The dispatcher's batch refers to events with a known owner. *)
LEMMA BatchOwner ==
    ASSUME IInv, NEW x \in disp.batch
    PROVE  /\ x.id \in EventId /\ x.retryCount \in Nat
           /\ outbox[x.id] \in EventRow
           /\ <<outbox[x.id].task, x.id>> \in JobId
<1>1. x.id \in EventId /\ x.retryCount \in Nat
  BY DEF IInv, TypeOK
<1>2. outbox[x.id] \in EventRow
  BY <1>1 DEF IInv, TypeOK
<1> QED BY <1>1, <1>2 DEF EventRow, JobId, BullId

LEMMA AddJobType ==
    ASSUME TypeOK, NEW j \in JobId, AddJob(j)
    PROVE  job' \in [JobId -> [state : JobState, made : Nat]]
  BY DEF TypeOK, AddJob, JobState

LEMMA TypeNextDispatcher == IInv /\ (DispatcherStep \/ DispatcherError) => TypeOK'
<1> SUFFICES ASSUME IInv, DispatcherStep \/ DispatcherError PROVE TypeOK'
    OBVIOUS
<1> DEFINE Batch == [id : EventId, retryCount : Nat]
           Disp  == [pc : {"idle", "add", "mark", "dead"}, batch : SUBSET Batch]
<1>0. disp \in Disp
  BY DEF IInv, TypeOK
<1>a. ASSUME NEW x \in disp.batch PROVE Advance(x) \in Disp
  BY <1>0 DEF Advance
<1>b. faults \in Nat /\ outbox \in [EventId -> EventRow]
  BY DEF IInv, TypeOK
<1>1. CASE Poll
  <2>1. PICK B \in Batches :
          disp' = [pc |-> "add", batch |-> {[id |-> e, retryCount |-> outbox[e].retryCount] : e \in B}]
    BY <1>1 DEF Poll
  <2>2. \A e \in B : e \in EventId /\ outbox[e].retryCount \in Nat
    BY DEF Batches, PendingTriggers, IInv, TypeOK, EventRow
  <2>3. disp' \in Disp
    BY <2>1, <2>2
  <2> QED
    BY <1>1, <2>3 DEF Poll, IInv, TypeOK, dbVars, apiVars
<1>2. ASSUME NEW x \in disp.batch, DispatchAdd(x) PROVE TypeOK'
  <2>1. job' \in [JobId -> [state : JobState, made : Nat]]
    BY <1>2, BatchOwner, AddJobType DEF DispatchAdd, IInv
  <2>2. disp' \in Disp
    BY <1>0, <1>2 DEF DispatchAdd
  <2> QED
    BY <1>2, <2>1, <2>2 DEF DispatchAdd, IInv, TypeOK, dbVars, apiVars
<1>3. ASSUME NEW x \in disp.batch, DispatchMark(x) PROVE TypeOK'
  <2>1. outbox' \in [EventId -> EventRow]
    BY <1>b, <1>3, BatchOwner, ZenonT(60) DEF DispatchMark, EventRow
  <2>2. disp' \in Disp
    BY <1>a, <1>3 DEF DispatchMark
  <2> QED
    BY <1>3, <2>1, <2>2 DEF DispatchMark, IInv, TypeOK, apiVars
<1>4. ASSUME NEW x \in disp.batch, DispatchDeadletter(x) PROVE TypeOK'
  <2>1. disp' \in Disp
    BY <1>a, <1>4 DEF DispatchDeadletter
  <2>2. dlq' \subseteq [source : {"outbox.dispatch", "task.progress"}, id : JobId]
    BY <1>4, BatchOwner DEF DispatchDeadletter, IInv, TypeOK
  <2> QED
    BY <1>4, <2>1, <2>2 DEF DispatchDeadletter, IInv, TypeOK, dbVars, apiVars
<1>5. ASSUME NEW x \in disp.batch, DispatchFail(x) PROVE TypeOK'
  <2> DEFINE n  == x.retryCount + 1
             st == IF n > OutboxMaxRetries THEN "DEAD" ELSE outbox[x.id].status
  <2>1. outbox' \in [EventId -> EventRow]
    <3>0. x.id \in EventId /\ x.retryCount \in Nat
      BY <1>5, BatchOwner
    <3>1. n \in Nat
      BY <3>0
    <3>2. outbox' = [outbox EXCEPT ![x.id] = [@ EXCEPT !.status = st, !.retryCount = n]]
      BY <1>5 DEF DispatchFail
    <3>3. st \in {"PENDING", "PUBLISHED", "DEAD"}
      BY <1>b, <3>0 DEF EventRow
    <3> HIDE DEF n, st
    <3> QED BY <1>b, <3>0, <3>1, <3>2, <3>3 DEF EventRow
  <2>2. disp' \in Disp
    BY <1>0, <1>a, <1>5 DEF DispatchFail
  <2>3. faults' \in Nat
    <3>1. Fault
      BY <1>5 DEF DispatchFail
    <3> QED BY <1>b, <3>1 DEF Fault
  <2> QED
    BY <1>5, <2>1, <2>2, <2>3 DEF DispatchFail, IInv, TypeOK, apiVars
<1>6. CASE DispatchAbort
  <2>1. disp' \in Disp /\ faults' \in Nat
    BY <1>6 DEF DispatchAbort, Fault, IInv, TypeOK
  <2> QED
    BY <1>6, <2>1 DEF DispatchAbort, IInv, TypeOK, dbVars, apiVars
<1> QED BY <1>1, <1>2, <1>3, <1>4, <1>5, <1>6 DEF DispatcherStep, DispatcherError

LEMMA RunPc ==
    ASSUME NEW j \in JobId, NEW pc \in WorkerPc, run \in [JobId -> RunRow],
           run' = [run EXCEPT ![j].pc = pc]
    PROVE  run' \in [JobId -> RunRow]
  BY DEF RunRow

LEMMA RunSnapshot ==
    ASSUME NEW j \in JobId, NEW pc \in WorkerPc, NEW ver \in Nat,
           NEW st \in TaskStatus \cup {NoStatus}, run \in [JobId -> RunRow],
           run' = [run EXCEPT ![j] = [@ EXCEPT !.pc = pc, !.ver = ver, !.st = st]]
    PROVE  run' \in [JobId -> RunRow]
  BY DEF RunRow

LEMMA RunReset ==
    ASSUME NEW j \in JobId, NEW pc \in WorkerPc, NEW iter \in Nat,
           run \in [JobId -> RunRow],
           run' = [run EXCEPT ![j] = RunAt(pc, iter)]
    PROVE  run' \in [JobId -> RunRow]
  BY DEF RunAt, RunRow

LEMMA NextIterationType ==
    ASSUME NEW j \in JobId, TypeOK, run' = NextIteration(j)
    PROVE  run' \in [JobId -> RunRow]
<1> DEFINE pc   == IF run[j].iter + 1 < MaxStepIterations THEN "read" ELSE "park"
           iter == run[j].iter + 1
<1>1. run \in [JobId -> RunRow]
  BY DEF TypeOK
<1>2. pc \in WorkerPc /\ iter \in Nat
  BY <1>1 DEF RunRow, WorkerPc
<1>3. run' = [run EXCEPT ![j] = RunAt(pc, iter)]
  BY DEF NextIteration
<1> HIDE DEF pc, iter
<1> QED BY <1>1, <1>2, <1>3 DEF RunAt, RunRow

LEMMA NoRunType == NoRun \in RunRow /\ NoJob \in [state : JobState, made : Nat]
  BY DEF NoRun, RunAt, RunRow, WorkerPc, NoJob, JobState

LEMMA OwnerIn == \A j \in JobId : Owner(j) \in Tasks
  BY DEF JobId, Owner

LEMMA TypeNextWorker ==
    ASSUME IInv, NEW j \in JobId, WorkerStep(j)
    PROVE  TypeOK'
<1> DEFINE JobRow == [state : JobState, made : Nat]
<1>0. /\ job \in [JobId -> JobRow] /\ run \in [JobId -> RunRow] /\ Owner(j) \in Tasks
      /\ version[Owner(j)] \in Nat /\ status[Owner(j)] \in TaskStatus \cup {NoStatus}
      /\ attempt[Owner(j)] \in Nat
  BY OwnerIn DEF IInv, TypeOK
<1>1. CASE TakeJob(j)
  <2>1. job' \in [JobId -> JobRow]
    BY <1>0, <1>1 DEF TakeJob, JobState
  <2>2. run' \in [JobId -> RunRow]
    BY <1>0, <1>1, RunReset DEF TakeJob, WorkerPc
  <2> QED
    BY <1>1, <2>1, <2>2 DEF TakeJob, IInv, TypeOK, dbVars, apiVars
<1>2. CASE ReadTask(j)
  <2> DEFINE st == status[Owner(j)]
             pc == IF isTerminalTaskStatus(st) THEN "done"
                   ELSE IF st = "DETECTING" THEN "detect" ELSE "step"
             ver == version[Owner(j)]
  <2>1. run' = [run EXCEPT ![j] = [@ EXCEPT !.pc = pc, !.ver = ver, !.st = st]]
    BY <1>2 DEF ReadTask
  <2>2. pc \in WorkerPc /\ ver \in Nat /\ st \in TaskStatus \cup {NoStatus}
    BY <1>0 DEF WorkerPc
  <2>3. run' \in [JobId -> RunRow]
    <3> HIDE DEF pc, ver, st
    <3> QED BY <1>0, <2>1, <2>2 DEF RunRow
  <2> QED
    BY <1>2, <2>3 DEF ReadTask, IInv, TypeOK, dbVars, apiVars
<1>3. CASE DetectInput(j)
  <2>1. PICK pc \in {"step", "park"} : run' = [run EXCEPT ![j].pc = pc]
    BY <1>3 DEF DetectInput
  <2>2. run' \in [JobId -> RunRow]
    BY <1>0, <2>1, RunPc DEF WorkerPc
  <2> QED
    BY <1>3, <2>2 DEF DetectInput, IInv, TypeOK, dbVars, apiVars
<1>4. CASE StepCommit(j)
  <2> DEFINE t  == Owner(j)
             to == StepTarget[run[j].st]
  <2>1. to \in TaskStatus
    BY <1>4 DEF StepCommit, IInv, Planned, StepTarget, TaskStatus
  <2>2. /\ status' \in [Tasks -> TaskStatus \cup {NoStatus}]
        /\ version' \in [Tasks -> Nat]
    BY <1>0, <1>4, <2>1, StatusType DEF StepCommit, IInv
  <2>3. CASE to = "SUCCEEDED"
    <3>1. ledger' \in [Tasks -> SUBSET LedgerRow]
      BY <1>0, <1>4, <2>3, LedgerType DEF StepCommit, IInv, LedgerRow
    <3>2. outbox' \in [EventId -> EventRow] /\ nextEvent' \in Nat \ {0}
      BY <1>0, <1>4, <2>3, EmitType DEF StepCommit, IInv, EventType, NoticeEvent
    <3>3. run' \in [JobId -> RunRow]
      BY <1>0, <1>4, <2>3, RunPc DEF StepCommit, WorkerPc
    <3> QED
      BY <1>4, <2>2, <3>1, <3>2, <3>3 DEF StepCommit, IInv, TypeOK, apiVars
  <2>4. CASE to # "SUCCEEDED"
    <3>1. run' \in [JobId -> RunRow] /\ UNCHANGED <<ledger, outbox, nextEvent>>
      BY <1>4, <2>4, NextIterationType DEF StepCommit, IInv
    <3> QED
      BY <1>4, <2>2, <3>1 DEF StepCommit, IInv, TypeOK, apiVars
  <2> QED BY <2>3, <2>4
<1>5. CASE StepConflict(j)
  <2>1. run' \in [JobId -> RunRow]
    BY <1>5, NextIterationType DEF StepConflict, IInv
  <2> QED
    BY <1>5, <2>1 DEF StepConflict, IInv, TypeOK, dbVars, apiVars
<1>6. CASE Park(j)
  <2>1. <<Owner(j), Followup>> \in JobId
    BY <1>0 DEF JobId, BullId
  <2>2. job' \in [JobId -> JobRow] /\ run' \in [JobId -> RunRow]
    BY <1>0, <1>6, <2>1, AddJobType, RunPc DEF Park, IInv, WorkerPc
  <2> QED
    BY <1>6, <2>2 DEF Park, IInv, TypeOK, dbVars, apiVars
<1>7. CASE CompleteJob(j)
  <2>1. job' \in [JobId -> JobRow] /\ run' \in [JobId -> RunRow]
    BY <1>0, <1>7, NoRunType DEF CompleteJob
  <2> QED
    BY <1>7, <2>1 DEF CompleteJob, IInv, TypeOK, dbVars, apiVars
<1>8. CASE FailRead(j)
  <2> DEFINE st == status[Owner(j)]
             pc == IF isTerminalTaskStatus(st) THEN AfterFailure(run[j].pc)
                   ELSE IF run[j].pc = "fail_read" THEN "fail_cas" ELSE "final_cas"
             ver == version[Owner(j)]
  <2>1. run' = [run EXCEPT ![j] = [@ EXCEPT !.pc = pc, !.ver = ver, !.st = st]]
    BY <1>8 DEF FailRead
  <2>2. pc \in WorkerPc /\ ver \in Nat /\ st \in TaskStatus \cup {NoStatus}
    BY <1>0 DEF WorkerPc, AfterFailure
  <2>3. run' \in [JobId -> RunRow]
    <3> HIDE DEF pc, ver, st
    <3> QED BY <1>0, <2>1, <2>2, RunSnapshot
  <2> QED
    BY <1>8, <2>3 DEF FailRead, IInv, TypeOK, dbVars, apiVars
<1>9. CASE FailCommit(j)
  <2>1. /\ status' \in [Tasks -> TaskStatus \cup {NoStatus}]
        /\ version' \in [Tasks -> Nat]
    BY <1>0, <1>9, StatusType DEF FailCommit, IInv, TaskStatus
  <2>2. ledger' \in [Tasks -> SUBSET LedgerRow]
    BY <1>0, <1>9, LedgerType DEF FailCommit, IInv, LedgerRow
  <2>3. outbox' \in [EventId -> EventRow] /\ nextEvent' \in Nat \ {0}
    BY <1>0, <1>9, EmitType DEF FailCommit, IInv, EventType, NoticeEvent
  <2>4. run' \in [JobId -> RunRow]
    BY <1>0, <1>9, RunPc DEF FailCommit, AfterFailure, WorkerPc
  <2> QED
    BY <1>9, <2>1, <2>2, <2>3, <2>4 DEF FailCommit, IInv, TypeOK, apiVars
<1>10. CASE FailConflict(j)
  <2>1. run' \in [JobId -> RunRow]
    BY <1>0, <1>10, RunPc DEF FailConflict, AfterFailure, WorkerPc
  <2> QED
    BY <1>10, <2>1 DEF FailConflict, IInv, TypeOK, dbVars, apiVars
<1>11. CASE FinalDeadletter(j)
  <2>1. run' \in [JobId -> RunRow]
    BY <1>0, <1>11, NoRunType DEF FinalDeadletter
  <2>2. dlq' \subseteq [source : {"outbox.dispatch", "task.progress"}, id : JobId]
    BY <1>11 DEF FinalDeadletter, IInv, TypeOK
  <2> QED
    BY <1>11, <2>1, <2>2 DEF FinalDeadletter, IInv, TypeOK, dbVars, apiVars
<1> QED
  BY <1>1, <1>2, <1>3, <1>4, <1>5, <1>6, <1>7, <1>8, <1>9, <1>10, <1>11 DEF WorkerStep

LEMMA TypeNextError ==
    ASSUME IInv, (\E j \in JobId : WorkerError(j)) \/ Crash
    PROVE  TypeOK'
<1> DEFINE JobRow == [state : JobState, made : Nat]
<1>0. job \in [JobId -> JobRow] /\ run \in [JobId -> RunRow] /\ faults \in Nat
  BY DEF IInv, TypeOK
<1>a. Fault => faults' \in Nat
  BY <1>0 DEF Fault
<1>1. ASSUME NEW j \in JobId, StepRejected(j) PROVE TypeOK'
  <2>1. run' \in [JobId -> RunRow] /\ faults' \in Nat
    BY <1>0, <1>a, <1>1, RunPc DEF StepRejected, WorkerPc
  <2> QED
    BY <1>1, <2>1 DEF StepRejected, IInv, TypeOK, dbVars, apiVars
<1>2. ASSUME NEW j \in JobId, FailSwallowed(j) PROVE TypeOK'
  <2>1. run' \in [JobId -> RunRow] /\ faults' \in Nat
    BY <1>0, <1>a, <1>2, RunPc DEF FailSwallowed, WorkerPc
  <2> QED
    BY <1>2, <2>1 DEF FailSwallowed, IInv, TypeOK, dbVars, apiVars
<1>3. ASSUME NEW j \in JobId, AttemptFailed(j) PROVE TypeOK'
  <2> DEFINE made == job[j].made + 1
  <2>1. made \in Nat
    BY <1>0
  <2>2. job' \in [JobId -> JobRow]
    <3>1. PICK st \in {"waiting", "failed"} :
            job' = [job EXCEPT ![j] = [state |-> st, made |-> made]]
      BY <1>3 DEF AttemptFailed
    <3> HIDE DEF made
    <3> QED BY <1>0, <2>1, <3>1 DEF JobState
  <2>3. run' \in [JobId -> RunRow]
    <3>1. run' = [run EXCEPT ![j] = NoRun] \/ run' = [run EXCEPT ![j] = RunAt("final_read", 0)]
      BY <1>3 DEF AttemptFailed
    <3> QED BY <1>0, <2>1, <3>1, NoRunType DEF RunAt, RunRow, WorkerPc
  <2> QED
    BY <1>3, <1>a, <2>2, <2>3 DEF AttemptFailed, IInv, TypeOK, dbVars, apiVars
<1>4. CASE Crash
  <2>1. job' \in [JobId -> JobRow] /\ run' \in [JobId -> RunRow] /\ faults' \in Nat
    BY <1>0, <1>a, <1>4, NoRunType DEF Crash, JobState
  <2>2. disp' \in [pc : {"idle", "add", "mark", "dead"},
                   batch : SUBSET [id : EventId, retryCount : Nat]]
    BY <1>4 DEF Crash
  <2> QED
    BY <1>4, <2>1, <2>2 DEF Crash, IInv, TypeOK, dbVars, apiVars
<1>5. ASSUME NEW j \in JobId, DeadletterLost(j) PROVE TypeOK'
  <2>1. run' \in [JobId -> RunRow] /\ faults' \in Nat
    BY <1>0, <1>a, <1>5, NoRunType DEF DeadletterLost
  <2> QED
    BY <1>5, <2>1 DEF DeadletterLost, IInv, TypeOK, dbVars, apiVars
<1> QED BY <1>1, <1>2, <1>3, <1>4, <1>5 DEF WorkerError

LEMMA TypeNext == IInv /\ [Next]_vars => TypeOK'
<1>1. IInv /\ UNCHANGED vars => TypeOK'
  BY DEF IInv, TypeOK, vars, dbVars, apiVars, workVars
<1> QED
  BY <1>1, TypeNextApi, TypeNextDispatcher, TypeNextWorker, TypeNextError DEF Next

-----------------------------------------------------------------------------
(* What a step does to a task row: nothing, or one legal transition at the *)
(* price of one version.  The compare-and-set actions get the status they  *)
(* planned for from SnapshotsFresh: the version they matched stands for    *)
(* the status they read.                                                   *)

TaskStep(t) ==
    \/ status'[t] = status[t] /\ version'[t] = version[t]
    \/ /\ version'[t] = version[t] + 1
       /\ \/ ~Created(t) /\ status'[t] = "QUEUED"
          \/ Created(t) /\ canTransit(status[t], status'[t])

LEMMA SetStatusStep ==
    ASSUME IInv, NEW t \in Tasks, NEW to \in TaskStatus, SetStatus(t, to),
           Created(t), canTransit(status[t], to)
    PROVE  \A s \in Tasks : TaskStep(s)
  BY DEF IInv, TypeOK, SetStatus, TaskStep

LEMMA FailureLegal ==
    ASSUME NEW st \in TaskStatus, st \notin TERMINAL_STATUS
    PROVE  canTransit(st, "FAILED")
  BY DEF TaskStatus, TERMINAL_STATUS, canTransit, STATUS_TRANSITION_MAP

LEMMA StepLegal ==
    ASSUME NEW st \in DOMAIN StepTarget
    PROVE  canTransit(st, StepTarget[st]) /\ st # NoStatus /\ StepTarget[st] \in TaskStatus
  BY DEF StepTarget, canTransit, STATUS_TRANSITION_MAP, NoStatus, TaskStatus

LEMMA ActionLegal ==
    ASSUME NEW a \in TaskActionType, NEW st, ActionAllowed(a, st)
    PROVE  canTransit(st, ActionTarget(a)) /\ st # NoStatus /\ ActionTarget(a) \in TaskStatus
  BY DEF TaskActionType, ActionAllowed, ActionTarget, CANCELABLE_STATUS, canTransit,
         STATUS_TRANSITION_MAP, NoStatus, TaskStatus

LEMMA CommitMatches ==
    ASSUME IInv
    PROVE  /\ \A r \in Requests : request[r].pc = "cas"
                 /\ CasMatches(request[r].task, request[r].ver, request[r].st)
                 => status[request[r].task] = request[r].st
           /\ \A j \in JobId : run[j].pc = "step"
                 /\ CasMatches(Owner(j), run[j].ver, run[j].st) => status[Owner(j)] = run[j].st
           /\ \A j \in JobId : run[j].pc \in {"fail_cas", "final_cas"}
                 /\ VersionMatches(Owner(j), run[j].ver) => status[Owner(j)] = run[j].st
  BY DEF IInv, SnapshotsFresh, Fresh, CasMatches, VersionMatches

LEMMA TaskStepNext == IInv /\ [Next]_vars => \A t \in Tasks : TaskStep(t)
<1> SUFFICES ASSUME IInv, [Next]_vars PROVE \A t \in Tasks : TaskStep(t)
    OBVIOUS
<1>0. UNCHANGED <<status, version>> => \A t \in Tasks : TaskStep(t)
  BY DEF TaskStep
<1>1. ASSUME NEW t \in Tasks, CreateTask(t) PROVE \A s \in Tasks : TaskStep(s)
  BY <1>1 DEF CreateTask, TaskStep, Created, IInv, TypeOK, Provenance
<1>2. ASSUME NEW r \in Requests, ActionCommit(r) PROVE \A s \in Tasks : TaskStep(s)
  <2> DEFINE c == request[r]
  <2>1. c.task \in Tasks /\ c.action \in TaskActionType
    BY DEF IInv, TypeOK, Call
  <2>2. status[c.task] = c.st /\ ActionAllowed(c.action, c.st)
    BY <1>2, CommitMatches DEF ActionCommit, IInv, Planned
  <2>3. SetStatus(c.task, ActionTarget(c.action))
    BY <1>2 DEF ActionCommit
  <2> HIDE DEF c
  <2> QED BY <2>1, <2>2, <2>3, ActionLegal, SetStatusStep DEF Created
<1>3. ASSUME NEW j \in JobId, StepCommit(j) PROVE \A s \in Tasks : TaskStep(s)
  <2>1. status[Owner(j)] = run[j].st /\ run[j].st \in DOMAIN StepTarget
    BY <1>3, CommitMatches DEF StepCommit, IInv, Planned
  <2>2. SetStatus(Owner(j), StepTarget[run[j].st])
    BY <1>3 DEF StepCommit
  <2> QED BY <2>1, <2>2, OwnerIn, StepLegal, SetStatusStep DEF Created
<1>4. ASSUME NEW j \in JobId, FailCommit(j) PROVE \A s \in Tasks : TaskStep(s)
  <2>1. status[Owner(j)] = run[j].st /\ run[j].st \notin TERMINAL_STATUS /\ run[j].st # NoStatus
    BY <1>4, CommitMatches DEF FailCommit, IInv, Planned
  <2>2. SetStatus(Owner(j), "FAILED")
    BY <1>4 DEF FailCommit
  <2>3. status[Owner(j)] \in TaskStatus
    BY <2>1, OwnerIn DEF IInv, TypeOK
  <2>4. "FAILED" \in TaskStatus
    BY DEF TaskStatus
  <2> QED BY <2>1, <2>2, <2>3, <2>4, OwnerIn, FailureLegal, SetStatusStep DEF Created
<1>5. CASE UNCHANGED vars
  BY <1>0, <1>5 DEF vars, dbVars
<1>6. CASE ApiStep
  <2>1. ASSUME NEW r \in Requests, CallStep(r), ~ActionCommit(r) PROVE UNCHANGED <<status, version>>
    BY <2>1 DEF CallStep, ReadForAction, ActionConflict, RememberInvalid, dbVars
  <2> QED
    BY <1>0, <1>1, <1>2, <1>6, <2>1 DEF ApiStep, CheckIdempotency, UploadRead, UploadCommit, dbVars
<1>7. CASE DispatcherStep \/ DispatcherError
  BY <1>0, <1>7 DEF DispatcherStep, DispatcherError, Poll, DispatchAdd, DispatchMark,
     DispatchDeadletter, DispatchFail, DispatchAbort, dbVars
<1>8. CASE \E j \in JobId : WorkerStep(j) \/ WorkerError(j)
  BY <1>0, <1>3, <1>4, <1>8 DEF WorkerStep, WorkerError, TakeJob, ReadTask, DetectInput,
     StepConflict, Park, CompleteJob, FailRead, FailConflict, FinalDeadletter, StepRejected,
     AttemptFailed, FailSwallowed, DeadletterLost, dbVars
<1>9. CASE Crash
  BY <1>0, <1>9 DEF Crash, dbVars
<1> QED BY <1>5, <1>6, <1>7, <1>8, <1>9 DEF Next

(* Rows are never taken back, and no version number is used twice. *)
LEMMA TaskMonotone ==
    ASSUME IInv, [Next]_vars, NEW t \in Tasks
    PROVE  /\ Created(t) => Created(t)'
           /\ status'[t] # "UPLOADED"
           /\ ~Created(t)' => version'[t] = 0
           /\ version'[t] >= version[t]
           /\ version'[t] = version[t] => status'[t] = status[t]
<1>1. TaskStep(t)
  BY TaskStepNext
<1>2. status[t] \in TaskStatus \cup {NoStatus} /\ version[t] \in Nat /\ status[t] # "UPLOADED"
      /\ (~Created(t) => version[t] = 0)
  BY DEF IInv, TypeOK, Provenance
<1>3. \A to : Created(t) /\ canTransit(status[t], to) => to \in TaskStatus \ {"UPLOADED"}
  BY <1>2 DEF canTransit, STATUS_TRANSITION_MAP, TaskStatus, Created
<1>4. NoStatus \notin TaskStatus /\ "QUEUED" \in TaskStatus
  BY DEF NoStatus, TaskStatus
<1> QED BY <1>1, <1>2, <1>3, <1>4 DEF TaskStep, Created, NoStatus

-----------------------------------------------------------------------------
(* What a step does to a snapshot: keeps it, drops it, or takes a new one  *)
(* that has passed the reader's check.                                     *)

SnapshotPc == {"detect", "step", "fail_cas", "final_cas"}

RunRead(j) ==
    /\ UNCHANGED <<status, version>>
    /\ run[j].pc # "idle"
    /\ run'[j].ver = version[Owner(j)] /\ run'[j].st = status[Owner(j)]
    /\ status[Owner(j)] \notin TERMINAL_STATUS
    /\ run'[j].pc = "detect" => status[Owner(j)] = "DETECTING"

RunStep(j) ==
    \/ run'[j] = run[j]
    \/ run'[j].pc \notin SnapshotPc
    \/ RunRead(j)
    \/ /\ run[j].pc = "detect" /\ run'[j].pc = "step"
       /\ run'[j].ver = run[j].ver /\ run'[j].st = run[j].st

CallRead(r) ==
    /\ UNCHANGED <<status, version>>
    /\ LET c == request'[r]
       IN  c.ver = version[c.task] /\ c.st = status[c.task] /\ ActionAllowed(c.action, c.st)

RequestStep(r) == request'[r] = request[r] \/ request'[r].pc # "cas" \/ CallRead(r)

LEMMA RequestStepNext ==
    ASSUME IInv, [Next]_vars, NEW r \in Requests PROVE RequestStep(r)
<1>0. request \in [Requests -> Call]
  BY DEF IInv, TypeOK
<1>1. ASSUME NEW q \in Requests, ReadForAction(q) PROVE RequestStep(r)
  <2>1. CASE q # r
    BY <1>0, <1>1, <2>1 DEF ReadForAction, RequestStep
  <2>2. CASE q = r
    <3> DEFINE t  == request[r].task
               ok == ActionAllowed(request[r].action, status[t])
               pc == IF ok THEN "cas" ELSE "invalid"
    <3>1. request'[r] = [request[r] EXCEPT !.pc = pc, !.ver = version[t], !.st = status[t]]
      BY <1>0, <1>1, <2>2 DEF ReadForAction
    <3>2. pc = "cas" => ok
      OBVIOUS
    <3>3. request[r] \in Call
      BY <1>0
    <3>4. /\ request'[r].pc = pc /\ request'[r].task = request[r].task
          /\ request'[r].action = request[r].action
          /\ request'[r].ver = version[t] /\ request'[r].st = status[t]
      <4> HIDE DEF pc, t
      <4> QED BY <3>1, <3>3 DEF Call
    <3>5. UNCHANGED <<status, version>>
      BY <1>1 DEF ReadForAction, dbVars
    <3> QED BY <3>2, <3>4, <3>5 DEF RequestStep, CallRead
  <2> QED BY <2>1, <2>2
<1>2. ASSUME NEW q \in Requests, ActionCommit(q) \/ ActionConflict(q) \/ RememberInvalid(q)
      PROVE  RequestStep(r)
  <2>1. CASE q # r
    BY <1>0, <1>2, <2>1 DEF ActionCommit, ActionConflict, RememberInvalid, RequestStep
  <2>2. CASE q = r
    <3>1. request[r] \in Call
      BY <1>0
    <3>2. \/ request' = [request EXCEPT ![r] = [@ EXCEPT !.pc = "done", !.result = "SUCCESS"]]
          \/ request' = [request EXCEPT ![r].pc = "invalid"]
          \/ request' = [request EXCEPT ![r] = [@ EXCEPT !.pc = "done", !.result = "INVALID"]]
      BY <1>2, <2>2 DEF ActionCommit, ActionConflict, RememberInvalid
    <3>3. request'[r].pc # "cas"
      BY <1>0, <3>1, <3>2 DEF Call
    <3> QED BY <3>3 DEF RequestStep
  <2> QED BY <2>1, <2>2
<1>3. ASSUME NEW q \in Requests, NEW a \in TaskActionType, NEW t \in Tasks, NEW k \in Keys,
             CheckIdempotency(q, a, t, k)
      PROVE  RequestStep(r)
  <2>1. CASE q # r
    BY <1>0, <1>3, <2>1 DEF CheckIdempotency, RequestStep
  <2>2. CASE q = r
    <3>1. request'[r].pc # "cas"
      BY <1>0, <1>3, <2>2 DEF CheckIdempotency, NewCall
    <3> QED BY <3>1 DEF RequestStep
  <2> QED BY <2>1, <2>2
<1>4. UNCHANGED request => RequestStep(r)
  BY DEF RequestStep
<1>5. CASE ApiStep
  BY <1>1, <1>2, <1>3, <1>4, <1>5 DEF ApiStep, CallStep, CreateTask, UploadRead, UploadCommit, apiVars
<1>6. CASE DispatcherStep \/ DispatcherError
  BY <1>4, <1>6 DEF DispatcherStep, DispatcherError, Poll, DispatchAdd, DispatchMark,
     DispatchDeadletter, DispatchFail, DispatchAbort, apiVars
<1>7. CASE \E j \in JobId : WorkerStep(j) \/ WorkerError(j)
  BY <1>4, <1>7 DEF WorkerStep, WorkerError, TakeJob, ReadTask, DetectInput, StepCommit,
     StepConflict, Park, CompleteJob, FailRead, FailCommit, FailConflict, FinalDeadletter,
     StepRejected, AttemptFailed, FailSwallowed, DeadletterLost, apiVars
<1>8. CASE Crash \/ UNCHANGED vars
  BY <1>4, <1>8 DEF Crash, vars, apiVars
<1> QED BY <1>5, <1>6, <1>7, <1>8 DEF Next

LEMMA RunStepNext ==
    ASSUME IInv, [Next]_vars, NEW i \in JobId PROVE RunStep(i)
<1>0. run \in [JobId -> RunRow] /\ run[i] \in RunRow
  BY DEF IInv, TypeOK
<1>a. UNCHANGED run => RunStep(i)
  BY DEF RunStep
<1>b. NoRun.pc \notin SnapshotPc
  BY DEF NoRun, RunAt, SnapshotPc
<1>1. ASSUME NEW j \in JobId, ReadTask(j) PROVE RunStep(i)
  <2>1. CASE i # j
    BY <1>0, <1>1, <2>1 DEF ReadTask, RunStep
  <2>2. CASE i = j
    <3> DEFINE st == status[Owner(i)]
               pc == IF isTerminalTaskStatus(st) THEN "done"
                     ELSE IF st = "DETECTING" THEN "detect" ELSE "step"
               ver == version[Owner(i)]
    <3>1. run'[i] = [run[i] EXCEPT !.pc = pc, !.ver = ver, !.st = st]
      BY <1>0, <1>1, <2>2 DEF ReadTask
    <3>2. /\ pc \in {"done", "detect", "step"}
          /\ pc # "done" => st \notin TERMINAL_STATUS
          /\ pc = "detect" => st = "DETECTING"
      BY DEF isTerminalTaskStatus
    <3>3. run'[i].pc = pc /\ run'[i].ver = ver /\ run'[i].st = st
      <4> HIDE DEF pc, ver, st
      <4> QED BY <1>0, <3>1 DEF RunRow
    <3>4. UNCHANGED <<status, version>> /\ run[i].pc = "read"
      BY <1>1, <2>2 DEF ReadTask, dbVars
    <3> QED BY <3>2, <3>3, <3>4 DEF RunStep, RunRead, SnapshotPc
  <2> QED BY <2>1, <2>2
<1>2. ASSUME NEW j \in JobId, FailRead(j) PROVE RunStep(i)
  <2>1. CASE i # j
    BY <1>0, <1>2, <2>1 DEF FailRead, RunStep
  <2>2. CASE i = j
    <3> DEFINE st == status[Owner(i)]
               pc == IF isTerminalTaskStatus(st) THEN AfterFailure(run[i].pc)
                     ELSE IF run[i].pc = "fail_read" THEN "fail_cas" ELSE "final_cas"
               ver == version[Owner(i)]
    <3>1. run'[i] = [run[i] EXCEPT !.pc = pc, !.ver = ver, !.st = st]
      BY <1>0, <1>2, <2>2 DEF FailRead
    <3>2. /\ pc \in {"done", "final_dlq", "fail_cas", "final_cas"}
          /\ pc \in {"fail_cas", "final_cas"} => st \notin TERMINAL_STATUS
      BY DEF isTerminalTaskStatus, AfterFailure
    <3>3. run'[i].pc = pc /\ run'[i].ver = ver /\ run'[i].st = st
      <4> HIDE DEF pc, ver, st
      <4> QED BY <1>0, <3>1 DEF RunRow
    <3>4. UNCHANGED <<status, version>> /\ run[i].pc \in {"fail_read", "final_read"}
      BY <1>2, <2>2 DEF FailRead, dbVars
    <3> QED BY <3>2, <3>3, <3>4 DEF RunStep, RunRead, SnapshotPc
  <2> QED BY <2>1, <2>2
<1>3. ASSUME NEW j \in JobId, DetectInput(j) PROVE RunStep(i)
  <2>1. PICK pc \in {"step", "park"} : run' = [run EXCEPT ![j].pc = pc]
    BY <1>3 DEF DetectInput
  <2>2. CASE i # j
    BY <1>0, <2>1, <2>2 DEF RunStep
  <2>3. CASE i = j
    <3>1. run'[i].pc = pc /\ run'[i].ver = run[i].ver /\ run'[i].st = run[i].st
      BY <1>0, <2>1, <2>3 DEF RunRow
    <3> QED BY <1>3, <2>3, <3>1 DEF RunStep, SnapshotPc, DetectInput
  <2> QED BY <2>2, <2>3
<1>4. ASSUME NEW j \in JobId, run' = NextIteration(j) PROVE RunStep(i)
  BY <1>0, <1>4 DEF NextIteration, RunAt, RunStep, SnapshotPc
<1>5. ASSUME NEW j \in JobId, NEW pc, run' = [run EXCEPT ![j].pc = pc], pc \notin SnapshotPc
      PROVE  RunStep(i)
  <2>1. CASE i # j
    BY <1>0, <1>5, <2>1 DEF RunStep
  <2>2. CASE i = j
    <3>1. run'[i].pc = pc
      BY <1>0, <1>5, <2>2 DEF RunRow
    <3> QED BY <1>5, <3>1 DEF RunStep
  <2> QED BY <2>1, <2>2
<1>6. ASSUME NEW j \in JobId, WorkerStep(j) PROVE RunStep(i)
  <2>1. CASE TakeJob(j)
    BY <1>0, <2>1 DEF TakeJob, RunAt, RunStep, SnapshotPc
  <2>2. CASE StepCommit(j)
    <3>1. run' = [run EXCEPT ![j].pc = "done"] \/ run' = NextIteration(j)
      BY <2>2 DEF StepCommit
    <3> QED BY <1>4, <1>5, <3>1 DEF SnapshotPc
  <2>3. CASE StepConflict(j)
    BY <1>4, <2>3 DEF StepConflict
  <2>4. CASE Park(j) \/ FailCommit(j) \/ FailConflict(j)
    BY <1>5, <2>4 DEF Park, FailCommit, FailConflict, AfterFailure, SnapshotPc
  <2>5. CASE CompleteJob(j) \/ FinalDeadletter(j)
    BY <1>0, <1>b, <2>5 DEF CompleteJob, FinalDeadletter, RunStep
  <2> QED BY <1>1, <1>2, <1>3, <1>6, <2>1, <2>2, <2>3, <2>4, <2>5 DEF WorkerStep
<1>7. ASSUME NEW j \in JobId, WorkerError(j) PROVE RunStep(i)
  <2>1. CASE StepRejected(j) \/ FailSwallowed(j)
    BY <1>5, <2>1 DEF StepRejected, FailSwallowed, SnapshotPc
  <2>2. CASE AttemptFailed(j)
    <3>1. \/ run' = [run EXCEPT ![j] = NoRun]
          \/ run' = [run EXCEPT ![j] = RunAt("final_read", 0)]
      BY <2>2 DEF AttemptFailed
    <3> QED BY <1>0, <1>b, <3>1 DEF RunAt, RunStep, SnapshotPc
  <2>3. CASE DeadletterLost(j)
    BY <1>0, <1>b, <2>3 DEF DeadletterLost, RunStep
  <2> QED BY <1>7, <2>1, <2>2, <2>3 DEF WorkerError
<1>8. CASE Crash
  BY <1>b, <1>8 DEF Crash, RunStep
<1>9. CASE DispatcherStep \/ DispatcherError
  BY <1>a, <1>9 DEF DispatcherStep, DispatcherError, Poll, DispatchAdd, DispatchMark,
     DispatchDeadletter, DispatchFail, DispatchAbort
<1>10. CASE ApiStep
  BY <1>a, <1>10 DEF ApiStep, CallStep, CreateTask, CheckIdempotency, ReadForAction, ActionCommit,
     ActionConflict, RememberInvalid, UploadRead, UploadCommit, workVars
<1>11. CASE UNCHANGED vars
  BY <1>a, <1>11 DEF vars, workVars
<1> QED BY <1>6, <1>7, <1>8, <1>9, <1>10, <1>11 DEF Next

LEMMA SnapshotsNext == IInv /\ [Next]_vars => Planned' /\ SnapshotsFresh'
<1> SUFFICES ASSUME IInv, [Next]_vars PROVE Planned' /\ SnapshotsFresh'
    OBVIOUS
<1>1. ASSUME NEW j \in JobId, run'[j].pc \in SnapshotPc
      PROVE  /\ Fresh(Owner(j), run[j].ver, run[j].st)'
             /\ run'[j].pc = "detect" => run'[j].st = "DETECTING"
             /\ run'[j].pc = "step" => run'[j].st \in DOMAIN StepTarget
             /\ run'[j].pc \in {"fail_cas", "final_cas"} =>
                   run'[j].st \notin TERMINAL_STATUS /\ run'[j].st # NoStatus
  <2> DEFINE t == Owner(j)
  <2>0. /\ t \in Tasks /\ status[t] \in TaskStatus \cup {NoStatus} /\ version[t] \in Nat
        /\ version'[t] \in Nat /\ run[j].ver \in Nat
    BY OwnerIn, TypeNext DEF IInv, TypeOK, RunRow
  <2>1. version'[t] >= version[t] /\ (version'[t] = version[t] => status'[t] = status[t])
    BY <2>0, TaskMonotone
  <2>2. CASE run'[j] = run[j] \/ (/\ run[j].pc = "detect" /\ run'[j].pc = "step"
                                 /\ run'[j].ver = run[j].ver /\ run'[j].st = run[j].st)
    <3>1. Fresh(t, run[j].ver, run[j].st)
      BY <1>1, <2>2 DEF IInv, SnapshotsFresh, SnapshotPc
    <3>2. Fresh(t, run[j].ver, run[j].st)'
      BY <2>0, <2>1, <2>2, <3>1 DEF Fresh
    <3>3. "DETECTING" \in DOMAIN StepTarget
      BY DEF StepTarget
    <3> QED BY <1>1, <2>2, <3>2, <3>3 DEF IInv, Planned, SnapshotPc
  <2>3. CASE RunRead(j)
    <3>1. Fresh(t, run[j].ver, run[j].st)'
      BY <2>0, <2>3 DEF RunRead, Fresh
    <3>2. status[t] # NoStatus /\ status[t] # "UPLOADED" /\ status[t] \notin TERMINAL_STATUS
      BY <2>0, <2>3 DEF RunRead, IInv, Provenance, Created
    <3>3. status[t] \in DOMAIN StepTarget
      BY <2>0, <3>2 DEF TaskStatus, TERMINAL_STATUS, StepTarget
    <3> QED BY <2>3, <3>1, <3>2, <3>3 DEF RunRead
  <2> QED BY <1>1, <2>2, <2>3, RunStepNext DEF RunStep
<1>2. ASSUME NEW r \in Requests, request'[r].pc = "cas"
      PROVE  /\ Fresh(request[r].task, request[r].ver, request[r].st)'
             /\ ActionAllowed(request'[r].action, request'[r].st)
  <2> DEFINE t == request'[r].task
  <2>0. /\ t \in Tasks /\ version[t] \in Nat /\ version'[t] \in Nat /\ request'[r].ver \in Nat
    <3>1. TypeOK'
      BY TypeNext
    <3>2. t \in Tasks /\ request'[r].ver \in Nat
      BY <3>1 DEF TypeOK, Call
    <3> QED BY <3>1, <3>2 DEF IInv, TypeOK
  <2>1. version'[t] >= version[t] /\ (version'[t] = version[t] => status'[t] = status[t])
    BY <2>0, TaskMonotone
  <2>2. CASE request'[r] = request[r]
    <3>1. /\ Fresh(t, request'[r].ver, request'[r].st)
          /\ ActionAllowed(request'[r].action, request'[r].st)
      BY <1>2, <2>2 DEF IInv, SnapshotsFresh, Planned
    <3> QED BY <2>0, <2>1, <3>1 DEF Fresh
  <2>3. CASE CallRead(r)
    BY <2>0, <2>3 DEF CallRead, Fresh
  <2> QED BY <1>2, <2>2, <2>3, RequestStepNext DEF RequestStep
<1> QED BY <1>1, <1>2 DEF Planned, SnapshotsFresh, SnapshotPc

-----------------------------------------------------------------------------
(* What a step does to the outbox: it keeps an event's type and task, or   *)
(* writes an event of a task that exists by then.                          *)

EventStep(e) ==
    \/ outbox'[e].type = outbox[e].type /\ outbox'[e].task = outbox[e].task
    \/ outbox'[e].type # NoEventType /\ status'[outbox'[e].task] # NoStatus

LEMMA EmitStep ==
    ASSUME IInv, NEW type \in EventType, NEW t \in Tasks, Emit(type, t), status'[t] # NoStatus,
           NEW e \in EventId
    PROVE  EventStep(e)
<1>1. outbox \in [EventId -> EventRow] /\ NoEventType \notin EventType
  BY DEF IInv, TypeOK, EventType, TriggerEvent, NoticeEvent, NoEventType
<1>2. CASE e = nextEvent
  <2>1. outbox'[e] = [type |-> type, task |-> t, status |-> "PENDING", retryCount |-> 0]
    BY <1>1, <1>2 DEF Emit
  <2> QED BY <1>1, <2>1 DEF EventStep
<1>3. CASE e # nextEvent
  BY <1>1, <1>3 DEF Emit, EventStep
<1> QED BY <1>2, <1>3

LEMMA EventStepNext ==
    ASSUME IInv, [Next]_vars, NEW e \in EventId PROVE EventStep(e)
<1>0. outbox \in [EventId -> EventRow]
  BY DEF IInv, TypeOK
<1>a. UNCHANGED outbox => EventStep(e)
  BY DEF EventStep
<1>b. {"task.created", "task.masked", "task.succeeded", "task.failed", "task.canceled",
       "task.retried"} \subseteq EventType
  BY DEF EventType, TriggerEvent, NoticeEvent
<1>c. \A t \in Tasks : Created(t) => status'[t] # NoStatus
  BY TaskMonotone DEF Created
<1>1. ASSUME NEW t \in Tasks, CreateTask(t) PROVE EventStep(e)
  <2>1. status'[t] # NoStatus
    BY <1>1 DEF CreateTask, NoStatus, IInv, TypeOK
  <2> QED BY <1>b, <1>1, <2>1, EmitStep DEF CreateTask
<1>2. ASSUME NEW r \in Requests, ActionCommit(r) PROVE EventStep(e)
  <2> DEFINE c  == request[r]
             to == ActionTarget(c.action)
  <2>1. c.task \in Tasks /\ c.action \in TaskActionType
    BY DEF IInv, TypeOK, Call
  <2>2. status[c.task] = c.st /\ ActionAllowed(c.action, c.st)
    BY <1>2, CommitMatches DEF ActionCommit, IInv, Planned
  <2>3. Created(c.task)
    BY <2>1, <2>2, ActionLegal DEF Created
  <2>4. PostTransitionEvent(c.st, to) \in EventType
    BY <1>b, <2>1, <2>2 DEF PostTransitionEvent, ActionTarget, TaskActionType, ActionAllowed
  <2> HIDE DEF c, to
  <2>5. Emit(PostTransitionEvent(c.st, to), c.task)
    BY <1>2 DEF ActionCommit, c, to
  <2> QED BY <1>c, <2>1, <2>3, <2>4, <2>5, EmitStep
<1>3. ASSUME NEW u \in Uploads, UploadCommit(u) PROVE EventStep(e)
  <2> DEFINE t == upload[u].task
  <2>1. t \in Tasks /\ status'[t] # NoStatus
    BY <1>c, <1>3 DEF UploadCommit, IInv, TypeOK, UploadRow, Provenance, Created
  <2>2. UNCHANGED outbox \/ Emit("task.masked", t)
    BY <1>3 DEF UploadCommit
  <2> HIDE DEF t
  <2> QED BY <1>a, <1>b, <2>1, <2>2, EmitStep
<1>4. ASSUME NEW j \in JobId, StepCommit(j) \/ FailCommit(j) PROVE EventStep(e)
  <2>1. Owner(j) \in Tasks /\ status'[Owner(j)] # NoStatus
    BY <1>c, <1>4, OwnerIn DEF StepCommit, FailCommit, IInv, Provenance
  <2>2. UNCHANGED outbox \/ Emit("task.succeeded", Owner(j)) \/ Emit("task.failed", Owner(j))
    BY <1>4 DEF StepCommit, FailCommit
  <2> QED BY <1>a, <1>b, <2>1, <2>2, EmitStep
<1>5. ASSUME NEW x \in disp.batch, DispatchMark(x) PROVE EventStep(e)
  <2>1. outbox'[e] = outbox[e] \/ outbox'[e] = [outbox[e] EXCEPT !.status = "PUBLISHED"]
    BY <1>0, <1>5, BatchOwner DEF DispatchMark
  <2> QED BY <1>0, <2>1 DEF EventStep, EventRow
<1>6. ASSUME NEW x \in disp.batch, DispatchFail(x) PROVE EventStep(e)
  <2> DEFINE n  == x.retryCount + 1
             st == IF n > OutboxMaxRetries THEN "DEAD" ELSE outbox[x.id].status
  <2>1. outbox' = [outbox EXCEPT ![x.id] = [@ EXCEPT !.status = st, !.retryCount = n]]
    BY <1>6 DEF DispatchFail
  <2> HIDE DEF n, st
  <2>2. outbox'[e] = outbox[e] \/ outbox'[e] = [outbox[e] EXCEPT !.status = st, !.retryCount = n]
    BY <1>0, <1>6, <2>1, BatchOwner
  <2> QED BY <1>0, <2>2 DEF EventStep, EventRow
<1>7. CASE ApiStep
  <2>1. ASSUME NEW r \in Requests, CallStep(r), ~ActionCommit(r) PROVE UNCHANGED outbox
    BY <2>1 DEF CallStep, ReadForAction, ActionConflict, RememberInvalid, dbVars
  <2> QED
    BY <1>a, <1>1, <1>2, <1>3, <1>7, <2>1 DEF ApiStep, CheckIdempotency, UploadRead, dbVars
<1>8. CASE DispatcherStep \/ DispatcherError
  BY <1>a, <1>5, <1>6, <1>8 DEF DispatcherStep, DispatcherError, Poll, DispatchAdd,
     DispatchDeadletter, DispatchAbort, dbVars
<1>9. CASE \E j \in JobId : WorkerStep(j) \/ WorkerError(j)
  BY <1>a, <1>4, <1>9 DEF WorkerStep, WorkerError, TakeJob, ReadTask, DetectInput, StepConflict,
     Park, CompleteJob, FailRead, FailConflict, FinalDeadletter, StepRejected, AttemptFailed,
     FailSwallowed, DeadletterLost, dbVars
<1>10. CASE Crash \/ UNCHANGED vars
  BY <1>a, <1>10 DEF Crash, vars, dbVars
<1> QED BY <1>7, <1>8, <1>9, <1>10 DEF Next

(* Where uploads, batches, jobs and handlers of the next state come from. *)
LEMMA SourcesNext ==
    ASSUME IInv, [Next]_vars
    PROVE  /\ \A u \in Uploads : upload'[u].pc # "new" => Created(upload'[u].task)
           /\ \A x \in disp'.batch : x.id \in EventId /\ outbox[x.id].type # NoEventType
           /\ \A j \in JobId : job'[j].state # "absent" \/ run'[j].pc # "idle" => Created(Owner(j))
<1> DEFINE Up   == \A u \in Uploads : upload'[u].pc # "new" => Created(upload'[u].task)
           Bat  == \A x \in disp'.batch : x.id \in EventId /\ outbox[x.id].type # NoEventType
           Jobs == \A j \in JobId : job'[j].state # "absent" \/ run'[j].pc # "idle" => Created(Owner(j))
<1>0. /\ upload \in [Uploads -> UploadRow] /\ job \in [JobId -> [state : JobState, made : Nat]]
      /\ run \in [JobId -> RunRow] /\ NoRun.pc = "idle" /\ NoJob.state = "absent"
  BY DEF IInv, TypeOK, NoRun, RunAt, NoJob
<1>a. UNCHANGED upload => Up
  BY DEF IInv, Provenance
<1>b. disp'.batch \subseteq disp.batch => Bat
  BY DEF IInv, TypeOK, Provenance
<1>c. UNCHANGED <<job, run>> => Jobs
  BY DEF IInv, Provenance
<1>d. \A x \in disp.batch : /\ Advance(x).batch \subseteq disp.batch
                            /\ [disp EXCEPT !.pc = "mark"].batch = disp.batch
                            /\ [disp EXCEPT !.pc = "dead"].batch = disp.batch
  BY DEF Advance, IInv, TypeOK
<1>1. CASE ApiStep
  <2>1. ASSUME NEW u \in Uploads, NEW t \in Tasks, UploadRead(u, t) PROVE Up
    BY <1>0, <2>1 DEF UploadRead, Created, IInv, Provenance
  <2>2. ASSUME NEW u \in Uploads, UploadCommit(u) PROVE Up
    BY <1>0, <2>2 DEF UploadCommit, UploadRow, IInv, Provenance
  <2>3. Up
    BY <1>1, <1>a, <2>1, <2>2 DEF ApiStep, CallStep, CreateTask, CheckIdempotency, ReadForAction,
       ActionCommit, ActionConflict, RememberInvalid, apiVars
  <2>4. UNCHANGED workVars
    BY <1>1 DEF ApiStep, CallStep, CreateTask, CheckIdempotency, ReadForAction, ActionCommit,
       ActionConflict, RememberInvalid, UploadRead, UploadCommit
  <2> QED BY <1>b, <1>c, <2>3, <2>4 DEF workVars
<1>2. CASE DispatcherStep \/ DispatcherError
  <2>1. UNCHANGED <<upload, run>>
    BY <1>2 DEF DispatcherStep, DispatcherError, Poll, DispatchAdd, DispatchMark,
       DispatchDeadletter, DispatchFail, DispatchAbort, apiVars
  <2>2. ASSUME Poll PROVE Bat
    <3>1. PICK B \in Batches :
            disp' = [pc |-> "add", batch |-> {[id |-> e, retryCount |-> outbox[e].retryCount] : e \in B}]
      BY <2>2 DEF Poll
    <3>2. \A e \in B : e \in EventId /\ outbox[e].type # NoEventType
      BY DEF Batches, PendingTriggers, TriggerEvent, NoEventType
    <3> QED BY <3>1, <3>2
  <2>3. Bat
    <3>1. ASSUME NEW x \in disp.batch,
                 DispatchAdd(x) \/ DispatchMark(x) \/ DispatchDeadletter(x) \/ DispatchFail(x)
          PROVE  disp'.batch \subseteq disp.batch
      BY <1>d, <3>1 DEF DispatchAdd, DispatchMark, DispatchDeadletter, DispatchFail
    <3>2. DispatchAbort => disp'.batch \subseteq disp.batch
      BY DEF DispatchAbort
    <3> HIDE DEF Bat
    <3> QED BY <1>2, <1>b, <2>2, <3>1, <3>2 DEF DispatcherStep, DispatcherError
  <2>4. ASSUME NEW x \in disp.batch, DispatchAdd(x) PROVE Jobs
    <3>1. Created(outbox[x.id].task)
      BY BatchOwner DEF IInv, Provenance
    <3>2. AddJob(<<outbox[x.id].task, x.id>>) /\ UNCHANGED run
      BY <2>4 DEF DispatchAdd
    <3> QED BY <1>0, <3>1, <3>2 DEF AddJob, Owner, IInv, Provenance
  <2>5. Jobs
    BY <1>2, <1>c, <2>1, <2>4 DEF DispatcherStep, DispatcherError, Poll, DispatchMark,
       DispatchDeadletter, DispatchFail, DispatchAbort
  <2> QED BY <1>a, <2>1, <2>3, <2>5
<1>3. ASSUME NEW j \in JobId, WorkerStep(j) \/ WorkerError(j) PROVE Up /\ Bat /\ Jobs
  <2>1. UNCHANGED <<upload, disp>>
    BY <1>3 DEF WorkerStep, WorkerError, TakeJob, ReadTask, DetectInput, StepCommit, StepConflict,
       Park, CompleteJob, FailRead, FailCommit, FailConflict, FinalDeadletter, StepRejected,
       AttemptFailed, FailSwallowed, DeadletterLost, apiVars
  <2>2. job[j].state # "absent" \/ run[j].pc # "idle"
    BY <1>3 DEF WorkerStep, WorkerError, TakeJob, ReadTask, DetectInput, StepCommit, StepConflict,
       Park, CompleteJob, FailRead, FailCommit, FailConflict, FinalDeadletter, StepRejected,
       AttemptFailed, FailSwallowed, DeadletterLost
  <2>3. Created(Owner(j))
    BY <2>2 DEF IInv, Provenance
  <2>4. \A i \in JobId : i # j => run'[i] = run[i]
    BY <1>0, <1>3 DEF WorkerStep, WorkerError, TakeJob, ReadTask, DetectInput, StepCommit,
       StepConflict, NextIteration, Park, CompleteJob, FailRead, FailCommit, FailConflict,
       FinalDeadletter, StepRejected, AttemptFailed, FailSwallowed, DeadletterLost
  <2>5. \A i \in JobId : i # j => job'[i] = job[i] \/ Owner(i) = Owner(j)
    BY <1>0, <1>3 DEF WorkerStep, WorkerError, TakeJob, ReadTask, DetectInput, StepCommit,
       StepConflict, Park, AddJob, Owner, CompleteJob, FailRead, FailCommit, FailConflict,
       FinalDeadletter, StepRejected, AttemptFailed, FailSwallowed, DeadletterLost
  <2>6. Jobs
    BY <2>3, <2>4, <2>5 DEF IInv, Provenance
  <2> QED BY <1>a, <1>b, <2>1, <2>6
<1>4. CASE Crash
  <2>1. Jobs
    BY <1>0, <1>4 DEF Crash, IInv, Provenance
  <2> QED BY <1>4, <1>a, <1>b, <2>1 DEF Crash, apiVars
<1>5. CASE UNCHANGED vars
  BY <1>5, <1>a, <1>b, <1>c DEF vars, apiVars, workVars
<1> QED BY <1>1, <1>2, <1>3, <1>4, <1>5 DEF Next

LEMMA ProvenanceNext == IInv /\ [Next]_vars => Provenance'
<1> SUFFICES ASSUME IInv, [Next]_vars PROVE Provenance'
    OBVIOUS
<1>0. TypeOK'
  BY TypeNext
<1>1. \A t \in Tasks : /\ Created(t) => Created(t)'
                       /\ status'[t] # "UPLOADED" /\ (~Created(t)' => version'[t] = 0)
  BY TaskMonotone
<1>2. \A e \in EventId : outbox'[e].type # NoEventType => status'[outbox'[e].task] # NoStatus
  BY <1>1, EventStepNext DEF EventStep, Created, IInv, TypeOK, EventRow, Provenance
<1>3. \A e \in EventId : outbox[e].type # NoEventType => outbox'[e].type # NoEventType
  BY EventStepNext DEF EventStep
<1>4. \A u \in Uploads : upload'[u].pc # "new" => status'[upload'[u].task] # NoStatus
  <2>1. \A u \in Uploads : upload'[u].task \in Tasks
    BY <1>0 DEF TypeOK, UploadRow
  <2> QED BY <1>1, <2>1, SourcesNext DEF Created
<1>5. \A x \in disp'.batch : outbox'[x.id].type # NoEventType
  BY <1>3, SourcesNext
<1>6. \A j \in JobId : job'[j].state # "absent" \/ run'[j].pc # "idle" => Created(Owner(j))'
  BY <1>1, OwnerIn, SourcesNext DEF Created, Owner
<1> QED BY <1>1, <1>2, <1>4, <1>5, <1>6 DEF Provenance, Created

-----------------------------------------------------------------------------
(* The invariant, and what it gives. *)

LEMMA InitIInv == Init => IInv
<1> SUFFICES ASSUME Init PROVE IInv
    OBVIOUS
<1>1. /\ \A j \in JobId : run[j].pc = "idle" /\ job[j].state = "absent"
      /\ \A r \in Requests : request[r].pc = "new"
      /\ \A u \in Uploads : upload[u].pc = "new"
      /\ \A e \in EventId : outbox[e].type = NoEventType
      /\ \A t \in Tasks : status[t] = NoStatus /\ version[t] = 0
      /\ disp.batch = {}
  BY DEF Init, NoRun, RunAt, NoJob, NewCall, NewUpload, NoEvent
<1>2. Provenance
  BY <1>1 DEF Provenance, Created, NoStatus
<1>3. Planned /\ SnapshotsFresh
  BY <1>1 DEF Planned, SnapshotsFresh
<1> QED BY <1>2, <1>3, TypeInit DEF IInv

LEMMA NextIInv == IInv /\ [Next]_vars => IInv'
  BY TypeNext, ProvenanceNext, SnapshotsNext DEF IInv

LEMMA AlwaysIInv == Spec => []IInv
  BY InitIInv, NextIInv, PTL DEF Spec

(* Every state is well typed: in particular no step leaves the status      *)
(* enumeration, and every job and event belongs to a task.                 *)
THEOREM TypeCorrect == Spec => []TypeOK
<1>1. IInv => TypeOK
  BY DEF IInv
<1> QED BY <1>1, AlwaysIInv, PTL

(* A version number that a transaction has read stands for one status for  *)
(* as long as the transaction holds it.                                    *)
THEOREM NoStaleCommit == Spec => []SnapshotsFresh
<1>1. IInv => SnapshotsFresh
  BY DEF IInv
<1> QED BY <1>1, AlwaysIInv, PTL

LegalStep ==
    \A t \in Tasks :
        /\ status'[t] # status[t] =>
              \/ status[t] = NoStatus /\ status'[t] = "QUEUED"
              \/ status[t] # NoStatus /\ canTransit(status[t], status'[t])
        /\ version'[t] = version[t] + CountIf(status'[t] # status[t])

LEMMA LegalNext == IInv /\ [Next]_vars => LegalStep
<1> SUFFICES ASSUME IInv, [Next]_vars, NEW t \in Tasks
             PROVE  /\ status'[t] # status[t] =>
                          \/ status[t] = NoStatus /\ status'[t] = "QUEUED"
                          \/ status[t] # NoStatus /\ canTransit(status[t], status'[t])
                    /\ version'[t] = version[t] + CountIf(status'[t] # status[t])
    BY DEF LegalStep
<1>1. TaskStep(t) /\ version[t] \in Nat /\ status[t] \in TaskStatus \cup {NoStatus}
  BY TaskStepNext DEF IInv, TypeOK
<1>2. CASE status'[t] = status[t] /\ version'[t] = version[t]
  BY <1>1, <1>2 DEF CountIf
<1>3. CASE /\ version'[t] = version[t] + 1
           /\ \/ ~Created(t) /\ status'[t] = "QUEUED"
              \/ Created(t) /\ canTransit(status[t], status'[t])
  <2>1. status'[t] # status[t]
    BY <1>1, <1>3 DEF Created, NoStatus, canTransit, STATUS_TRANSITION_MAP, TaskStatus
  <2> QED BY <1>3, <2>1 DEF CountIf, Created
<1> QED BY <1>1, <1>2, <1>3 DEF TaskStep

LEMMA LegalSteps == TransitionsLegal <=> [][LegalStep]_vars
  BY DEF TransitionsLegal, LegalStep

(* Every status change is an edge of STATUS_TRANSITION_MAP and costs one   *)
(* version, whoever makes it: createTask, a user's cancel or retry,        *)
(* advanceTask or markTaskFailed.                                          *)
THEOREM LegalTransitions == Spec => TransitionsLegal
<1>1. IInv /\ [Next]_vars => [LegalStep]_vars
  BY LegalNext
<1> QED BY <1>1, LegalSteps, AlwaysIInv, PTL DEF Spec

-----------------------------------------------------------------------------
(* The usage ledger.  SettledStep says what a step may do to a task's      *)
(* status, ledger rows and retry count together; LedgerSettled is then     *)
(* inductive relative to IInv.                                             *)

SettledStep(t) ==
    \/ status'[t] = status[t] /\ ledger'[t] = ledger[t] /\ attempt'[t] = attempt[t]
    \/ /\ ~Created(t) /\ status'[t] = "QUEUED"
       /\ ledger'[t] = ledger[t] \cup {Held} /\ attempt'[t] = attempt[t]
    \/ /\ status[t] \in CANCELABLE_STATUS /\ status'[t] = "CANCELED"
       /\ ledger'[t] = ledger[t] \cup {ReleasedCancel} /\ attempt'[t] = attempt[t]
    \/ /\ status[t] = "FAILED" /\ status'[t] = "QUEUED"
       /\ ledger'[t] = ledger[t] /\ attempt'[t] = attempt[t] + 1
    \/ /\ status[t] \in DOMAIN StepTarget /\ status'[t] = StepTarget[status[t]]
       /\ ledger'[t] = IF status'[t] = "SUCCEEDED" THEN ledger[t] \cup {Committed} ELSE ledger[t]
       /\ attempt'[t] = attempt[t]
    \/ /\ Created(t) /\ status[t] \notin TERMINAL_STATUS /\ status'[t] = "FAILED"
       /\ ledger'[t] = ledger[t] \cup {ReleasedFailure} /\ attempt'[t] = attempt[t]

LEMMA SettledStepNext == IInv /\ [Next]_vars => \A t \in Tasks : SettledStep(t)
<1> SUFFICES ASSUME IInv, [Next]_vars, NEW t \in Tasks PROVE SettledStep(t)
    OBVIOUS
<1>0. /\ status \in [Tasks -> TaskStatus \cup {NoStatus}] /\ attempt \in [Tasks -> Nat]
      /\ ledger \in [Tasks -> SUBSET LedgerRow]
  BY DEF IInv, TypeOK
<1>a. UNCHANGED <<status, ledger, attempt>> => SettledStep(t)
  BY DEF SettledStep
<1>1. ASSUME NEW s \in Tasks, CreateTask(s) PROVE SettledStep(t)
  BY <1>0, <1>1 DEF CreateTask, AppendLedger, SettledStep, Created
<1>2. ASSUME NEW r \in Requests, ActionCommit(r) PROVE SettledStep(t)
  <2> DEFINE c  == request[r]
             to == ActionTarget(c.action)
  <2>1. c.task \in Tasks /\ c.action \in TaskActionType
    BY DEF IInv, TypeOK, Call
  <2>2. status[c.task] = c.st /\ ActionAllowed(c.action, c.st)
    BY <1>2, CommitMatches DEF ActionCommit, IInv, Planned
  <2>3. /\ status' = [status EXCEPT ![c.task] = to]
        /\ ledger' = [ledger EXCEPT ![c.task] = @ \cup PostTransitionLedger(to)]
        /\ attempt' = [attempt EXCEPT ![c.task] = IF to = "QUEUED" THEN @ + 1 ELSE @]
    BY <1>2 DEF ActionCommit, SetStatus, AppendLedger
  <2>4. \/ to = "CANCELED" /\ c.st \in CANCELABLE_STATUS /\ PostTransitionLedger(to) = {ReleasedCancel}
        \/ to = "QUEUED" /\ c.st = "FAILED" /\ PostTransitionLedger(to) = {}
    BY <2>1, <2>2 DEF ActionTarget, TaskActionType, ActionAllowed, PostTransitionLedger
  <2> HIDE DEF c, to
  <2> QED BY <1>0, <2>1, <2>2, <2>3, <2>4 DEF SettledStep
<1>3. ASSUME NEW j \in JobId, StepCommit(j) PROVE SettledStep(t)
  <2>1. status[Owner(j)] = run[j].st /\ run[j].st \in DOMAIN StepTarget
    BY <1>3, CommitMatches DEF StepCommit, IInv, Planned
  <2>2. status' = [status EXCEPT ![Owner(j)] = StepTarget[run[j].st]] /\ UNCHANGED attempt
    BY <1>3 DEF StepCommit, SetStatus
  <2>3. IF StepTarget[run[j].st] = "SUCCEEDED"
        THEN ledger' = [ledger EXCEPT ![Owner(j)] = @ \cup {Committed}]
        ELSE UNCHANGED ledger
    BY <1>3 DEF StepCommit, AppendLedger
  <2> QED BY <1>0, <2>1, <2>2, <2>3, OwnerIn DEF SettledStep
<1>4. ASSUME NEW j \in JobId, FailCommit(j) PROVE SettledStep(t)
  <2>1. status[Owner(j)] = run[j].st /\ run[j].st \notin TERMINAL_STATUS /\ run[j].st # NoStatus
    BY <1>4, CommitMatches DEF FailCommit, IInv, Planned
  <2> QED BY <1>0, <1>4, <2>1, OwnerIn DEF FailCommit, SetStatus, AppendLedger, SettledStep, Created
<1>5. CASE ApiStep
  <2>1. ASSUME NEW r \in Requests, CallStep(r), ~ActionCommit(r)
        PROVE  UNCHANGED <<status, ledger, attempt>>
    BY <2>1 DEF CallStep, ReadForAction, ActionConflict, RememberInvalid, dbVars
  <2> QED
    BY <1>a, <1>1, <1>2, <1>5, <2>1 DEF ApiStep, CheckIdempotency, UploadRead, UploadCommit, dbVars
<1>6. CASE DispatcherStep \/ DispatcherError
  BY <1>a, <1>6 DEF DispatcherStep, DispatcherError, Poll, DispatchAdd, DispatchMark,
     DispatchDeadletter, DispatchFail, DispatchAbort, dbVars
<1>7. CASE \E j \in JobId : WorkerStep(j) \/ WorkerError(j)
  BY <1>a, <1>3, <1>4, <1>7 DEF WorkerStep, WorkerError, TakeJob, ReadTask, DetectInput,
     StepConflict, Park, CompleteJob, FailRead, FailConflict, FinalDeadletter, StepRejected,
     AttemptFailed, FailSwallowed, DeadletterLost, dbVars
<1>8. CASE Crash \/ UNCHANGED vars
  BY <1>a, <1>8 DEF Crash, vars, dbVars
<1> QED BY <1>5, <1>6, <1>7, <1>8 DEF Next

LEMMA LedgerSettledInit == Init => LedgerSettled
  BY DEF Init, LedgerSettled, NoStatus

LEMMA LedgerSettledNext == IInv /\ LedgerSettled /\ [Next]_vars => LedgerSettled'
<1> SUFFICES ASSUME IInv, LedgerSettled, [Next]_vars, NEW t \in Tasks
             PROVE  /\ Held \in ledger'[t]            <=> status'[t] # NoStatus
                    /\ Committed \in ledger'[t]       <=> status'[t] = "SUCCEEDED"
                    /\ ReleasedCancel \in ledger'[t]  <=> status'[t] = "CANCELED"
                    /\ ReleasedFailure \in ledger'[t] <=> status'[t] = "FAILED" \/ attempt'[t] > 0
    BY DEF LedgerSettled
<1>1. /\ Held \in ledger[t]            <=> status[t] # NoStatus
      /\ Committed \in ledger[t]       <=> status[t] = "SUCCEEDED"
      /\ ReleasedCancel \in ledger[t]  <=> status[t] = "CANCELED"
      /\ ReleasedFailure \in ledger[t] <=> status[t] = "FAILED" \/ attempt[t] > 0
  BY DEF LedgerSettled
<1>2. attempt[t] \in Nat /\ status[t] \in TaskStatus \cup {NoStatus}
  BY DEF IInv, TypeOK
<1>3. SettledStep(t)
  BY SettledStepNext
<1> QED
  BY <1>1, <1>2, <1>3 DEF SettledStep, Created, NoStatus, CANCELABLE_STATUS, TERMINAL_STATUS,
     StepTarget, Held, Committed, ReleasedCancel, ReleasedFailure

(* A task's ledger rows tell its fate: held from its creation on, and      *)
(* committed, released by cancel or released by failure exactly when its   *)
(* status (or, after a retry, its history) says so.                        *)
THEOREM LedgerTellsFate == Spec => []LedgerSettled
  BY LedgerSettledInit, LedgerSettledNext, AlwaysIInv, PTL DEF Spec

-----------------------------------------------------------------------------
(* The outbox as a history.  A step either leaves every row's type and     *)
(* task alone, or it writes the one next row; and whenever it settles a    *)
(* task, it posts that outcome's event in the same instant.                *)

SameEvents ==
    /\ nextEvent' = nextEvent
    /\ \A e \in EventId : outbox'[e].type = outbox[e].type /\ outbox'[e].task = outbox[e].task

Move(t, to, rows, type) ==
    /\ status' = [status EXCEPT ![t] = to]
    /\ ledger' = [ledger EXCEPT ![t] = @ \cup rows]
    /\ Emit(type, t)

Quiet == SameEvents /\ UNCHANGED <<status, ledger, attempt>>

Masked == (\E t \in Tasks : Emit("task.masked", t)) /\ UNCHANGED <<status, ledger, attempt>>

Progressed ==
    /\ SameEvents /\ UNCHANGED <<ledger, attempt>>
    /\ \E t \in Tasks : /\ status[t] \in DOMAIN StepTarget /\ StepTarget[status[t]] # "SUCCEEDED"
                        /\ status' = [status EXCEPT ![t] = StepTarget[status[t]]]

WriteCreated(t)  == ~Created(t) /\ Move(t, "QUEUED", {Held}, "task.created") /\ UNCHANGED attempt
WriteCanceled(t) == /\ status[t] \in CANCELABLE_STATUS /\ UNCHANGED attempt
                /\ Move(t, "CANCELED", {ReleasedCancel}, "task.canceled")
WriteRetried(t)  == /\ status[t] = "FAILED" /\ attempt' = [attempt EXCEPT ![t] = @ + 1]
                /\ Move(t, "QUEUED", {}, "task.retried")
WriteSucceeded(t) == /\ status[t] = "PACKAGING" /\ UNCHANGED attempt
                 /\ Move(t, "SUCCEEDED", {Committed}, "task.succeeded")
WriteFailed(t)   == /\ Created(t) /\ status[t] \notin TERMINAL_STATUS /\ UNCHANGED attempt
                /\ Move(t, "FAILED", {ReleasedFailure}, "task.failed")

Moved == \E t \in Tasks : WriteCreated(t) \/ WriteCanceled(t) \/ WriteRetried(t) \/ WriteSucceeded(t) \/ WriteFailed(t)

HistoryStep == Quiet \/ Masked \/ Progressed \/ Moved

LEMMA HistoryStepNext == IInv /\ [Next]_vars => HistoryStep
<1> SUFFICES ASSUME IInv, [Next]_vars PROVE HistoryStep
    OBVIOUS
<1>0. /\ status \in [Tasks -> TaskStatus \cup {NoStatus}] /\ attempt \in [Tasks -> Nat]
      /\ ledger \in [Tasks -> SUBSET LedgerRow] /\ outbox \in [EventId -> EventRow]
  BY DEF IInv, TypeOK
<1>a. UNCHANGED <<status, ledger, attempt, outbox, nextEvent>> => HistoryStep
  BY DEF HistoryStep, Quiet, SameEvents
<1>1. ASSUME NEW t \in Tasks, CreateTask(t) PROVE HistoryStep
  <2>1. WriteCreated(t)
    BY <1>1 DEF CreateTask, AppendLedger, WriteCreated, Created, Move
  <2> QED BY <2>1 DEF HistoryStep, Moved
<1>2. ASSUME NEW r \in Requests, ActionCommit(r) PROVE HistoryStep
  <2> DEFINE c  == request[r]
             to == ActionTarget(c.action)
  <2>1. c.task \in Tasks /\ c.action \in TaskActionType
    BY DEF IInv, TypeOK, Call
  <2>2. status[c.task] = c.st /\ ActionAllowed(c.action, c.st)
    BY <1>2, CommitMatches DEF ActionCommit, IInv, Planned
  <2>3. /\ Move(c.task, to, PostTransitionLedger(to), PostTransitionEvent(c.st, to))
        /\ attempt' = [attempt EXCEPT ![c.task] = IF to = "QUEUED" THEN @ + 1 ELSE @]
    BY <1>2 DEF ActionCommit, SetStatus, AppendLedger, Move
  <2>4. \/ /\ to = "CANCELED" /\ c.st \in CANCELABLE_STATUS
           /\ PostTransitionLedger(to) = {ReleasedCancel}
           /\ PostTransitionEvent(c.st, to) = "task.canceled"
        \/ /\ to = "QUEUED" /\ c.st = "FAILED" /\ PostTransitionLedger(to) = {}
           /\ PostTransitionEvent(c.st, to) = "task.retried"
    BY <2>1, <2>2 DEF ActionTarget, TaskActionType, ActionAllowed, PostTransitionLedger,
       PostTransitionEvent
  <2>5. to = "CANCELED" => UNCHANGED attempt
    BY <1>0, <2>1, <2>3
  <2> HIDE DEF c, to
  <2>6. WriteCanceled(c.task) \/ WriteRetried(c.task)
    BY <2>1, <2>2, <2>3, <2>4, <2>5 DEF WriteCanceled, WriteRetried
  <2> QED BY <2>1, <2>6 DEF HistoryStep, Moved
<1>3. ASSUME NEW u \in Uploads, UploadCommit(u) PROVE HistoryStep
  <2>1. upload[u].task \in Tasks
    BY DEF IInv, TypeOK, UploadRow
  <2>2. UNCHANGED <<status, ledger, attempt>>
    BY <1>3 DEF UploadCommit
  <2>3. UNCHANGED <<outbox, nextEvent>> \/ Emit("task.masked", upload[u].task)
    BY <1>3 DEF UploadCommit
  <2> QED BY <1>a, <2>1, <2>2, <2>3 DEF HistoryStep, Masked
<1>4. ASSUME NEW j \in JobId, StepCommit(j) PROVE HistoryStep
  <2> DEFINE t  == Owner(j)
             to == StepTarget[status[t]]
  <2>1. status[t] = run[j].st /\ status[t] \in DOMAIN StepTarget /\ t \in Tasks
    BY <1>4, CommitMatches, OwnerIn DEF StepCommit, IInv, Planned
  <2>2. status' = [status EXCEPT ![t] = to] /\ UNCHANGED attempt
    BY <1>4, <2>1 DEF StepCommit, SetStatus
  <2>3. CASE to = "SUCCEEDED"
    <3>1. status[t] = "PACKAGING"
      BY <2>1, <2>3 DEF StepTarget
    <3>2. Move(t, "SUCCEEDED", {Committed}, "task.succeeded")
      BY <1>4, <2>1, <2>2, <2>3 DEF StepCommit, AppendLedger, Move
    <3> QED BY <2>1, <2>2, <3>1, <3>2 DEF HistoryStep, Moved, WriteSucceeded
  <2>4. CASE to # "SUCCEEDED"
    <3>1. UNCHANGED <<ledger, outbox, nextEvent>>
      BY <1>4, <2>1, <2>4 DEF StepCommit
    <3> QED BY <2>1, <2>2, <2>4, <3>1 DEF HistoryStep, Progressed, SameEvents
  <2> QED BY <2>3, <2>4
<1>5. ASSUME NEW j \in JobId, FailCommit(j) PROVE HistoryStep
  <2>1. /\ status[Owner(j)] = run[j].st /\ run[j].st \notin TERMINAL_STATUS
        /\ run[j].st # NoStatus /\ Owner(j) \in Tasks
    BY <1>5, CommitMatches, OwnerIn DEF FailCommit, IInv, Planned
  <2>2. WriteFailed(Owner(j))
    BY <1>5, <2>1 DEF FailCommit, SetStatus, AppendLedger, WriteFailed, Move, Created
  <2> QED BY <2>1, <2>2 DEF HistoryStep, Moved
<1>6. ASSUME NEW x \in disp.batch, DispatchMark(x) \/ DispatchFail(x) PROVE HistoryStep
  <2>1. UNCHANGED <<status, ledger, attempt, nextEvent>>
    BY <1>6 DEF DispatchMark, DispatchFail
  <2>2. ASSUME NEW e \in EventId
        PROVE  outbox'[e].type = outbox[e].type /\ outbox'[e].task = outbox[e].task
    <3>1. CASE DispatchMark(x)
      <4>1. outbox'[e] = outbox[e] \/ outbox'[e] = [outbox[e] EXCEPT !.status = "PUBLISHED"]
        BY <1>0, <3>1, BatchOwner DEF DispatchMark
      <4> QED BY <1>0, <4>1 DEF EventRow
    <3>2. CASE DispatchFail(x)
      <4> DEFINE n  == x.retryCount + 1
                 st == IF n > OutboxMaxRetries THEN "DEAD" ELSE outbox[x.id].status
      <4>1. outbox' = [outbox EXCEPT ![x.id] = [@ EXCEPT !.status = st, !.retryCount = n]]
        BY <3>2 DEF DispatchFail
      <4> HIDE DEF n, st
      <4>2. outbox'[e] = outbox[e] \/ outbox'[e] = [outbox[e] EXCEPT !.status = st, !.retryCount = n]
        BY <1>0, <4>1, BatchOwner
      <4> QED BY <1>0, <4>2 DEF EventRow
    <3> QED BY <1>6, <3>1, <3>2
  <2> QED BY <2>1, <2>2 DEF HistoryStep, Quiet, SameEvents
<1>7. CASE ApiStep
  <2>1. ASSUME NEW r \in Requests, CallStep(r), ~ActionCommit(r) PROVE HistoryStep
    BY <1>a, <2>1 DEF CallStep, ReadForAction, ActionConflict, RememberInvalid, dbVars
  <2> QED
    BY <1>a, <1>1, <1>2, <1>3, <1>7, <2>1 DEF ApiStep, CheckIdempotency, UploadRead, dbVars
<1>8. CASE DispatcherStep \/ DispatcherError
  BY <1>a, <1>6, <1>8 DEF DispatcherStep, DispatcherError, Poll, DispatchAdd,
     DispatchDeadletter, DispatchAbort, dbVars
<1>9. CASE \E j \in JobId : WorkerStep(j) \/ WorkerError(j)
  BY <1>a, <1>4, <1>5, <1>9 DEF WorkerStep, WorkerError, TakeJob, ReadTask, DetectInput,
     StepConflict, Park, CompleteJob, FailRead, FailConflict, FinalDeadletter, StepRejected,
     AttemptFailed, FailSwallowed, DeadletterLost, dbVars
<1>10. CASE Crash \/ UNCHANGED vars
  BY <1>a, <1>10 DEF Crash, vars, dbVars
<1> QED BY <1>7, <1>8, <1>9, <1>10 DEF Next

-----------------------------------------------------------------------------
(* No row is written twice: rows from nextEvent on are still empty. *)

Unwritten == \A e \in EventId : e >= nextEvent => outbox[e].type = NoEventType

LEMMA UnwrittenNext == IInv /\ Unwritten /\ [Next]_vars => Unwritten'
<1> SUFFICES ASSUME IInv, Unwritten, [Next]_vars PROVE Unwritten'
    OBVIOUS
<1>0. outbox \in [EventId -> EventRow] /\ nextEvent \in Nat \ {0} /\ EventId \subseteq Nat
  BY EventIdAssumption DEF IInv, TypeOK
<1>1. ASSUME NEW type, NEW t \in Tasks, Emit(type, t) PROVE Unwritten'
  BY <1>0, <1>1 DEF Emit, Unwritten
<1>2. SameEvents => Unwritten'
  BY DEF SameEvents, Unwritten
<1> QED
  BY <1>1, <1>2, HistoryStepNext DEF HistoryStep, Quiet, Masked, Progressed, Moved, WriteCreated,
     WriteCanceled, WriteRetried, WriteSucceeded, WriteFailed, Move

LEMMA AlwaysUnwritten == Spec => [](IInv /\ Unwritten)
<1>1. Init => Unwritten
  BY DEF Init, Unwritten, NoEvent
<1> QED BY <1>1, InitIInv, NextIInv, UnwrittenNext, PTL DEF Spec

LEMMA EventsFinite ==
    ASSUME IInv, NEW t, NEW type
    PROVE  IsFiniteSet(EventsOf(t, type)) /\ Cardinality(EventsOf(t, type)) \in Nat
<1>0. nextEvent \in Nat
  BY DEF IInv, TypeOK
<1>1. EventsOf(t, type) \in SUBSET Nat
  BY EventIdAssumption DEF EventsOf
<1>2. \A e \in EventsOf(t, type) : e <= nextEvent
  BY <1>0, EventIdAssumption DEF EventsOf
<1> QED BY <1>0, <1>1, <1>2, FS_BoundedSetOfNaturals, FS_CardinalityType

LEMMA EventsSame ==
    ASSUME SameEvents, NEW t, NEW type
    PROVE  EventsOf(t, type)' = EventsOf(t, type)
  BY DEF SameEvents, EventsOf

(* A new row adds one to its own kind and nothing to any other. *)
LEMMA EventsEmit ==
    ASSUME IInv, NEW s \in Tasks, NEW kind, Emit(kind, s), NEW t, NEW type
    PROVE  Cardinality(EventsOf(t, type)') =
             Cardinality(EventsOf(t, type)) + CountIf(t = s /\ type = kind)
<1>0. /\ outbox \in [EventId -> EventRow] /\ nextEvent \in Nat \ {0} /\ EventId \subseteq Nat
      /\ nextEvent \in EventId
  BY EventIdAssumption DEF IInv, TypeOK, Emit
<1>1. /\ outbox'[nextEvent].type = kind /\ outbox'[nextEvent].task = s
      /\ nextEvent' = nextEvent + 1
      /\ \A e \in EventId : e # nextEvent => outbox'[e] = outbox[e]
  BY <1>0 DEF Emit
<1>2. \A e \in EventId : e < nextEvent' <=> e < nextEvent \/ e = nextEvent
  BY <1>0, <1>1
<1>3. nextEvent \notin EventsOf(t, type)
  BY <1>0 DEF EventsOf
<1>4. CASE t = s /\ type = kind
  <2>1. EventsOf(t, type)' = EventsOf(t, type) \cup {nextEvent}
    BY <1>0, <1>1, <1>2, <1>4 DEF EventsOf
  <2> QED BY <1>3, <1>4, <2>1, EventsFinite, FS_AddElement DEF CountIf
<1>5. CASE ~(t = s /\ type = kind)
  <2>1. \A e \in EventId : e < nextEvent' /\ outbox'[e].type = type /\ outbox'[e].task = t
                       <=> e < nextEvent /\ outbox[e].type = type /\ outbox[e].task = t
    BY <1>0, <1>1, <1>2, <1>5
  <2>2. EventsOf(t, type)' = EventsOf(t, type)
    BY <2>1 DEF EventsOf
  <2> QED BY <1>5, <2>2, EventsFinite DEF CountIf
<1> QED BY <1>4, <1>5

LEMMA OutcomesInit == Init => OutcomesAnnouncedOnce
<1> SUFFICES ASSUME Init PROVE OutcomesAnnouncedOnce
    OBVIOUS
<1>1. \A t, type : EventsOf(t, type) = {}
  <2>1. nextEvent = 1 /\ \A e \in EventId : ~(e < 1)
    BY EventIdAssumption DEF Init
  <2> QED BY <2>1 DEF EventsOf
<1>2. \A t \in Tasks : status[t] = NoStatus /\ attempt[t] = 0
  BY DEF Init
<1> QED BY <1>1, <1>2, FS_EmptySet DEF OutcomesAnnouncedOnce, CountIf, NoStatus

LEMMA OutcomesNext == IInv /\ OutcomesAnnouncedOnce /\ [Next]_vars => OutcomesAnnouncedOnce'
<1> SUFFICES ASSUME IInv, OutcomesAnnouncedOnce, [Next]_vars, NEW t \in Tasks
             PROVE  /\ Cardinality(EventsOf(t, "task.created")')   = CountIf(status'[t] # NoStatus)
                    /\ Cardinality(EventsOf(t, "task.succeeded")') = CountIf(status'[t] = "SUCCEEDED")
                    /\ Cardinality(EventsOf(t, "task.canceled")')  = CountIf(status'[t] = "CANCELED")
                    /\ Cardinality(EventsOf(t, "task.retried")')   = attempt'[t]
                    /\ Cardinality(EventsOf(t, "task.failed")')    =
                          attempt'[t] + CountIf(status'[t] = "FAILED")
    BY DEF OutcomesAnnouncedOnce
<1>0. /\ Cardinality(EventsOf(t, "task.created"))   = CountIf(status[t] # NoStatus)
      /\ Cardinality(EventsOf(t, "task.succeeded")) = CountIf(status[t] = "SUCCEEDED")
      /\ Cardinality(EventsOf(t, "task.canceled"))  = CountIf(status[t] = "CANCELED")
      /\ Cardinality(EventsOf(t, "task.retried"))   = attempt[t]
      /\ Cardinality(EventsOf(t, "task.failed"))    = attempt[t] + CountIf(status[t] = "FAILED")
  BY DEF OutcomesAnnouncedOnce
<1>1. /\ status \in [Tasks -> TaskStatus \cup {NoStatus}] /\ attempt \in [Tasks -> Nat]
  BY DEF IInv, TypeOK
<1>2. CASE Quiet
  BY <1>0, <1>2, EventsSame DEF Quiet
<1>3. CASE Masked
  <2>1. PICK s \in Tasks : Emit("task.masked", s)
    BY <1>3 DEF Masked
  <2>2. \A type : type # "task.masked" => CountIf(t = s /\ type = "task.masked") = 0
    BY DEF CountIf
  <2>3. \A type : type # "task.masked" => Cardinality(EventsOf(t, type)') = Cardinality(EventsOf(t, type))
    BY <2>1, <2>2, EventsEmit, EventsFinite
  <2> QED BY <1>0, <1>3, <2>3 DEF Masked
<1>4. CASE Progressed
  <2>1. PICK s \in Tasks : /\ status[s] \in DOMAIN StepTarget /\ StepTarget[status[s]] # "SUCCEEDED"
                           /\ status' = [status EXCEPT ![s] = StepTarget[status[s]]]
    BY <1>4 DEF Progressed
  <2>2. /\ status'[t] # NoStatus <=> status[t] # NoStatus
        /\ status'[t] = "SUCCEEDED" <=> status[t] = "SUCCEEDED"
        /\ status'[t] = "CANCELED" <=> status[t] = "CANCELED"
        /\ status'[t] = "FAILED" <=> status[t] = "FAILED"
    BY <1>1, <2>1 DEF StepTarget, NoStatus
  <2>3. attempt'[t] = attempt[t] /\ SameEvents
    BY <1>4 DEF Progressed
  <2> QED BY <1>0, <2>2, <2>3, EventsSame DEF CountIf
<1>5. ASSUME NEW s \in Tasks, NEW to, NEW rows, NEW kind, Move(s, to, rows, kind)
      PROVE  /\ \A type : Cardinality(EventsOf(t, type)') =
                            Cardinality(EventsOf(t, type)) + CountIf(t = s /\ type = kind)
             /\ status'[t] = IF t = s THEN to ELSE status[t]
  BY <1>1, <1>5, EventsEmit DEF Move
<1>6. CASE Moved
  <2>1. PICK s \in Tasks : WriteCreated(s) \/ WriteCanceled(s) \/ WriteRetried(s) \/ WriteSucceeded(s) \/ WriteFailed(s)
    BY <1>6 DEF Moved
  <2>2. CASE t # s
    <3>1. PICK kind : /\ \A type : Cardinality(EventsOf(t, type)') =
                            Cardinality(EventsOf(t, type)) + CountIf(t = s /\ type = kind)
                      /\ status'[t] = status[t]
      BY <2>1, <2>2, <1>5 DEF WriteCreated, WriteCanceled, WriteRetried, WriteSucceeded, WriteFailed
    <3>2. attempt'[t] = attempt[t]
      BY <1>1, <2>1, <2>2 DEF WriteCreated, WriteCanceled, WriteRetried, WriteSucceeded, WriteFailed
    <3>3. \A type : Cardinality(EventsOf(t, type)') = Cardinality(EventsOf(t, type))
      BY <2>2, <3>1, EventsFinite DEF CountIf
    <3> QED BY <1>0, <3>1, <3>2, <3>3
  <2>3. CASE t = s
    <3>1. ASSUME NEW to, NEW rows, NEW kind, Move(s, to, rows, kind)
          PROVE  /\ \A type : Cardinality(EventsOf(t, type)') =
                                Cardinality(EventsOf(t, type)) + CountIf(type = kind)
                 /\ status'[t] = to
      BY <1>5, <2>3, <3>1
    <3>2. attempt[t] \in Nat /\ status[t] \in TaskStatus \cup {NoStatus}
      BY <1>1
    <3>3. CASE WriteCreated(s)
      BY <1>0, <2>3, <3>1, <3>2, <3>3 DEF WriteCreated, Created, CountIf, NoStatus
    <3>4. CASE WriteCanceled(s)
      BY <1>0, <2>3, <3>1, <3>2, <3>4 DEF WriteCanceled, CANCELABLE_STATUS, CountIf, NoStatus
    <3>5. CASE WriteRetried(s)
      <4>1. attempt'[t] = attempt[t] + 1
        BY <1>1, <2>3, <3>5 DEF WriteRetried
      <4> QED BY <1>0, <2>3, <3>1, <3>2, <3>5, <4>1 DEF WriteRetried, CountIf, NoStatus
    <3>6. CASE WriteSucceeded(s)
      BY <1>0, <2>3, <3>1, <3>2, <3>6 DEF WriteSucceeded, CountIf, NoStatus
    <3>7. CASE WriteFailed(s)
      BY <1>0, <2>3, <3>1, <3>2, <3>7 DEF WriteFailed, Created, TERMINAL_STATUS, CountIf, NoStatus
    <3> QED BY <2>1, <3>3, <3>4, <3>5, <3>6, <3>7
  <2> QED BY <2>2, <2>3
<1> QED BY <1>2, <1>3, <1>4, <1>6, HistoryStepNext DEF HistoryStep

(* Every outcome of a task has been written to the outbox exactly once,    *)
(* and every failure and every retry as often as it happened, whoever      *)
(* brought it about.                                                       *)
THEOREM EveryOutcomeAnnounced == Spec => []OutcomesAnnouncedOnce
  BY OutcomesInit, OutcomesNext, AlwaysIInv, PTL DEF Spec

-----------------------------------------------------------------------------
(* TaskContract.  Under the mapping each write of the outbox's history is  *)
(* one step of the contract or invisible to it.  Beside the invariant this *)
(* needs that the ledger tells the task's fate, that the next row of the   *)
(* outbox is blank, and that only a created task has been retried.         *)

Unstarted == \A t \in Tasks : ~Created(t) => attempt[t] = 0

CInv == IInv /\ Unwritten /\ LedgerSettled /\ Unstarted

LEMMA UnstartedNext == IInv /\ Unstarted /\ [Next]_vars => Unstarted'
<1> SUFFICES ASSUME IInv, Unstarted, [Next]_vars, NEW t \in Tasks
             PROVE  status'[t] = NoStatus => attempt'[t] = 0
    BY DEF Unstarted, Created
<1>0. /\ status \in [Tasks -> TaskStatus \cup {NoStatus}] /\ attempt \in [Tasks -> Nat]
  BY DEF IInv, TypeOK
<1>1. status'[t] = NoStatus => status[t] = NoStatus
  BY TaskMonotone DEF Created
<1>2. attempt'[t] = attempt[t] \/ status[t] = "FAILED"
  BY <1>0, HistoryStepNext DEF HistoryStep, Quiet, Masked, Progressed, Moved, WriteCreated,
     WriteCanceled, WriteRetried, WriteSucceeded, WriteFailed
<1> QED BY <1>1, <1>2 DEF Unstarted, Created, NoStatus

LEMMA AlwaysCInv == Spec => []CInv
<1>1. Init => Unstarted
  BY DEF Init, Unstarted
<1>2. Spec => []LedgerSettled
  BY LedgerTellsFate
<1>3. Spec => [](IInv /\ Unwritten)
  BY AlwaysUnwritten
<1>4. Spec => []Unstarted
  BY <1>1, AlwaysIInv, UnstartedNext, PTL DEF Spec
<1> QED BY <1>2, <1>3, <1>4, PTL DEF CInv

(* The contract's variables as the pipeline shows them. *)
Phases  == [t \in Tasks |-> PhaseOf(status[t])]
Charges == [t \in Tasks |-> ChargeOf(ledger[t])]
Notices == [e \in EventId |-> NoticeOf(outbox[e])]

LEMMA NoticesSame ==
    ASSUME SameEvents PROVE Notices' = Notices
  BY DEF SameEvents, Notices, NoticeOf

LEMMA NoticesEmit ==
    ASSUME CInv, NEW type \in EventType, NEW t \in Tasks, Emit(type, t)
    PROVE  /\ nextEvent \in EventId /\ Notices[nextEvent] = Contract!Blank
           /\ type \in TriggerEvent => Notices' = Notices
           /\ Notices' = [Notices EXCEPT ![nextEvent] =
                             NoticeOf([type |-> type, task |-> t, status |-> "PENDING", retryCount |-> 0])]
<1>0. /\ outbox \in [EventId -> EventRow] /\ nextEvent \in Nat /\ nextEvent \in EventId
      /\ outbox[nextEvent].type = NoEventType
  BY DEF CInv, IInv, TypeOK, Emit, Unwritten
<1>1. Notices[nextEvent] = Contract!Blank
  BY <1>0 DEF Notices, NoticeOf, Contract!Blank, AnyTask, NoEventType, NoticeEvent
<1> DEFINE row == [type |-> type, task |-> t, status |-> "PENDING", retryCount |-> 0]
<1>2. outbox' = [outbox EXCEPT ![nextEvent] = row]
  BY DEF Emit
<1>3. row.type = type /\ row.task = t
  OBVIOUS
<1>4. Notices' = [Notices EXCEPT ![nextEvent] = NoticeOf(row)]
  <2> HIDE DEF row
  <2> QED BY <1>0, <1>2 DEF Notices
<1>5. type \in TriggerEvent => NoticeOf(row) = Contract!Blank
  BY <1>3 DEF TriggerEvent, NoticeOf, Contract!Blank, AnyTask, NoticeEvent
<1>6. type \in TriggerEvent => Notices' = Notices
  BY <1>1, <1>4, <1>5 DEF Notices
<1> QED BY <1>0, <1>1, <1>4, <1>6

LEMMA ContractInit == Init => Contract!Init
<1> SUFFICES ASSUME Init PROVE Contract!Init
    OBVIOUS
<1>1. \A t \in Tasks : PhaseOf(status[t]) = "none" /\ ChargeOf(ledger[t]) = "none"
  BY DEF Init, PhaseOf, ChargeOf, NoStatus
<1>2. \A e \in EventId : NoticeOf(outbox[e]) = Contract!Blank
  BY DEF Init, NoEvent, NoticeOf, Contract!Blank, AnyTask, NoEventType, NoticeEvent
<1> QED BY <1>1, <1>2 DEF Contract!Init

LEMMA EndStep ==
    ASSUME CInv, NEW t \in Tasks, NEW to, NEW rows, NEW type \in NoticeEvent,
           NEW outcome, Move(t, to, rows, type), PhaseOf(status[t]) = "running",
           PhaseOf(to) = outcome,
           ChargeOf(ledger[t] \cup rows) = IF outcome = "succeeded" THEN "charged" ELSE "released",
           NoticeOf([type |-> type, task |-> t, status |-> "PENDING", retryCount |-> 0])
             = [outcome |-> outcome, task |-> t]
    PROVE  Contract!End(t, outcome)
<1>0. /\ status \in [Tasks -> TaskStatus \cup {NoStatus}]
      /\ ledger \in [Tasks -> SUBSET LedgerRow] /\ type \in EventType
  BY DEF CInv, IInv, TypeOK, EventType
<1>1. Phases[t] = "running" /\ Phases' = [Phases EXCEPT ![t] = outcome]
  BY <1>0 DEF Phases, Move
<1>2. Charges' = [Charges EXCEPT ![t] = IF outcome = "succeeded" THEN "charged" ELSE "released"]
  BY <1>0 DEF Charges, Move
<1>3. /\ nextEvent \in EventId /\ Notices[nextEvent] = Contract!Blank
      /\ Notices' = [Notices EXCEPT ![nextEvent] = [outcome |-> outcome, task |-> t]]
  BY <1>0, NoticesEmit DEF Move
<1>4. Contract!Post(t, outcome)
  BY <1>3 DEF Contract!Post, Notices
<1> QED BY <1>1, <1>2, <1>4 DEF Contract!End, Phases, Charges

LEMMA ContractNext == CInv /\ [Next]_vars => [Contract!Next]_Contract!vars
<1> SUFFICES ASSUME CInv, [Next]_vars PROVE [Contract!Next]_Contract!vars
    OBVIOUS
<1>0. /\ status \in [Tasks -> TaskStatus \cup {NoStatus}]
      /\ ledger \in [Tasks -> SUBSET LedgerRow] /\ outbox \in [EventId -> EventRow]
  BY DEF CInv, IInv, TypeOK
<1>a. Phases' = Phases /\ Charges' = Charges /\ Notices' = Notices => UNCHANGED Contract!vars
  BY DEF Phases, Charges, Notices, Contract!vars
<1>b. \A t \in Tasks :
        /\ Held \in ledger[t]            <=> status[t] # NoStatus
        /\ Committed \in ledger[t]       <=> status[t] = "SUCCEEDED"
        /\ ReleasedCancel \in ledger[t]  <=> status[t] = "CANCELED"
        /\ ReleasedFailure \in ledger[t] <=> status[t] = "FAILED" \/ attempt[t] > 0
        /\ status[t] = NoStatus => attempt[t] = 0
  BY DEF CInv, LedgerSettled, Unstarted, Created
<1>1. CASE Quiet
  <2>1. UNCHANGED <<status, ledger>> /\ Notices' = Notices
    BY <1>1, NoticesSame DEF Quiet
  <2> QED BY <1>a, <2>1 DEF Phases, Charges
<1>2. CASE Masked
  <2>1. UNCHANGED <<status, ledger>> /\ Notices' = Notices
    BY <1>2, NoticesEmit DEF Masked, TriggerEvent, EventType
  <2> QED BY <1>a, <2>1 DEF Phases, Charges
<1>3. CASE Progressed
  <2>1. PICK t \in Tasks : /\ status[t] \in DOMAIN StepTarget /\ StepTarget[status[t]] # "SUCCEEDED"
                           /\ status' = [status EXCEPT ![t] = StepTarget[status[t]]]
    BY <1>3 DEF Progressed
  <2>2. PhaseOf(status[t]) = "running" /\ PhaseOf(StepTarget[status[t]]) = "running"
    BY <2>1 DEF StepTarget, PhaseOf, NoStatus
  <2>3. Phases' = Phases
    BY <1>0, <2>1, <2>2 DEF Phases
  <2>4. UNCHANGED ledger /\ Notices' = Notices
    BY <1>3, NoticesSame DEF Progressed
  <2> QED BY <1>a, <2>3, <2>4 DEF Charges
<1>4. ASSUME NEW t \in Tasks, WriteCreated(t) PROVE Contract!Next
  <2>1. status[t] = NoStatus /\ Move(t, "QUEUED", {Held}, "task.created")
    BY <1>4 DEF WriteCreated, Created
  <2>2. Phases[t] = "none" /\ Phases' = [Phases EXCEPT ![t] = "running"]
    BY <1>0, <2>1 DEF Phases, Move, PhaseOf, NoStatus
  <2>3. ChargeOf(ledger[t] \cup {Held}) = "reserved"
    <3>1. ~(0 > 0)
      OBVIOUS
    <3>2. Committed \notin ledger[t] /\ ReleasedCancel \notin ledger[t] /\ ReleasedFailure \notin ledger[t]
      BY <1>b, <2>1, <3>1 DEF NoStatus
    <3> QED BY <3>2 DEF ChargeOf, Held, Committed, ReleasedCancel, ReleasedFailure
  <2>4. Charges' = [Charges EXCEPT ![t] = "reserved"]
    BY <1>0, <2>1, <2>3 DEF Charges, Move
  <2>5. Notices' = Notices
    BY <2>1, NoticesEmit DEF Move, TriggerEvent, EventType
  <2>6. Contract!Start(t)
    BY <2>2, <2>4, <2>5 DEF Contract!Start, Phases, Charges, Notices
  <2> QED BY <2>6 DEF Contract!Next
<1>5. ASSUME NEW t \in Tasks, WriteRetried(t) PROVE Contract!Next
  <2>1. status[t] = "FAILED" /\ Move(t, "QUEUED", {}, "task.retried")
    BY <1>5 DEF WriteRetried
  <2>2. Phases[t] = "failed" /\ Phases' = [Phases EXCEPT ![t] = "running"]
    BY <1>0, <2>1 DEF Phases, Move, PhaseOf, NoStatus
  <2>3. Charges' = Charges
    BY <1>0, <2>1 DEF Charges, Move
  <2>4. Notices' = Notices
    BY <2>1, NoticesEmit DEF Move, TriggerEvent, EventType
  <2>5. Contract!Retry(t)
    BY <2>2, <2>3, <2>4 DEF Contract!Retry, Phases, Charges, Notices
  <2> QED BY <2>5 DEF Contract!Next
<1>6. ASSUME NEW t \in Tasks, WriteCanceled(t) PROVE Contract!Next
  <2>1. status[t] \in CANCELABLE_STATUS /\ Move(t, "CANCELED", {ReleasedCancel}, "task.canceled")
    BY <1>6 DEF WriteCanceled
  <2>2. PhaseOf(status[t]) = "running" /\ PhaseOf("CANCELED") = "canceled"
    BY <2>1 DEF CANCELABLE_STATUS, PhaseOf, NoStatus
  <2>3. ChargeOf(ledger[t] \cup {ReleasedCancel}) = "released"
    BY <1>b, <2>1 DEF CANCELABLE_STATUS, ChargeOf, Committed, ReleasedCancel
  <2>4. NoticeOf([type |-> "task.canceled", task |-> t, status |-> "PENDING", retryCount |-> 0])
          = [outcome |-> "canceled", task |-> t]
    BY DEF NoticeOf, NoticeEvent
  <2>5. Contract!End(t, "canceled")
    BY <2>1, <2>2, <2>3, <2>4, EndStep DEF NoticeEvent
  <2> QED BY <2>5 DEF Contract!Next, Contract!Outcome
<1>7. ASSUME NEW t \in Tasks, WriteSucceeded(t) PROVE Contract!Next
  <2>1. status[t] = "PACKAGING" /\ Move(t, "SUCCEEDED", {Committed}, "task.succeeded")
    BY <1>7 DEF WriteSucceeded
  <2>2. PhaseOf(status[t]) = "running" /\ PhaseOf("SUCCEEDED") = "succeeded"
    BY <2>1 DEF PhaseOf, NoStatus
  <2>3. ChargeOf(ledger[t] \cup {Committed}) = "charged"
    BY DEF ChargeOf
  <2>4. NoticeOf([type |-> "task.succeeded", task |-> t, status |-> "PENDING", retryCount |-> 0])
          = [outcome |-> "succeeded", task |-> t]
    BY DEF NoticeOf, NoticeEvent
  <2>5. Contract!End(t, "succeeded")
    BY <2>1, <2>2, <2>3, <2>4, EndStep DEF NoticeEvent
  <2> QED BY <2>5 DEF Contract!Next, Contract!Outcome
<1>8. ASSUME NEW t \in Tasks, WriteFailed(t) PROVE Contract!Next
  <2>1. /\ status[t] \notin TERMINAL_STATUS /\ status[t] # NoStatus
        /\ Move(t, "FAILED", {ReleasedFailure}, "task.failed")
    BY <1>8 DEF WriteFailed, Created
  <2>2. PhaseOf(status[t]) = "running" /\ PhaseOf("FAILED") = "failed"
    BY <2>1 DEF TERMINAL_STATUS, PhaseOf, NoStatus
  <2>3. ChargeOf(ledger[t] \cup {ReleasedFailure}) = "released"
    BY <1>b, <2>1 DEF TERMINAL_STATUS, ChargeOf, Committed, ReleasedFailure
  <2>4. NoticeOf([type |-> "task.failed", task |-> t, status |-> "PENDING", retryCount |-> 0])
          = [outcome |-> "failed", task |-> t]
    BY DEF NoticeOf, NoticeEvent
  <2>5. Contract!End(t, "failed")
    BY <2>1, <2>2, <2>3, <2>4, EndStep DEF NoticeEvent
  <2> QED BY <2>5 DEF Contract!Next, Contract!Outcome
<1>9. HistoryStep
  BY HistoryStepNext DEF CInv
<1> QED BY <1>1, <1>2, <1>3, <1>4, <1>5, <1>6, <1>7, <1>8, <1>9 DEF HistoryStep, Moved

(* Whatever the interleaving of calls, dispatcher, workers, errors and     *)
(* crashes, the pipeline carries out TaskContract: a task starts, ends     *)
(* once per attempt, and each ending settles the quota and posts its       *)
(* notice in the same instant.                                             *)
THEOREM PipelineImplementsContract == Spec => ImplementsContract
<1>1. Init => Contract!Init
  BY ContractInit
<1>2. CInv /\ [Next]_vars => [Contract!Next]_Contract!vars
  BY ContractNext
<1> QED BY <1>1, <1>2, AlwaysCInv, PTL DEF Spec, ImplementsContract, Contract!Spec

-----------------------------------------------------------------------------
(* Idempotency keys.  A row that says SUCCESS was written by a call of the *)
(* same key, action and task which has answered SUCCESS, and a call that   *)
(* has answered never changes again.                                       *)

Backed(k, a, t) ==
    \E q \in Requests : /\ request[q].result = "SUCCESS" /\ request[q].key = k
                        /\ request[q].action = a /\ request[q].task = t

AnswersBacked ==
    /\ \A r \in Requests : request[r].result # "none" => request[r].pc = "done"
    /\ \A k \in Keys : idem[k].result = "SUCCESS" => Backed(k, idem[k].action, idem[k].task)
    /\ \A r \in Requests : request[r].result = "REPLAYED" =>
          Backed(request[r].key, request[r].action, request[r].task)

LEMMA AnswersBackedNext == IInv /\ AnswersBacked /\ [Next]_vars => AnswersBacked'
<1> SUFFICES ASSUME IInv, AnswersBacked, [Next]_vars PROVE AnswersBacked'
    OBVIOUS
<1>0. request \in [Requests -> Call] /\ idem \in [Keys -> IdemRow]
  BY DEF IInv, TypeOK
<1>a. UNCHANGED <<request, idem>> => AnswersBacked'
  BY DEF AnswersBacked, Backed
(* A call other than the answered ones moves. *)
<1>b. ASSUME NEW r \in Requests, request[r].pc # "done",
             \A q \in Requests : q # r => request'[q] = request[q],
             NEW k, NEW a, NEW t, Backed(k, a, t)
      PROVE  Backed(k, a, t)'
  <2>1. PICK q \in Requests : /\ request[q].result = "SUCCESS" /\ request[q].key = k
                              /\ request[q].action = a /\ request[q].task = t
    BY <1>b DEF Backed
  <2>2. q # r
    BY <1>b, <2>1 DEF AnswersBacked
  <2> QED BY <1>b, <2>1, <2>2 DEF Backed
<1>1. ASSUME NEW r \in Requests, NEW a \in TaskActionType, NEW t \in Tasks, NEW k \in Keys,
             CheckIdempotency(r, a, t, k)
      PROVE  AnswersBacked'
  <2>1. /\ request[r].pc = "new" /\ UNCHANGED idem
        /\ \A q \in Requests : q # r => request'[q] = request[q]
    BY <1>0, <1>1 DEF CheckIdempotency, dbVars
  <2>2. \/ request'[r].pc = "checked" /\ request'[r].result = "none"
        \/ /\ request'[r] = [NewCall EXCEPT !.pc = "done", !.action = a, !.task = t, !.key = k,
                                            !.result = ReplayOf(idem[k], a, t)]
    BY <1>0, <1>1 DEF CheckIdempotency, NewCall
  <2>3. CASE request'[r].pc = "checked" /\ request'[r].result = "none"
    BY <1>b, <2>1, <2>3 DEF AnswersBacked
  <2>4. CASE request'[r] = [NewCall EXCEPT !.pc = "done", !.action = a, !.task = t, !.key = k,
                                           !.result = ReplayOf(idem[k], a, t)]
    <3>1. /\ request'[r].pc = "done" /\ request'[r].action = a /\ request'[r].task = t
          /\ request'[r].key = k /\ request'[r].result = ReplayOf(idem[k], a, t)
      BY <2>4 DEF NewCall
    <3>2. ReplayOf(idem[k], a, t) = "REPLAYED" =>
            idem[k].action = a /\ idem[k].task = t /\ idem[k].result = "SUCCESS"
      BY <1>0 DEF ReplayOf, IdemRow
    <3>3. ReplayOf(idem[k], a, t) = "REPLAYED" => Backed(k, a, t)
      BY <3>2 DEF AnswersBacked
    <3> QED BY <1>b, <2>1, <3>1, <3>3 DEF AnswersBacked
  <2> QED BY <2>2, <2>3, <2>4
<1>2. ASSUME NEW r \in Requests, ReadForAction(r) \/ ActionConflict(r) PROVE AnswersBacked'
  <2>1. /\ request[r].pc \in {"checked", "cas"} /\ UNCHANGED idem
        /\ \A q \in Requests : q # r => request'[q] = request[q]
    BY <1>0, <1>2 DEF ReadForAction, ActionConflict, dbVars
  <2>2. request[r] \in Call /\ request[r].result = "none"
    BY <1>0, <2>1 DEF AnswersBacked
  <2>3. request'[r].result = "none"
    <3>1. CASE ReadForAction(r)
      <4> DEFINE pc  == IF ActionAllowed(request[r].action, status[request[r].task])
                        THEN "cas" ELSE "invalid"
                 ver == version[request[r].task]
                 st  == status[request[r].task]
      <4>1. request'[r] = [request[r] EXCEPT !.pc = pc, !.ver = ver, !.st = st]
        BY <1>0, <3>1 DEF ReadForAction
      <4> HIDE DEF pc, ver, st
      <4> QED BY <2>2, <4>1 DEF Call
    <3>2. CASE ActionConflict(r)
      BY <1>0, <2>2, <3>2 DEF ActionConflict, Call
    <3> QED BY <1>2, <3>1, <3>2
  <2> QED BY <1>b, <2>1, <2>3 DEF AnswersBacked
<1>3. ASSUME NEW r \in Requests, NEW res \in {"SUCCESS", "INVALID"},
             request[r].pc \in {"cas", "invalid"}, PersistIdempotency(r, res),
             request' = [request EXCEPT ![r] = [@ EXCEPT !.pc = "done", !.result = res]]
      PROVE  AnswersBacked'
  <2> DEFINE c == request[r]
  <2>0. c \in Call /\ c.key \in Keys
    BY <1>0 DEF Call
  <2>1. /\ c.pc # "done"
        /\ \A q \in Requests : q # r => request'[q] = request[q]
        /\ request'[r] = [c EXCEPT !.pc = "done", !.result = res]
    BY <1>0, <1>3
  <2>2. /\ request'[r].pc = "done" /\ request'[r].result = res /\ request'[r].key = c.key
        /\ request'[r].action = c.action /\ request'[r].task = c.task
    <3> HIDE DEF c
    <3> QED BY <2>0, <2>1 DEF Call
  <2>3. idem' = [idem EXCEPT ![c.key] = [action |-> c.action, task |-> c.task, result |-> res]]
    BY <1>3 DEF PersistIdempotency
  <2>4. \A k \in Keys : idem'[k].result = "SUCCESS" => Backed(k, idem[k].action, idem[k].task)'
    <3> SUFFICES ASSUME NEW k \in Keys, idem'[k].result = "SUCCESS"
                 PROVE  Backed(k, idem[k].action, idem[k].task)'
        OBVIOUS
    <3>1. CASE k # c.key
      <4>1. idem'[k] = idem[k]
        BY <1>0, <2>3, <3>1
      <4>2. Backed(k, idem[k].action, idem[k].task)
        BY <4>1 DEF AnswersBacked
      <4>3. \E q \in Requests : /\ request'[q].result = "SUCCESS" /\ request'[q].key = k
                                /\ request'[q].action = idem[k].action
                                /\ request'[q].task = idem[k].task
        BY <1>b, <2>1, <4>2 DEF Backed
      <4> QED BY <4>1, <4>3 DEF Backed
    <3>2. CASE k = c.key
      <4>1. idem'[k] = [action |-> c.action, task |-> c.task, result |-> res]
        BY <1>0, <2>0, <2>3, <3>2
      <4> QED BY <2>2, <3>2, <4>1 DEF Backed
    <3> QED BY <3>1, <3>2
  <2>5. \A q \in Requests : request'[q].result = "REPLAYED" =>
          Backed(request[q].key, request[q].action, request[q].task)'
    <3> SUFFICES ASSUME NEW q \in Requests, request'[q].result = "REPLAYED"
                 PROVE  Backed(request[q].key, request[q].action, request[q].task)'
        OBVIOUS
    <3>1. q # r /\ request'[q] = request[q]
      BY <1>3, <2>1, <2>2
    <3>2. Backed(request[q].key, request[q].action, request[q].task)
      BY <3>1 DEF AnswersBacked
    <3>3. \E p \in Requests : /\ request'[p].result = "SUCCESS" /\ request'[p].key = request[q].key
                              /\ request'[p].action = request[q].action
                              /\ request'[p].task = request[q].task
      BY <1>b, <2>1, <3>2 DEF Backed
    <3> QED BY <3>1, <3>3 DEF Backed
  <2> HIDE DEF c
  <2>6. \A q \in Requests : request'[q].result # "none" => request'[q].pc = "done"
    BY <2>1, <2>2 DEF AnswersBacked
  <2> QED BY <2>4, <2>5, <2>6 DEF AnswersBacked, Backed
<1>4. ASSUME NEW r \in Requests, ActionCommit(r) PROVE AnswersBacked'
  BY <1>3, <1>4 DEF ActionCommit
<1>5. ASSUME NEW r \in Requests, RememberInvalid(r) PROVE AnswersBacked'
  BY <1>3, <1>5 DEF RememberInvalid
<1>6. CASE ApiStep
  BY <1>a, <1>1, <1>2, <1>4, <1>5, <1>6 DEF ApiStep, CallStep, CreateTask, UploadRead,
     UploadCommit, dbVars, apiVars
<1>7. CASE DispatcherStep \/ DispatcherError
  BY <1>a, <1>7 DEF DispatcherStep, DispatcherError, Poll, DispatchAdd, DispatchMark,
     DispatchDeadletter, DispatchFail, DispatchAbort, dbVars, apiVars
<1>8. CASE \E j \in JobId : WorkerStep(j) \/ WorkerError(j)
  BY <1>a, <1>8 DEF WorkerStep, WorkerError, TakeJob, ReadTask, DetectInput, StepCommit,
     StepConflict, Park, CompleteJob, FailRead, FailCommit, FailConflict, FinalDeadletter,
     StepRejected, AttemptFailed, FailSwallowed, DeadletterLost, dbVars, apiVars
<1>9. CASE Crash \/ UNCHANGED vars
  BY <1>a, <1>9 DEF Crash, vars, dbVars, apiVars
<1> QED BY <1>6, <1>7, <1>8, <1>9 DEF Next

(* A replayed SUCCESS repeats what another call of the same key was told   *)
(* about the same action on the same task.                                 *)
THEOREM ReplayIsHonest == Spec => []ReplayEchoesSuccess
<1>1. Init => AnswersBacked
  BY DEF Init, AnswersBacked, NewCall, NoIdem
<1>2. AnswersBacked => ReplayEchoesSuccess
  <2> SUFFICES ASSUME AnswersBacked, NEW r \in Requests, request[r].result = "REPLAYED"
               PROVE  \E q \in Requests \ {r} :
                        /\ request[q].result = "SUCCESS"
                        /\ request[q].key = request[r].key
                        /\ request[q].action = request[r].action
                        /\ request[q].task = request[r].task
      BY DEF ReplayEchoesSuccess
  <2> QED BY DEF AnswersBacked, Backed
<1> QED BY <1>1, <1>2, AlwaysIInv, AnswersBackedNext, PTL DEF Spec

-----------------------------------------------------------------------------
(* No task is left behind.  A task's driver changes hands all the time: an *)
(* event becomes a job, a job an active run, a run parks and leaves the    *)
(* task to a followup, or finds its snapshot stale and leaves it to the    *)
(* writer of the newer version.  The invariant says of each task who has   *)
(* it: an event that will still add a job, a job that waits or is kept as  *)
(* failed, or a run that will look at the task's latest version.           *)

WorkingPc == {"read", "detect", "step", "park", "fail_read", "fail_cas", "done"}
FinalPc   == {"final_read", "final_cas", "final_dlq"}

(* Exactly the active jobs are worked on; a failed job stays failed.       *)
JobsMatchRuns ==
    \A j \in JobId :
        /\ run[j].pc \in WorkingPc <=> job[j].state = "active"
        /\ run[j].pc \in FinalPc => job[j].state = "failed"

(* Jobs and batches are of events that have been emitted.                  *)
EventsEmitted ==
    /\ \A t \in Tasks, e \in EventId : job[<<t, e>>].state # "absent" => e < nextEvent
    /\ \A x \in disp.batch : x.id < nextEvent

(* Each iteration that has ended cost the task a version.                  *)
IterationsCounted ==
    /\ \A t \in Tasks : Created(t) => version[t] > 0
    /\ \A j \in JobId :
         /\ run[j].pc = "read" => run[j].iter < version[Owner(j)]
         /\ run[j].pc \in {"detect", "step"} => run[j].iter < run[j].ver

(* The row the dispatcher is about to mark as published. *)
BeingMarked(e) == disp.pc = "mark" /\ \E x \in disp.batch : x.id = e /\ IsCurrent(x)

(* A row that the dispatcher, or an operator for a dead one, still has to  *)
(* make a job of.                                                          *)
WillTrigger(t, e) ==
    /\ e < nextEvent /\ outbox[e].task = t /\ outbox[e].type \in TriggerEvent
    /\ outbox[e].status \in {"PENDING", "DEAD"}
    /\ job[<<t, e>>].state = "absent"
    /\ ~BeingMarked(e)

(* A run that will look at the latest version, or has.                     *)
Carries(j) ==
    \/ run[j].pc \in {"read", "step", "fail_read"}
    \/ run[j].pc \in {"detect", "fail_cas"} /\ run[j].ver = version[Owner(j)]

Holds(j) == job[j].state \in {"waiting", "failed"} \/ Carries(j)

Carried(t) == (\E e \in EventId : WillTrigger(t, e)) \/ \E j \in JobsOf(t) : Holds(j)

Excused(t) ==
    \/ status[t] = NoStatus \/ isTerminalTaskStatus(status[t]) \/ AwaitsInput(t)
    \/ UploadSkippedEvent(t) \/ OutOfIterations(t)

Attended == \A t \in Tasks : Excused(t) \/ Carried(t)

DInv == IInv /\ JobsMatchRuns /\ EventsEmitted /\ IterationsCounted /\ Attended

-----------------------------------------------------------------------------
(* What setting a run's position does to any run. *)
LEMMA RunMoves ==
    ASSUME run \in [JobId -> RunRow], NEW j \in JobId, NEW pc,
           run' = [run EXCEPT ![j].pc = pc], NEW i \in JobId
    PROVE  /\ i # j => run'[i] = run[i]
           /\ i = j => /\ run'[i].pc = pc /\ run'[i].iter = run[i].iter
                       /\ run'[i].ver = run[i].ver /\ run'[i].st = run[i].st
  BY DEF RunRow

LEMMA JobsMatchRunsNext == IInv /\ JobsMatchRuns /\ [Next]_vars => JobsMatchRuns'
<1> SUFFICES ASSUME IInv, JobsMatchRuns, [Next]_vars, NEW i \in JobId
             PROVE  /\ run'[i].pc \in WorkingPc <=> job'[i].state = "active"
                    /\ run'[i].pc \in FinalPc => job'[i].state = "failed"
    BY DEF JobsMatchRuns
<1> DEFINE Match == /\ run'[i].pc \in WorkingPc <=> job'[i].state = "active"
                    /\ run'[i].pc \in FinalPc => job'[i].state = "failed"
<1>0. /\ job \in [JobId -> [state : JobState, made : Nat]]
      /\ run \in [JobId -> RunRow]
  BY DEF IInv, TypeOK
<1>a. /\ run[i].pc \in WorkingPc <=> job[i].state = "active"
      /\ run[i].pc \in FinalPc => job[i].state = "failed"
  BY DEF JobsMatchRuns
<1>b. UNCHANGED run /\ (job'[i] = job[i] \/ (job[i].state = "absent" /\ job'[i].state = "waiting")) => Match
  BY <1>a
<1>c. ASSUME NEW j \in JobId, AddJob(j)
      PROVE  job'[i] = job[i] \/ (job[i].state = "absent" /\ job'[i].state = "waiting")
  BY <1>0, <1>c DEF AddJob
<1>d. ASSUME UNCHANGED job,
             \/ run'[i].pc = run[i].pc
             \/ run[i].pc \in WorkingPc /\ run'[i].pc \in WorkingPc
             \/ run[i].pc \in FinalPc /\ run'[i].pc \in FinalPc
      PROVE  Match
  <2>1. WorkingPc \cap FinalPc = {}
    BY DEF WorkingPc, FinalPc
  <2> QED BY <1>a, <1>d, <2>1
<1>1. CASE ApiStep \/ UNCHANGED vars
  BY <1>1, <1>b DEF ApiStep, CallStep, CreateTask, CheckIdempotency, ReadForAction, ActionCommit,
     ActionConflict, RememberInvalid, UploadRead, UploadCommit, workVars, vars
<1>2. CASE DispatcherStep \/ DispatcherError
  <2>1. ASSUME NEW x \in disp.batch, DispatchAdd(x) PROVE Match
    BY <1>b, <1>c, <2>1, BatchOwner DEF DispatchAdd
  <2>2. UNCHANGED <<job, run>> \/ \E x \in disp.batch : DispatchAdd(x)
    BY <1>2 DEF DispatcherStep, DispatcherError, Poll, DispatchMark, DispatchDeadletter,
       DispatchFail, DispatchAbort
  <2> QED BY <1>b, <2>1, <2>2
<1>3. ASSUME NEW j \in JobId, WorkerStep(j) \/ WorkerError(j) PROVE Match
  <2>0. Followup \in BullId /\ <<Owner(j), Followup>> \in JobId
    BY OwnerIn DEF BullId, JobId
  <2>1. CASE TakeJob(j)
    BY <1>0, <1>a, <2>1 DEF TakeJob, RunAt, WorkingPc, FinalPc
  <2>2. CASE ReadTask(j)
    <3> DEFINE st == status[Owner(j)]
               pc == IF isTerminalTaskStatus(st) THEN "done"
                     ELSE IF st = "DETECTING" THEN "detect" ELSE "step"
               ver == version[Owner(j)]
    <3>1. run' = [run EXCEPT ![j] = [@ EXCEPT !.pc = pc, !.ver = ver, !.st = st]] /\ UNCHANGED job
          /\ run[j].pc = "read"
      BY <2>2 DEF ReadTask
    <3>2. pc \in WorkingPc
      BY DEF WorkingPc
    <3>3. i # j => run'[i] = run[i]
      BY <1>0, <3>1
    <3>4. i = j => run'[i].pc = pc
      <4> HIDE DEF pc, ver, st
      <4> QED BY <1>0, <3>1 DEF RunRow
    <3> HIDE DEF pc, ver, st
    <3> QED BY <1>a, <3>1, <3>2, <3>3, <3>4 DEF WorkingPc, FinalPc
  <2>3. CASE DetectInput(j)
    <3>1. PICK pc \in {"step", "park"} : run' = [run EXCEPT ![j].pc = pc]
      BY <2>3 DEF DetectInput
    <3>2. run[j].pc \in WorkingPc /\ pc \in WorkingPc /\ UNCHANGED job
      BY <2>3 DEF DetectInput, WorkingPc
    <3> QED BY <1>0, <1>d, <3>1, <3>2, RunMoves
  <2>4. ASSUME run[j].pc = "step", run' = NextIteration(j), UNCHANGED job PROVE Match
    BY <1>0, <1>a, <2>4 DEF NextIteration, RunAt, WorkingPc, FinalPc
  <2>5. CASE StepCommit(j)
    <3>1. run' = [run EXCEPT ![j].pc = "done"] \/ run' = NextIteration(j)
      BY <2>5 DEF StepCommit
    <3>2. run[j].pc = "step" /\ UNCHANGED job
      BY <2>5 DEF StepCommit
    <3>3. "step" \in WorkingPc /\ "done" \in WorkingPc
      BY DEF WorkingPc
    <3>4. CASE run' = [run EXCEPT ![j].pc = "done"]
      BY <1>0, <1>d, <3>2, <3>3, <3>4, RunMoves
    <3>5. CASE run' = NextIteration(j)
      BY <2>4, <3>2, <3>5
    <3> QED BY <3>1, <3>4, <3>5
  <2>6. CASE StepConflict(j)
    BY <2>4, <2>6 DEF StepConflict
  <2>7. CASE Park(j)
    <3>1. job'[i] = job[i] \/ (job[i].state = "absent" /\ job'[i].state = "waiting")
      BY <1>c, <2>0, <2>7 DEF Park
    <3>2. run' = [run EXCEPT ![j].pc = "done"] /\ run[j].pc = "park"
      BY <2>7 DEF Park
    <3> QED BY <1>0, <1>a, <3>1, <3>2 DEF RunRow, WorkingPc, FinalPc
  <2>8. CASE CompleteJob(j)
    BY <1>0, <1>a, <2>8 DEF CompleteJob, NoJob, NoRun, RunAt, WorkingPc, FinalPc
  <2>9. CASE FailRead(j)
    <3> DEFINE st == status[Owner(j)]
               pc == IF isTerminalTaskStatus(st) THEN AfterFailure(run[j].pc)
                     ELSE IF run[j].pc = "fail_read" THEN "fail_cas" ELSE "final_cas"
               ver == version[Owner(j)]
    <3>1. run' = [run EXCEPT ![j] = [@ EXCEPT !.pc = pc, !.ver = ver, !.st = st]] /\ UNCHANGED job
          /\ run[j].pc \in {"fail_read", "final_read"}
      BY <2>9 DEF FailRead
    <3>2. /\ run[j].pc = "fail_read" => pc \in {"done", "fail_cas"}
          /\ run[j].pc = "final_read" => pc \in {"final_dlq", "final_cas"}
      BY DEF AfterFailure
    <3>3. i # j => run'[i] = run[i]
      BY <1>0, <3>1
    <3>4. i = j => run'[i].pc = pc
      <4> HIDE DEF pc, ver, st
      <4> QED BY <1>0, <3>1 DEF RunRow
    <3> HIDE DEF pc, ver, st
    <3> QED BY <1>a, <3>1, <3>2, <3>3, <3>4 DEF WorkingPc, FinalPc
  <2>10. CASE FailCommit(j) \/ FailConflict(j)
    <3>1. /\ run' = [run EXCEPT ![j].pc = AfterFailure(run[j].pc)] /\ UNCHANGED job
          /\ run[j].pc \in {"fail_cas", "final_cas"}
      BY <2>10 DEF FailCommit, FailConflict
    <3>2. \/ run[j].pc \in WorkingPc /\ AfterFailure(run[j].pc) \in WorkingPc
          \/ run[j].pc \in FinalPc /\ AfterFailure(run[j].pc) \in FinalPc
      BY <3>1 DEF AfterFailure, WorkingPc, FinalPc
    <3> QED BY <1>0, <1>d, <3>1, <3>2, RunMoves
  <2>11. CASE FinalDeadletter(j) \/ DeadletterLost(j)
    BY <1>0, <1>a, <2>11 DEF FinalDeadletter, DeadletterLost, NoRun, RunAt, WorkingPc, FinalPc
  <2>12. CASE StepRejected(j)
    <3>1. run[j].pc = "step" /\ UNCHANGED job /\ run' = [run EXCEPT ![j].pc = "fail_read"]
      BY <2>12 DEF StepRejected
    <3>2. "step" \in WorkingPc /\ "fail_read" \in WorkingPc
      BY DEF WorkingPc
    <3> QED BY <1>0, <1>d, <3>1, <3>2, RunMoves
  <2>13. CASE FailSwallowed(j)
    <3>1. run[j].pc \in FinalPc /\ UNCHANGED job /\ run' = [run EXCEPT ![j].pc = "final_dlq"]
      BY <2>13 DEF FailSwallowed, FinalPc
    <3>2. "final_dlq" \in FinalPc
      BY DEF FinalPc
    <3> QED BY <1>0, <1>d, <3>1, <3>2, RunMoves
  <2>14. CASE AttemptFailed(j)
    <3>1. job'[j].state \in {"waiting", "failed"} /\ (i # j => job'[i] = job[i])
      BY <1>0, <2>14 DEF AttemptFailed
    <3>2. /\ job'[j].state = "waiting" => run'[j].pc = "idle"
          /\ job'[j].state = "failed" => run'[j].pc = "final_read"
          /\ i # j => run'[i] = run[i]
      BY <1>0, <2>14 DEF AttemptFailed, NoRun, RunAt
    <3> QED BY <1>a, <3>1, <3>2 DEF WorkingPc, FinalPc
  <2> HIDE DEF Match
  <2> QED BY <1>3, <2>1, <2>2, <2>3, <2>5, <2>6, <2>7, <2>8, <2>9, <2>10, <2>11, <2>12, <2>13, <2>14
          DEF WorkerStep, WorkerError
<1>4. CASE Crash
  <2>1. run'[i].pc = "idle" /\ job'[i].state # "active"
    BY <1>0, <1>4 DEF Crash, NoRun, RunAt
  <2> QED BY <2>1 DEF WorkingPc, FinalPc
<1> HIDE DEF Match
<1> QED BY <1>1, <1>2, <1>3, <1>4 DEF Next, Match

(* Events are numbered upwards, and what is numbered stays as it is but    *)
(* for its status.                                                         *)
LEMMA NextEventGrows == IInv /\ [Next]_vars => nextEvent \in Nat /\ nextEvent' \in Nat /\ nextEvent <= nextEvent'
<1> SUFFICES ASSUME IInv, [Next]_vars
             PROVE  nextEvent \in Nat /\ nextEvent' \in Nat /\ nextEvent <= nextEvent'
    OBVIOUS
<1>0. nextEvent \in Nat /\ nextEvent' \in Nat
  BY TypeNext DEF IInv, TypeOK
<1>1. ASSUME ApiStep PROVE nextEvent' = nextEvent \/ nextEvent' = nextEvent + 1
  BY <1>1 DEF ApiStep, CallStep, CreateTask, CheckIdempotency, ReadForAction, ActionCommit,
     ActionConflict, RememberInvalid, UploadRead, UploadCommit, Emit, dbVars
<1>2. ASSUME DispatcherStep \/ DispatcherError PROVE nextEvent' = nextEvent \/ nextEvent' = nextEvent + 1
  BY <1>2 DEF DispatcherStep, DispatcherError, Poll, DispatchAdd, DispatchMark, DispatchDeadletter,
     DispatchFail, DispatchAbort, dbVars
<1>3. ASSUME \E j \in JobId : WorkerStep(j) \/ WorkerError(j) PROVE nextEvent' = nextEvent \/ nextEvent' = nextEvent + 1
  BY <1>3 DEF WorkerStep, WorkerError, TakeJob, ReadTask, DetectInput, StepCommit, StepConflict,
     Park, CompleteJob, FailRead, FailCommit, FailConflict, FinalDeadletter, StepRejected,
     AttemptFailed, FailSwallowed, DeadletterLost, Emit, dbVars
<1>4. ASSUME Crash \/ UNCHANGED vars PROVE nextEvent' = nextEvent \/ nextEvent' = nextEvent + 1
  BY <1>4 DEF Crash, vars, dbVars
<1>5. nextEvent' = nextEvent \/ nextEvent' = nextEvent + 1
  BY <1>1, <1>2, <1>3, <1>4 DEF Next
<1> QED BY <1>0, <1>5

(* A worker adds no job for an event. *)
LEMMA WorkersAddNoEventJob ==
    ASSUME IInv, JobsMatchRuns, NEW j \in JobId, WorkerStep(j) \/ WorkerError(j),
           NEW t \in Tasks, NEW e \in EventId, job[<<t, e>>].state = "absent"
    PROVE  job'[<<t, e>>].state = "absent"
<1>0. /\ job \in [JobId -> [state : JobState, made : Nat]] /\ <<t, e>> \in JobId
      /\ e # Followup /\ Followup \in BullId /\ <<Owner(j), Followup>> \in JobId
  BY OwnerIn, EventIdAssumption DEF IInv, TypeOK, JobId, BullId, Followup
<1>1. CASE UNCHANGED job
  BY <1>1
<1>2. CASE Park(j)
  <2>1. <<Owner(j), Followup>> # <<t, e>>
    BY <1>0
  <2> QED BY <1>0, <1>2, <2>1 DEF Park, AddJob
<1>3. CASE TakeJob(j)
  BY <1>0, <1>3 DEF TakeJob
<1>4. CASE CompleteJob(j)
  BY <1>0, <1>4 DEF CompleteJob, NoJob
<1>5. CASE AttemptFailed(j)
  BY <1>0, <1>5 DEF AttemptFailed
<1> QED BY <1>1, <1>2, <1>3, <1>4, <1>5 DEF WorkerStep, WorkerError, ReadTask, DetectInput, StepCommit,
       StepConflict, FailRead, FailCommit, FailConflict, FinalDeadletter, StepRejected,
       FailSwallowed, DeadletterLost

LEMMA EventsEmittedNext == IInv /\ JobsMatchRuns /\ EventsEmitted /\ [Next]_vars => EventsEmitted'
<1> SUFFICES ASSUME IInv, JobsMatchRuns, EventsEmitted, [Next]_vars PROVE EventsEmitted'
    OBVIOUS
<1> DEFINE Jobs  == \A t \in Tasks, e \in EventId : job'[<<t, e>>].state # "absent" => e < nextEvent'
           Batch == \A x \in disp'.batch : x.id < nextEvent'
<1>0. nextEvent \in Nat /\ nextEvent' \in Nat /\ nextEvent <= nextEvent' /\ EventId \subseteq Nat
  BY NextEventGrows, EventIdAssumption
<1>a. \A e \in EventId : e < nextEvent => e < nextEvent'
  BY <1>0
<1>b. /\ job \in [JobId -> [state : JobState, made : Nat]]
      /\ \A t \in Tasks, e \in EventId : <<t, e>> \in JobId
      /\ \A x \in disp.batch : x.id \in EventId
  BY BatchOwner DEF IInv, TypeOK, JobId, BullId
<1>1. ASSUME \A t \in Tasks, e \in EventId :
               job[<<t, e>>].state = "absent" => job'[<<t, e>>].state = "absent" PROVE Jobs
  BY <1>a, <1>1 DEF EventsEmitted
<1>2. disp'.batch \subseteq disp.batch => Batch
  BY <1>a, <1>b DEF EventsEmitted
<1>3. CASE ApiStep \/ UNCHANGED vars
  <2>1. UNCHANGED <<job, disp>>
    BY <1>3 DEF ApiStep, CallStep, CreateTask, CheckIdempotency, ReadForAction, ActionCommit,
       ActionConflict, RememberInvalid, UploadRead, UploadCommit, vars, workVars
  <2> QED BY <1>1, <1>2, <2>1 DEF EventsEmitted
<1>4. CASE DispatcherStep \/ DispatcherError
  <2>1. ASSUME NEW x \in disp.batch, DispatchAdd(x) PROVE Jobs
    <3>1. x.id < nextEvent /\ AddJob(<<outbox[x.id].task, x.id>>)
      BY <2>1 DEF DispatchAdd, EventsEmitted
    <3>2. \A t \in Tasks, e \in EventId : e # x.id => job'[<<t, e>>] = job[<<t, e>>]
      BY <1>b, <3>1, BatchOwner DEF AddJob
    <3> QED BY <1>a, <1>b, <3>1, <3>2 DEF EventsEmitted
  <2>2. UNCHANGED job \/ \E x \in disp.batch : DispatchAdd(x)
    BY <1>4 DEF DispatcherStep, DispatcherError, Poll, DispatchMark, DispatchDeadletter,
       DispatchFail, DispatchAbort
  <2>3. Jobs
    BY <1>1, <2>1, <2>2
  <2>4. ASSUME Poll PROVE Batch
    <3>1. PICK B \in Batches :
            disp' = [pc |-> "add", batch |-> {[id |-> e, retryCount |-> outbox[e].retryCount] : e \in B}]
      BY <2>4 DEF Poll
    <3>2. \A e \in B : e \in EventId /\ e < nextEvent
      BY DEF Batches, PendingTriggers
    <3> QED BY <1>a, <3>1, <3>2
  <2>5. Batch
    <3>1. \A x \in disp.batch : /\ Advance(x).batch \subseteq disp.batch
                                /\ [disp EXCEPT !.pc = "mark"].batch = disp.batch
                                /\ [disp EXCEPT !.pc = "dead"].batch = disp.batch
      BY DEF Advance, IInv, TypeOK
    <3>2. ASSUME NEW x \in disp.batch,
                 DispatchAdd(x) \/ DispatchMark(x) \/ DispatchDeadletter(x) \/ DispatchFail(x)
          PROVE  disp'.batch \subseteq disp.batch
      BY <3>1, <3>2 DEF DispatchAdd, DispatchMark, DispatchDeadletter, DispatchFail
    <3>3. DispatchAbort => disp'.batch \subseteq disp.batch
      BY DEF DispatchAbort
    <3> HIDE DEF Batch
    <3> QED BY <1>2, <1>4, <2>4, <3>2, <3>3 DEF DispatcherStep, DispatcherError
  <2> QED BY <2>3, <2>5 DEF EventsEmitted
<1>5. ASSUME NEW j \in JobId, WorkerStep(j) \/ WorkerError(j) PROVE EventsEmitted'
  <2>1. UNCHANGED disp
    BY <1>5 DEF WorkerStep, WorkerError, TakeJob, ReadTask, DetectInput, StepCommit, StepConflict,
       Park, CompleteJob, FailRead, FailCommit, FailConflict, FinalDeadletter, StepRejected,
       AttemptFailed, FailSwallowed, DeadletterLost
  <2> QED BY <1>1, <1>2, <1>5, <2>1, WorkersAddNoEventJob DEF EventsEmitted
<1>6. CASE Crash
  <2>1. \A j \in JobId : job[j].state = "absent" => job'[j].state = "absent"
    BY <1>6 DEF Crash
  <2>2. disp'.batch = {}
    BY <1>6 DEF Crash
  <2> QED BY <1>1, <1>b, <2>1, <2>2 DEF EventsEmitted
<1> QED BY <1>3, <1>4, <1>5, <1>6 DEF Next

LEMMA IterationsCountedNext == IInv /\ IterationsCounted /\ [Next]_vars => IterationsCounted'
<1> SUFFICES ASSUME IInv, IterationsCounted, [Next]_vars PROVE IterationsCounted'
    OBVIOUS
<1>0. /\ run \in [JobId -> RunRow] /\ version \in [Tasks -> Nat] /\ version' \in [Tasks -> Nat]
      /\ run' \in [JobId -> RunRow]
  BY TypeNext DEF IInv, TypeOK
<1>1. ASSUME NEW t \in Tasks PROVE Created(t)' => version'[t] > 0
  <2>1. TaskStep(t) /\ version'[t] >= version[t] /\ version[t] \in Nat /\ version'[t] \in Nat
    BY <1>0, TaskStepNext, TaskMonotone
  <2>2. Created(t) => version[t] > 0
    BY DEF IterationsCounted
  <2> QED BY <2>1, <2>2 DEF TaskStep, Created
<1>2. ASSUME NEW i \in JobId
      PROVE  /\ run'[i].pc = "read" => run'[i].iter < version'[Owner(i)]
             /\ run'[i].pc \in {"detect", "step"} => run'[i].iter < run'[i].ver
  <2> DEFINE Counted == /\ run'[i].pc = "read" => run'[i].iter < version'[Owner(i)]
                        /\ run'[i].pc \in {"detect", "step"} => run'[i].iter < run'[i].ver
  <2>0. /\ run[i] \in RunRow /\ run'[i] \in RunRow /\ Owner(i) \in Tasks
        /\ version[Owner(i)] \in Nat /\ version'[Owner(i)] \in Nat
        /\ version'[Owner(i)] >= version[Owner(i)]
        /\ run[i].iter \in Nat /\ run[i].ver \in Nat
    <3>1. Owner(i) \in Tasks
      BY OwnerIn
    <3> QED BY <1>0, <3>1, TaskMonotone DEF RunRow
  <2>a. /\ run[i].pc = "read" => run[i].iter < version[Owner(i)]
        /\ run[i].pc \in {"detect", "step"} => run[i].iter < run[i].ver
    BY DEF IterationsCounted
  <2>b. run'[i] = run[i] => Counted
    BY <2>0, <2>a
  <2>c. run'[i].pc \notin {"read", "detect", "step"} => Counted
    OBVIOUS
  <2>d. ASSUME run[i].pc = "detect", run'[i].iter = run[i].iter, run'[i].ver = run[i].ver
        PROVE  run'[i].pc \in {"step", "park"} => Counted
    BY <2>a, <2>d
  <2>e. ASSUME NEW j \in JobId, run' = NextIteration(j), run[j].pc = "step",
               i = j => run[i].ver < version'[Owner(i)]
        PROVE  Counted
    <3>1. CASE i # j
      BY <1>0, <2>b, <2>e, <3>1 DEF NextIteration
    <3>2. CASE i = j
      <4>1. run'[i].iter = run[i].iter + 1 /\ run'[i].pc \in {"read", "park"}
        BY <1>0, <2>e, <3>2 DEF NextIteration, RunAt
      <4>2. run[i].iter < run[i].ver /\ run[i].ver < version'[Owner(i)]
        BY <2>a, <2>e, <3>2
      <4> QED BY <2>0, <4>1, <4>2
    <3> QED BY <3>1, <3>2
  <2>1. ASSUME NEW j \in JobId, WorkerStep(j) PROVE Counted
    <3>1. CASE TakeJob(j)
      <4>1. CASE i # j
        BY <1>0, <2>b, <3>1, <4>1 DEF TakeJob
      <4>2. CASE i = j
        <5>1. run'[i].iter = 0 /\ run'[i].pc = "read"
          BY <1>0, <3>1, <4>2 DEF TakeJob, RunAt
        <5>2. Created(Owner(i)) /\ UNCHANGED version
          BY <3>1, <4>2 DEF TakeJob, IInv, Provenance, dbVars
        <5>3. version[Owner(i)] > 0
          BY <2>0, <5>2 DEF IterationsCounted
        <5> QED BY <2>0, <5>1, <5>2, <5>3
      <4> QED BY <4>1, <4>2
    <3>2. CASE ReadTask(j)
      <4>1. CASE i # j
        BY <1>0, <2>b, <3>2, <4>1 DEF ReadTask
      <4>2. CASE i = j
        <5> DEFINE st == status[Owner(i)]
                   pc == IF isTerminalTaskStatus(st) THEN "done"
                         ELSE IF st = "DETECTING" THEN "detect" ELSE "step"
                   ver == version[Owner(i)]
        <5>1. run'[i] = [run[i] EXCEPT !.pc = pc, !.ver = ver, !.st = st]
          BY <1>0, <3>2, <4>2 DEF ReadTask
        <5>2. run'[i].iter = run[i].iter /\ run'[i].ver = ver /\ run'[i].pc = pc
          <6> HIDE DEF pc, ver, st
          <6> QED BY <2>0, <5>1 DEF RunRow
        <5>3. pc # "read" /\ run[i].pc = "read"
          BY <3>2, <4>2 DEF ReadTask
        <5> HIDE DEF pc
        <5> QED BY <2>a, <5>2, <5>3
      <4> QED BY <4>1, <4>2
    <3>3. CASE DetectInput(j)
      <4>1. PICK pc \in {"step", "park"} : run' = [run EXCEPT ![j].pc = pc]
        BY <3>3 DEF DetectInput
      <4>2. run[j].pc = "detect"
        BY <3>3 DEF DetectInput
      <4> QED BY <1>0, <2>b, <2>d, <4>1, <4>2, RunMoves
    <3>4. CASE StepCommit(j)
      <4>1. /\ run[j].pc = "step" /\ version[Owner(j)] = run[j].ver
            /\ version'[Owner(j)] = version[Owner(j)] + 1
        BY <1>0, <3>4, OwnerIn DEF StepCommit, CasMatches, SetStatus
      <4>2. run' = [run EXCEPT ![j].pc = "done"] \/ run' = NextIteration(j)
        BY <3>4 DEF StepCommit
      <4>3. i = j => run[i].ver < version'[Owner(i)]
        BY <2>0, <4>1
      <4>4. run' = [run EXCEPT ![j].pc = "done"] => Counted
        BY <1>0, <2>b, <2>c, RunMoves
      <4> QED BY <2>e, <4>1, <4>2, <4>3, <4>4
    <3>5. CASE StepConflict(j)
      <4>1. run[j].pc = "step" /\ run' = NextIteration(j) /\ ~CasMatches(Owner(j), run[j].ver, run[j].st)
            /\ UNCHANGED version
        BY <3>5 DEF StepConflict, dbVars
      <4>2. Fresh(Owner(j), run[j].ver, run[j].st)
        BY <4>1 DEF IInv, SnapshotsFresh
      <4>3. i = j => run[i].ver < version'[Owner(i)]
        BY <2>0, <4>1, <4>2 DEF Fresh, CasMatches
      <4> QED BY <2>e, <4>1, <4>3
    <3>6. CASE Park(j) \/ FailCommit(j) \/ FailConflict(j)
      <4>1. PICK pc \in {"done", "final_dlq"} : run' = [run EXCEPT ![j].pc = pc]
        BY <3>6 DEF Park, FailCommit, FailConflict, AfterFailure
      <4> QED BY <1>0, <2>b, <2>c, <4>1, RunMoves
    <3>7. CASE CompleteJob(j) \/ FinalDeadletter(j)
      <4>1. run' = [run EXCEPT ![j] = NoRun]
        BY <3>7 DEF CompleteJob, FinalDeadletter
      <4>2. run'[i] = run[i] \/ run'[i].pc = "idle"
        BY <1>0, <4>1 DEF NoRun, RunAt
      <4> QED BY <2>b, <2>c, <4>2
    <3>8. CASE FailRead(j)
      <4>1. CASE i # j
        BY <1>0, <2>b, <3>8, <4>1 DEF FailRead
      <4>2. CASE i = j
        <5> DEFINE st == status[Owner(i)]
                   pc == IF isTerminalTaskStatus(st) THEN AfterFailure(run[i].pc)
                         ELSE IF run[i].pc = "fail_read" THEN "fail_cas" ELSE "final_cas"
                   ver == version[Owner(i)]
        <5>1. run'[i] = [run[i] EXCEPT !.pc = pc, !.ver = ver, !.st = st]
          BY <1>0, <3>8, <4>2 DEF FailRead
        <5>2. pc \in {"done", "final_dlq", "fail_cas", "final_cas"}
          BY DEF AfterFailure
        <5>3. run'[i].pc = pc
          <6> HIDE DEF pc, ver, st
          <6> QED BY <2>0, <5>1 DEF RunRow
        <5> QED BY <2>c, <5>2, <5>3
      <4> QED BY <4>1, <4>2
    <3> HIDE DEF Counted
    <3> QED BY <2>1, <3>1, <3>2, <3>3, <3>4, <3>5, <3>6, <3>7, <3>8 DEF WorkerStep
  <2>2. ASSUME NEW j \in JobId, WorkerError(j) PROVE Counted
    <3>1. CASE StepRejected(j) \/ FailSwallowed(j)
      <4>1. PICK pc \in {"fail_read", "final_dlq"} : run' = [run EXCEPT ![j].pc = pc]
        BY <3>1 DEF StepRejected, FailSwallowed
      <4> QED BY <1>0, <2>b, <2>c, <4>1, RunMoves
    <3>2. CASE AttemptFailed(j) \/ DeadletterLost(j)
      <4>1. \/ run' = [run EXCEPT ![j] = NoRun]
            \/ run' = [run EXCEPT ![j] = RunAt("final_read", 0)]
        BY <3>2 DEF AttemptFailed, DeadletterLost
      <4>2. run'[i] = run[i] \/ run'[i].pc \in {"idle", "final_read"}
        BY <1>0, <4>1 DEF NoRun, RunAt
      <4> QED BY <2>b, <2>c, <4>2
    <3> QED BY <2>2, <3>1, <3>2 DEF WorkerError
  <2>3. CASE Crash
    BY <2>3, <2>c DEF Crash, NoRun, RunAt
  <2>4. CASE UNCHANGED run
    BY <2>4, <2>b
  <2>5. CASE ApiStep \/ DispatcherStep \/ DispatcherError \/ UNCHANGED vars
    <3>1. UNCHANGED run
      BY <2>5 DEF ApiStep, CallStep, CreateTask, CheckIdempotency, ReadForAction, ActionCommit,
         ActionConflict, RememberInvalid, UploadRead, UploadCommit, DispatcherStep, DispatcherError,
         Poll, DispatchAdd, DispatchMark, DispatchDeadletter, DispatchFail, DispatchAbort, vars, workVars
    <3> QED BY <2>4, <3>1
  <2> HIDE DEF Counted
  <2> QED BY <2>1, <2>2, <2>3, <2>5 DEF Next, Counted
<1> QED BY <1>1, <1>2 DEF IterationsCounted, Created, Owner

LEMMA JobsOwner ==
    /\ \A j \in JobId : Owner(j) \in Tasks /\ j \in JobsOf(Owner(j))
    /\ \A t \in Tasks : \A j \in JobsOf(t) : j \in JobId /\ Owner(j) = t
  BY DEF JobId, JobsOf, Owner

(* A new trigger event is its task's driver. *)
LEMMA EmitTriggers ==
    ASSUME IInv, EventsEmitted, NEW t \in Tasks, NEW type \in TriggerEvent, Emit(type, t),
           UNCHANGED <<job, disp>>
    PROVE  Carried(t)'
<1> PICK e \in EventId : e = nextEvent
  BY DEF Emit
<1>0. e \in Nat /\ nextEvent' = e + 1 /\ outbox \in [EventId -> EventRow]
  BY EventIdAssumption DEF Emit, IInv, TypeOK
<1>1. outbox'[e] = [type |-> type, task |-> t, status |-> "PENDING", retryCount |-> 0]
  BY <1>0 DEF Emit
<1>2. job'[<<t, e>>].state = "absent"
  BY <1>0 DEF EventsEmitted
<1>3. ~BeingMarked(e)'
  BY <1>0 DEF BeingMarked, EventsEmitted
<1>4. e < nextEvent'
  BY <1>0
<1>5. WillTrigger(t, e)'
  BY <1>1, <1>2, <1>3, <1>4 DEF WillTrigger
<1> QED BY <1>5 DEF Carried

(* Whoever changes a task's status takes care of it. *)
LEMMA MoverCares ==
    ASSUME DInv, [Next]_vars, NEW t \in Tasks, version'[t] # version[t]
    PROVE  Excused(t)' \/ Carried(t)'
<1>0. /\ version \in [Tasks -> Nat] /\ status \in [Tasks -> TaskStatus \cup {NoStatus}]
      /\ run \in [JobId -> RunRow] /\ IInv
  BY DEF DInv, IInv, TypeOK
<1>1. ASSUME NEW s \in Tasks, CreateTask(s) PROVE Excused(t)' \/ Carried(t)'
  <2>1. s = t
    BY <1>0, <1>1 DEF CreateTask
  <2>2. Emit("task.created", s) /\ UNCHANGED <<job, disp>> /\ "task.created" \in TriggerEvent
    BY <1>1 DEF CreateTask, workVars, TriggerEvent
  <2>3. Carried(s)'
    BY <2>2, EmitTriggers DEF DInv
  <2> QED BY <2>1, <2>3 DEF Carried
<1>2. ASSUME NEW r \in Requests, ActionCommit(r) PROVE Excused(t)' \/ Carried(t)'
  <2> DEFINE c  == request[r]
             to == ActionTarget(c.action)
  <2>1. c.task \in Tasks /\ c.action \in TaskActionType /\ ActionAllowed(c.action, c.st)
    BY <1>0, <1>2 DEF ActionCommit, IInv, TypeOK, Call, Planned
  <2>2. SetStatus(c.task, to)
    BY <1>2 DEF ActionCommit
  <2>3. c.task = t /\ status'[t] = to
    <3> HIDE DEF c, to
    <3> QED BY <1>0, <2>1, <2>2 DEF SetStatus
  <2>4. CASE to = "CANCELED"
    BY <2>3, <2>4 DEF Excused, isTerminalTaskStatus, TERMINAL_STATUS
  <2>5. CASE to # "CANCELED"
    <3>1. c.st = "FAILED" /\ to = "QUEUED"
      BY <2>1, <2>5 DEF ActionTarget, TaskActionType, ActionAllowed
    <3>2. PostTransitionEvent(c.st, to) = "task.retried" /\ "task.retried" \in TriggerEvent
      BY <3>1 DEF PostTransitionEvent, TriggerEvent
    <3>3. Emit(PostTransitionEvent(c.st, to), c.task) /\ UNCHANGED <<job, disp>>
      BY <1>2 DEF ActionCommit, workVars
    <3>4. Emit("task.retried", t)
      BY <2>3, <3>2, <3>3
    <3> QED BY <3>2, <3>3, <3>4, EmitTriggers DEF DInv
  <2> QED BY <2>4, <2>5
<1>3. ASSUME NEW j \in JobId, StepCommit(j) PROVE Excused(t)' \/ Carried(t)'
  <2> DEFINE to == StepTarget[run[j].st]
  <2>0. Owner(j) \in Tasks /\ SetStatus(Owner(j), to) /\ run[j].pc = "step" /\ run[j] \in RunRow
        /\ version[Owner(j)] = run[j].ver
    BY <1>0, <1>3, OwnerIn DEF StepCommit, CasMatches
  <2>1. Owner(j) = t /\ status'[t] = to /\ version'[t] = run[j].ver + 1
    <3> HIDE DEF to
    <3> QED BY <1>0, <2>0 DEF SetStatus
  <2>2. CASE to = "SUCCEEDED"
    BY <2>1, <2>2 DEF Excused, isTerminalTaskStatus, TERMINAL_STATUS
  <2>3. CASE to # "SUCCEEDED" /\ run[j].iter + 1 < MaxStepIterations
    <3>1. run' = NextIteration(j)
      BY <1>3, <2>3 DEF StepCommit
    <3>2. run'[j].pc = "read"
      BY <1>0, <2>3, <3>1 DEF NextIteration, RunAt
    <3>3. Holds(j)' /\ j \in JobsOf(t)
      BY <2>1, <3>2, JobsOwner DEF Holds, Carries
    <3> QED BY <3>3 DEF Carried, JobsOf
  <2>4. CASE ~(run[j].iter + 1 < MaxStepIterations)
    <3>1. run[j].iter < run[j].ver /\ run[j].iter \in Nat /\ run[j].ver \in Nat
      BY <2>0 DEF DInv, IterationsCounted, RunRow
    <3>2. version'[t] > MaxStepIterations
      BY <2>1, <2>4, <3>1, BoundsAssumption
    <3> QED BY <3>2 DEF Excused, OutOfIterations
  <2> QED BY <2>2, <2>3, <2>4
<1>4. ASSUME NEW j \in JobId, FailCommit(j) PROVE Excused(t)' \/ Carried(t)'
  <2>1. Owner(j) \in Tasks /\ SetStatus(Owner(j), "FAILED")
    BY <1>4, OwnerIn DEF FailCommit
  <2>2. status'[t] = "FAILED"
    BY <1>0, <2>1 DEF SetStatus
  <2> QED BY <2>2 DEF Excused, isTerminalTaskStatus, TERMINAL_STATUS
<1>5. CASE ApiStep
  <2>1. ASSUME NEW r \in Requests, CallStep(r), ~ActionCommit(r) PROVE UNCHANGED version
    BY <2>1 DEF CallStep, ReadForAction, ActionConflict, RememberInvalid, dbVars
  <2> QED BY <1>1, <1>2, <1>5, <2>1 DEF ApiStep, CheckIdempotency, UploadRead, UploadCommit, dbVars
<1>6. CASE \E j \in JobId : WorkerStep(j) \/ WorkerError(j)
  BY <1>3, <1>4, <1>6 DEF WorkerStep, WorkerError, TakeJob, ReadTask, DetectInput, StepConflict,
     Park, CompleteJob, FailRead, FailConflict, FinalDeadletter, StepRejected, AttemptFailed,
     FailSwallowed, DeadletterLost, dbVars
<1>7. CASE DispatcherStep \/ DispatcherError \/ Crash \/ UNCHANGED vars
  BY <1>7 DEF DispatcherStep, DispatcherError, Poll, DispatchAdd, DispatchMark, DispatchDeadletter,
     DispatchFail, DispatchAbort, Crash, vars, dbVars
<1> QED BY <1>5, <1>6, <1>7 DEF Next

(* A task that needs no driver gets one with what ends its rest. *)
LEMMA ExcuseKept ==
    ASSUME DInv, [Next]_vars, NEW t \in Tasks, version'[t] = version[t], Excused(t)
    PROVE  Excused(t)' \/ Carried(t)'
<1>0. /\ status'[t] = status[t] /\ hasInput \in [Tasks -> BOOLEAN] /\ upload \in [Uploads -> UploadRow]
  BY TaskMonotone DEF DInv, IInv, TypeOK
<1>1. ASSUME status[t] = NoStatus \/ isTerminalTaskStatus(status[t]) \/ OutOfIterations(t)
      PROVE  Excused(t)'
  BY <1>0, <1>1 DEF Excused, OutOfIterations
<1>2. ASSUME UploadSkippedEvent(t) PROVE Excused(t)'
  <2>1. PICK u \in Uploads : /\ upload[u].pc = "done" /\ upload[u].task = t
                             /\ isTerminalTaskStatus(upload[u].st)
    BY <1>2 DEF UploadSkippedEvent
  <2>2. upload'[u] = upload[u]
    <3>1. ASSUME NEW w \in Uploads, NEW s \in Tasks, UploadRead(w, s) PROVE upload'[u] = upload[u]
      BY <1>0, <2>1, <3>1 DEF UploadRead
    <3>2. ASSUME NEW w \in Uploads, UploadCommit(w) PROVE upload'[u] = upload[u]
      BY <1>0, <2>1, <3>2 DEF UploadCommit
    <3>3. UNCHANGED upload \/ (\E w \in Uploads, s \in Tasks : UploadRead(w, s))
          \/ \E w \in Uploads : UploadCommit(w)
      BY DEF Next, ApiStep, CallStep, CreateTask, CheckIdempotency, ReadForAction, ActionCommit,
         ActionConflict, RememberInvalid, DispatcherStep, DispatcherError, Poll, DispatchAdd,
         DispatchMark, DispatchDeadletter, DispatchFail, DispatchAbort, WorkerStep, WorkerError,
         TakeJob, ReadTask, DetectInput, StepCommit, StepConflict, Park, CompleteJob, FailRead,
         FailCommit, FailConflict, FinalDeadletter, StepRejected, AttemptFailed, FailSwallowed,
         DeadletterLost, Crash, vars, apiVars
    <3> QED BY <3>1, <3>2, <3>3
  <2> QED BY <2>1, <2>2 DEF Excused, UploadSkippedEvent
<1>3. ASSUME AwaitsInput(t), hasInput'[t] = hasInput[t] PROVE Excused(t)'
  BY <1>0, <1>3 DEF Excused, AwaitsInput
<1>4. ASSUME AwaitsInput(t), NEW u \in Uploads, UploadCommit(u) PROVE Excused(t)' \/ Carried(t)'
  <2> DEFINE s == upload[u].task
  <2>1. s \in Tasks /\ UNCHANGED <<job, disp>>
    BY <1>0, <1>4 DEF UploadCommit, UploadRow, workVars
  <2>2. CASE s # t
    <3>1. hasInput'[t] = hasInput[t]
      BY <1>0, <1>4, <2>2 DEF UploadCommit
    <3> QED BY <1>3, <1>4, <3>1
  <2>3. CASE s = t /\ isTerminalTaskStatus(upload[u].st)
    <3>1. /\ upload'[u].pc = "done" /\ upload'[u].task = t /\ upload'[u].st = upload[u].st
      BY <1>0, <1>4, <2>3 DEF UploadCommit, UploadRow
    <3> QED BY <2>3, <3>1 DEF Excused, UploadSkippedEvent
  <2>4. CASE s = t /\ ~isTerminalTaskStatus(upload[u].st)
    <3>1. Emit("task.masked", t) /\ "task.masked" \in TriggerEvent
      BY <1>4, <2>4 DEF UploadCommit, TriggerEvent
    <3> QED BY <2>1, <3>1, EmitTriggers DEF DInv
  <2> QED BY <2>2, <2>3, <2>4
<1>5. UNCHANGED hasInput \/ \E u \in Uploads : UploadCommit(u)
  BY DEF Next, ApiStep, CallStep, CreateTask, CheckIdempotency, ReadForAction, ActionCommit,
     ActionConflict, RememberInvalid, UploadRead, DispatcherStep, DispatcherError, Poll, DispatchAdd,
     DispatchMark, DispatchDeadletter, DispatchFail, DispatchAbort, WorkerStep, WorkerError,
     TakeJob, ReadTask, DetectInput, StepCommit, StepConflict, Park, CompleteJob, FailRead,
     FailCommit, FailConflict, FinalDeadletter, StepRejected, AttemptFailed, FailSwallowed,
     DeadletterLost, Crash, vars, dbVars
<1> QED BY <1>1, <1>2, <1>3, <1>4, <1>5 DEF Excused

(* A row that is to become a job is still to become one, or has.          *)
LEMMA TriggerKept ==
    ASSUME DInv, [Next]_vars, NEW t \in Tasks, NEW e \in EventId, WillTrigger(t, e)
    PROVE  WillTrigger(t, e)' \/ Holds(<<t, e>>)'
<1> DEFINE j == <<t, e>>
<1>0. /\ e \in Nat /\ nextEvent \in Nat /\ nextEvent' \in Nat /\ nextEvent <= nextEvent'
      /\ outbox \in [EventId -> EventRow] /\ job \in [JobId -> [state : JobState, made : Nat]]
      /\ j \in JobId /\ e < nextEvent /\ job[j].state = "absent" /\ outbox[e].task = t
      /\ outbox[e].type \in TriggerEvent /\ outbox[e].status \in {"PENDING", "DEAD"}
      /\ ~BeingMarked(e) /\ disp.batch \in SUBSET [id : EventId, retryCount : Nat]
  BY NextEventGrows, EventIdAssumption DEF DInv, IInv, TypeOK, JobId, BullId, WillTrigger
<1>a. e < nextEvent'
  BY <1>0
<1>b. ASSUME outbox'[e] = outbox[e], job'[j].state = "absent", ~BeingMarked(e)'
      PROVE  WillTrigger(t, e)'
  BY <1>0, <1>a, <1>b DEF WillTrigger
<1>c. UNCHANGED disp => ~BeingMarked(e)'
  BY <1>0 DEF BeingMarked, IsCurrent
<1>d. disp'.pc # "mark" => ~BeingMarked(e)'
  BY DEF BeingMarked
<1>1. CASE ApiStep \/ UNCHANGED vars
  <2>a. ASSUME NEW s \in Tasks, CreateTask(s) PROVE outbox'[e] = outbox[e]
    BY <1>0, <2>a DEF CreateTask, Emit
  <2>b. ASSUME NEW r \in Requests, ActionCommit(r) PROVE outbox'[e] = outbox[e]
    BY <1>0, <2>b DEF ActionCommit, Emit
  <2>c. ASSUME NEW u \in Uploads, UploadCommit(u) PROVE outbox'[e] = outbox[e]
    BY <1>0, <2>c DEF UploadCommit, Emit
  <2>d. ASSUME NEW r \in Requests, CallStep(r), ~ActionCommit(r) PROVE UNCHANGED outbox
    BY <2>d DEF CallStep, ReadForAction, ActionConflict, RememberInvalid, dbVars
  <2>1. outbox'[e] = outbox[e]
    BY <1>1, <2>a, <2>b, <2>c, <2>d DEF ApiStep, CheckIdempotency, UploadRead, dbVars, vars
  <2>2. UNCHANGED <<job, disp>>
    BY <1>1 DEF ApiStep, CallStep, CreateTask, CheckIdempotency, ReadForAction, ActionCommit,
       ActionConflict, RememberInvalid, UploadRead, UploadCommit, workVars, vars
  <2> QED BY <1>0, <1>b, <1>c, <2>1, <2>2
<1>2. ASSUME NEW i \in JobId, WorkerStep(i) \/ WorkerError(i) PROVE WillTrigger(t, e)'
  <2>1. outbox'[e] = outbox[e]
    BY <1>0, <1>2 DEF WorkerStep, WorkerError, TakeJob, ReadTask, DetectInput, StepCommit, StepConflict,
       Park, CompleteJob, FailRead, FailCommit, FailConflict, FinalDeadletter, StepRejected,
       AttemptFailed, FailSwallowed, DeadletterLost, Emit, dbVars
  <2>2. UNCHANGED disp
    BY <1>2 DEF WorkerStep, WorkerError, TakeJob, ReadTask, DetectInput, StepCommit, StepConflict,
       Park, CompleteJob, FailRead, FailCommit, FailConflict, FinalDeadletter, StepRejected,
       AttemptFailed, FailSwallowed, DeadletterLost
  <2>3. job'[j].state = "absent"
    BY <1>0, <1>2, WorkersAddNoEventJob DEF DInv
  <2> QED BY <1>b, <1>c, <2>1, <2>2, <2>3
<1>3. CASE Crash
  <2>1. job'[j] = job[j] /\ UNCHANGED outbox /\ disp'.pc = "idle"
    BY <1>0, <1>3 DEF Crash, dbVars
  <2> QED BY <1>0, <1>b, <1>d, <2>1
<1>4. CASE Poll
  <2>1. UNCHANGED <<outbox, job>> /\ disp'.pc = "add"
    BY <1>4 DEF Poll, dbVars
  <2> QED BY <1>0, <1>b, <1>d, <2>1
<1>5. ASSUME NEW x \in disp.batch, DispatchAdd(x) PROVE WillTrigger(t, e)' \/ Holds(j)'
  <2>1. x.id \in EventId /\ x.id \in Nat /\ <<outbox[x.id].task, x.id>> \in JobId
    BY BatchOwner, EventIdAssumption DEF DInv
  <2>2. UNCHANGED outbox /\ AddJob(<<outbox[x.id].task, x.id>>) /\ IsCurrent(x)
        /\ disp'.batch = disp.batch
    BY <1>5 DEF DispatchAdd, dbVars, DInv, IInv, TypeOK
  <2>3. CASE x.id = e
    <3>1. job'[j].state = "waiting"
      BY <1>0, <2>1, <2>2, <2>3 DEF AddJob
    <3> QED BY <3>1 DEF Holds
  <2>4. CASE x.id # e
    <3>1. job'[j] = job[j]
      BY <1>0, <2>1, <2>2, <2>4 DEF AddJob
    <3>2. ~BeingMarked(e)'
      <4>1. ASSUME NEW y \in disp.batch, y.id = e, \A z \in disp.batch : y.id <= z.id PROVE FALSE
        <5>1. x.id <= e /\ e <= x.id
          BY <2>2, <4>1 DEF IsCurrent
        <5> QED BY <1>0, <2>1, <2>4, <5>1
      <4> QED BY <2>2, <4>1 DEF BeingMarked, IsCurrent
    <3> QED BY <1>0, <1>b, <2>2, <3>1, <3>2
  <2> QED BY <2>3, <2>4
<1>6. ASSUME NEW x \in disp.batch, DispatchMark(x) PROVE WillTrigger(t, e)'
  <2>1. x.id # e
    BY <1>0, <1>6 DEF DispatchMark, BeingMarked
  <2>2. outbox'[e] = outbox[e] /\ UNCHANGED job
    BY <1>0, <1>6, <2>1 DEF DispatchMark
  <2>3. disp'.pc # "mark"
    BY <1>6 DEF DispatchMark, Advance
  <2> QED BY <1>0, <1>b, <1>d, <2>2, <2>3
<1>7. ASSUME NEW x \in disp.batch, DispatchFail(x) PROVE WillTrigger(t, e)'
  <2> DEFINE n  == x.retryCount + 1
             st == IF n > OutboxMaxRetries THEN "DEAD" ELSE outbox[x.id].status
  <2>1. outbox' = [outbox EXCEPT ![x.id] = [@ EXCEPT !.status = st, !.retryCount = n]]
    BY <1>7 DEF DispatchFail
  <2>2. UNCHANGED job /\ disp'.pc # "mark"
    BY <1>7 DEF DispatchFail, Advance, DInv, IInv, TypeOK
  <2>3. x.id = e => st \in {"PENDING", "DEAD"}
    BY <1>0
  <2> HIDE DEF n, st
  <2>4. /\ outbox'[e].task = outbox[e].task /\ outbox'[e].type = outbox[e].type
        /\ outbox'[e].status = outbox[e].status \/ (x.id = e /\ outbox'[e].status = st)
    BY <1>0, <2>1 DEF EventRow
  <2>5. outbox'[e].status \in {"PENDING", "DEAD"}
    BY <1>0, <2>3, <2>4
  <2> QED BY <1>0, <1>a, <1>d, <2>2, <2>4, <2>5 DEF WillTrigger
<1>8. ASSUME NEW x \in disp.batch, DispatchDeadletter(x) PROVE WillTrigger(t, e)'
  <2>1. UNCHANGED <<outbox, job>> /\ disp'.pc # "mark"
    BY <1>8 DEF DispatchDeadletter, Advance, dbVars
  <2> QED BY <1>0, <1>b, <1>d, <2>1
<1>9. CASE DispatchAbort
  <2>1. UNCHANGED <<outbox, job>> /\ disp'.pc # "mark"
    BY <1>9 DEF DispatchAbort, dbVars
  <2> QED BY <1>0, <1>b, <1>d, <2>1
<1> QED BY <1>1, <1>2, <1>3, <1>4, <1>5, <1>6, <1>7, <1>8, <1>9 DEF Next, DispatcherStep, DispatcherError

(* A job that has a task keeps it until the task needs no driver. *)
LEMMA HolderKept ==
    ASSUME DInv, [Next]_vars, NEW i \in JobId, version'[Owner(i)] = version[Owner(i)], Holds(i)
    PROVE  Holds(i)' \/ Excused(Owner(i))'
<1> DEFINE t == Owner(i)
           Kept == Holds(i)' \/ Excused(t)'
<1>0. /\ job \in [JobId -> [state : JobState, made : Nat]] /\ run \in [JobId -> RunRow]
      /\ t \in Tasks /\ status'[t] = status[t] /\ run[i] \in RunRow
      /\ version[t] \in Nat /\ run[i].ver \in Nat /\ run[i].iter \in Nat
  <2>1. t \in Tasks
    BY OwnerIn
  <2> QED BY <2>1, TaskMonotone DEF DInv, IInv, TypeOK, RunRow
<1>a. /\ run[i].pc \in WorkingPc <=> job[i].state = "active"
      /\ run[i].pc \in FinalPc => job[i].state = "failed"
  BY DEF DInv, JobsMatchRuns
<1>b. Carries(i) => job[i].state = "active"
  BY <1>a DEF Carries, WorkingPc
<1>c. ASSUME run'[i] = run[i], job'[i] = job[i] \/ (job[i].state = "absent" /\ job'[i].state = "waiting")
      PROVE  Holds(i)'
  BY <1>c DEF Holds, Carries, Owner
<1>d. ASSUME NEW j \in JobId, AddJob(j)
      PROVE  job'[i] = job[i] \/ (job[i].state = "absent" /\ job'[i].state = "waiting")
  BY <1>0, <1>d DEF AddJob
<1>e. ASSUME job[i].state = "failed", UNCHANGED job PROVE Holds(i)'
  BY <1>e DEF Holds
<1>1. CASE ApiStep \/ UNCHANGED vars
  <2>1. UNCHANGED <<job, run>>
    BY <1>1 DEF ApiStep, CallStep, CreateTask, CheckIdempotency, ReadForAction, ActionCommit,
       ActionConflict, RememberInvalid, UploadRead, UploadCommit, workVars, vars
  <2> QED BY <1>c, <2>1
<1>2. CASE DispatcherStep \/ DispatcherError
  <2>1. UNCHANGED <<job, run>> \/ \E x \in disp.batch : DispatchAdd(x)
    BY <1>2 DEF DispatcherStep, DispatcherError, Poll, DispatchMark, DispatchDeadletter,
       DispatchFail, DispatchAbort
  <2>2. ASSUME NEW x \in disp.batch, DispatchAdd(x) PROVE Kept
    <3>1. UNCHANGED run /\ AddJob(<<outbox[x.id].task, x.id>>)
      BY <2>2 DEF DispatchAdd
    <3> QED BY <1>c, <1>d, <3>1, BatchOwner DEF DInv
  <2> QED BY <1>c, <2>1, <2>2
<1>3. CASE Crash
  <2>1. CASE job[i].state = "active"
    BY <1>0, <1>3, <2>1 DEF Crash, Holds
  <2>2. CASE job[i].state # "active"
    BY <1>3, <1>b, <2>2 DEF Crash, Holds
  <2> QED BY <2>1, <2>2
<1>4. ASSUME NEW j \in JobId, i # j, WorkerStep(j) \/ WorkerError(j) PROVE Kept
  <2>1. run'[i] = run[i]
    BY <1>0, <1>4 DEF WorkerStep, WorkerError, TakeJob, ReadTask, DetectInput, StepCommit,
       StepConflict, NextIteration, Park, CompleteJob, FailRead, FailCommit, FailConflict,
       FinalDeadletter, StepRejected, AttemptFailed, FailSwallowed, DeadletterLost
  <2>2. <<Owner(j), Followup>> \in JobId
    BY OwnerIn DEF BullId, JobId
  <2>3. job'[i] = job[i] \/ AddJob(<<Owner(j), Followup>>)
    BY <1>0, <1>4 DEF WorkerStep, WorkerError, TakeJob, ReadTask, DetectInput, StepCommit,
       StepConflict, Park, CompleteJob, FailRead, FailCommit, FailConflict,
       FinalDeadletter, StepRejected, AttemptFailed, FailSwallowed, DeadletterLost
  <2> QED BY <1>c, <1>d, <2>1, <2>2, <2>3
<1>5. ASSUME WorkerStep(i) \/ WorkerError(i) PROVE Kept
  <2>1. CASE TakeJob(i)
    BY <1>0, <2>1 DEF TakeJob, RunAt, Holds, Carries
  <2>2. CASE ReadTask(i)
    <3> DEFINE st == status[t]
               pc == IF isTerminalTaskStatus(st) THEN "done"
                     ELSE IF st = "DETECTING" THEN "detect" ELSE "step"
               ver == version[t]
    <3>1. run'[i] = [run[i] EXCEPT !.pc = pc, !.ver = ver, !.st = st]
      BY <1>0, <2>2 DEF ReadTask
    <3>2. run'[i].pc = pc /\ run'[i].ver = ver
      <4> HIDE DEF pc, ver, st
      <4> QED BY <1>0, <3>1 DEF RunRow
    <3>3. CASE isTerminalTaskStatus(st)
      BY <1>0, <3>3 DEF Excused
    <3>4. CASE ~isTerminalTaskStatus(st)
      BY <3>2, <3>4 DEF Holds, Carries, Owner
    <3> QED BY <3>3, <3>4
  <2>3. CASE DetectInput(i)
    <3>1. run[i].pc = "detect" /\ run[i].ver = version[t]
      BY <1>a, <2>3 DEF DetectInput, Holds, Carries, WorkingPc
    <3>2. CASE hasInput[t]
      <4>1. run'[i].pc = "step"
        BY <1>0, <2>3, <3>2 DEF DetectInput, RunRow
      <4> QED BY <4>1 DEF Holds, Carries
    <3>3. CASE ~hasInput[t]
      <4>1. status[t] = "DETECTING"
        BY <3>1 DEF DInv, IInv, Planned, SnapshotsFresh, Fresh
      <4>2. UNCHANGED hasInput
        BY <2>3 DEF DetectInput, dbVars
      <4> QED BY <1>0, <3>3, <4>1, <4>2 DEF Excused, AwaitsInput
    <3> QED BY <3>2, <3>3
  <2>4. CASE StepConflict(i)
    <3>1. /\ run[i].pc = "step" /\ run' = NextIteration(i) /\ UNCHANGED version
          /\ ~CasMatches(t, run[i].ver, run[i].st)
      BY <2>4 DEF StepConflict, dbVars
    <3>2. run[i].iter < run[i].ver /\ run[i].ver < version[t]
      BY <1>0, <3>1 DEF DInv, IInv, SnapshotsFresh, Fresh, CasMatches, IterationsCounted
    <3>3. CASE run[i].iter + 1 < MaxStepIterations
      <4>1. run'[i].pc = "read"
        BY <1>0, <3>1, <3>3 DEF NextIteration, RunAt
      <4> QED BY <4>1 DEF Holds, Carries
    <3>4. CASE ~(run[i].iter + 1 < MaxStepIterations)
      <4>1. version'[t] > MaxStepIterations
        BY <1>0, <3>1, <3>2, <3>4, BoundsAssumption
      <4> QED BY <4>1 DEF Excused, OutOfIterations
    <3> QED BY <3>3, <3>4
  <2>5. CASE StepCommit(i)
    <3>1. version'[t] = version[t] + 1
      BY <1>0, <2>5 DEF StepCommit, SetStatus, DInv, IInv, TypeOK
    <3> QED BY <1>0, <3>1
  <2>6. CASE StepRejected(i)
    <3>1. run'[i].pc = "fail_read"
      BY <1>0, <2>6 DEF StepRejected, RunRow
    <3> QED BY <3>1 DEF Holds, Carries
  <2>7. CASE Park(i) \/ CompleteJob(i)
    <3>1. run[i].pc \in {"park", "done"}
      BY <2>7 DEF Park, CompleteJob
    <3>2. ~Holds(i)
      BY <1>a, <3>1 DEF Holds, Carries, WorkingPc
    <3> QED BY <3>2
  <2>8. CASE AttemptFailed(i)
    BY <1>0, <2>8 DEF AttemptFailed, Holds
  <2>9. CASE FailRead(i) /\ run[i].pc = "fail_read"
    <3> DEFINE st == status[t]
               pc == IF isTerminalTaskStatus(st) THEN "done" ELSE "fail_cas"
               ver == version[t]
    <3>1. run'[i] = [run[i] EXCEPT !.pc = pc, !.ver = ver, !.st = st]
      BY <1>0, <2>9 DEF FailRead, AfterFailure
    <3>2. run'[i].pc = pc /\ run'[i].ver = ver
      <4> HIDE DEF pc, ver, st
      <4> QED BY <1>0, <3>1 DEF RunRow
    <3>3. CASE isTerminalTaskStatus(st)
      BY <1>0, <3>3 DEF Excused
    <3>4. CASE ~isTerminalTaskStatus(st)
      BY <3>2, <3>4 DEF Holds, Carries, Owner
    <3> QED BY <3>3, <3>4
  <2>10. CASE FailCommit(i)
    <3>1. version'[t] = version[t] + 1
      BY <1>0, <2>10 DEF FailCommit, SetStatus, DInv, IInv, TypeOK
    <3> QED BY <1>0, <3>1
  <2>11. CASE FailConflict(i) /\ run[i].pc = "fail_cas"
    <3>1. run[i].ver # version[t]
      BY <1>0, <2>11 DEF FailConflict, VersionMatches
    <3>2. ~Holds(i)
      BY <1>a, <2>11, <3>1 DEF Holds, Carries, WorkingPc
    <3> QED BY <3>2
  <2>12. CASE /\ run[i].pc \in FinalPc
              /\ FailRead(i) \/ FailConflict(i) \/ FailSwallowed(i) \/ FinalDeadletter(i) \/ DeadletterLost(i)
    BY <1>a, <1>e, <2>12 DEF FailRead, FailConflict, FailSwallowed, FinalDeadletter, DeadletterLost
  <2>13. /\ FailRead(i) => run[i].pc = "fail_read" \/ run[i].pc \in FinalPc
         /\ FailConflict(i) => run[i].pc = "fail_cas" \/ run[i].pc \in FinalPc
         /\ FailSwallowed(i) \/ FinalDeadletter(i) \/ DeadletterLost(i) => run[i].pc \in FinalPc
    BY DEF FailRead, FailConflict, FailSwallowed, FinalDeadletter, DeadletterLost, FinalPc
  <2> HIDE DEF Kept
  <2> QED BY <1>5, <2>1, <2>2, <2>3, <2>4, <2>5, <2>6, <2>7, <2>8, <2>9, <2>10, <2>11, <2>12, <2>13
          DEF WorkerStep, WorkerError
<1> QED BY <1>1, <1>2, <1>3, <1>4, <1>5 DEF Next

LEMMA AttendedNext == DInv /\ [Next]_vars => Attended'
<1> SUFFICES ASSUME DInv, [Next]_vars, NEW t \in Tasks PROVE Excused(t)' \/ Carried(t)'
    BY DEF Attended
<1>1. CASE version'[t] # version[t]
  BY <1>1, MoverCares
<1>2. CASE version'[t] = version[t] /\ Excused(t)
  BY <1>2, ExcuseKept
<1>3. ASSUME version'[t] = version[t], NEW e \in EventId, WillTrigger(t, e) PROVE Carried(t)'
  <2>1. <<t, e>> \in JobsOf(t)
    BY DEF JobsOf, BullId
  <2> QED BY <1>3, <2>1, TriggerKept DEF Carried, JobsOf
<1>4. ASSUME version'[t] = version[t], NEW j \in JobsOf(t), Holds(j) PROVE Excused(t)' \/ Carried(t)'
  BY <1>4, JobsOwner, HolderKept DEF Carried, JobsOf
<1> QED BY <1>1, <1>2, <1>3, <1>4 DEF DInv, Attended, Carried

LEMMA DriversInit == Init => JobsMatchRuns /\ EventsEmitted /\ IterationsCounted /\ Attended
<1> SUFFICES ASSUME Init PROVE JobsMatchRuns /\ EventsEmitted /\ IterationsCounted /\ Attended
    OBVIOUS
<1>1. /\ \A j \in JobId : run[j].pc = "idle" /\ job[j].state = "absent"
      /\ \A t \in Tasks : status[t] = NoStatus
      /\ \A t \in Tasks, e \in EventId : <<t, e>> \in JobId
      /\ disp.batch = {}
  BY DEF Init, NoRun, RunAt, NoJob, JobId, BullId
<1>2. JobsMatchRuns
  BY <1>1 DEF JobsMatchRuns, WorkingPc, FinalPc
<1>3. EventsEmitted
  BY <1>1 DEF EventsEmitted
<1>4. IterationsCounted
  BY <1>1 DEF IterationsCounted, Created
<1>5. Attended
  BY <1>1 DEF Attended, Excused
<1> QED BY <1>2, <1>3, <1>4, <1>5

LEMMA AlwaysDInv == Spec => []DInv
<1>1. Init => DInv
  BY InitIInv, DriversInit DEF DInv
<1>2. DInv /\ [Next]_vars => DInv'
  BY NextIInv, JobsMatchRunsNext, EventsEmittedNext, IterationsCountedNext, AttendedNext DEF DInv
<1> QED BY <1>1, <1>2, PTL DEF Spec

LEMMA AttendedIsEnough == DInv => NoSilentStall
<1> SUFFICES ASSUME DInv, NEW t \in Tasks, Created(t), ~Excused(t)
             PROVE  Driven(t) \/ LeftToOperator(t)
    BY DEF NoSilentStall, Excused, AtRest, Created
<1>1. ASSUME NEW e \in EventId, WillTrigger(t, e) PROVE Driven(t) \/ LeftToOperator(t)
  BY <1>1 DEF WillTrigger, Driven, PendingTriggers, LeftToOperator
<1>2. ASSUME NEW j \in JobsOf(t), Holds(j) PROVE Driven(t) \/ LeftToOperator(t)
  BY <1>2 DEF Holds, Carries, Driven, LeftToOperator
<1> QED BY <1>1, <1>2 DEF DInv, Attended, Carried

(* A task that is neither finished nor waiting for its user is driven, or  *)
(* on record for an operator, whatever its events, jobs and handlers did   *)
(* and whichever errors and crashes they met.                              *)
THEOREM NoTaskLeftBehind == Spec => []NoSilentStall
  BY AlwaysDInv, AttendedIsEnough, PTL

(* How far a task's statuses are from its creation or last retry. *)
Stage(st) == CASE st = NoStatus        -> 0
               [] st = "QUEUED"        -> 1
               [] st = "PREPROCESSING" -> 2
               [] st = "DETECTING"     -> 3
               [] st = "INPAINTING"    -> 4
               [] st = "PACKAGING"     -> 5
               [] OTHER                -> 6

VersionsBudgeted == \A t \in Tasks : version[t] <= 6 * attempt[t] + Stage(status[t])

LEMMA VersionsBudgetedNext == IInv /\ VersionsBudgeted /\ [Next]_vars => VersionsBudgeted'
<1> SUFFICES ASSUME IInv, VersionsBudgeted, [Next]_vars, NEW t \in Tasks
             PROVE  version'[t] <= 6 * attempt'[t] + Stage(status'[t])
    BY DEF VersionsBudgeted, Stage
<1>0. /\ version[t] \in Nat /\ attempt[t] \in Nat /\ attempt'[t] \in Nat
      /\ status[t] \in TaskStatus \cup {NoStatus} /\ status[t] # "UPLOADED"
      /\ version[t] <= 6 * attempt[t] + Stage(status[t])
  BY TypeNext DEF IInv, TypeOK, VersionsBudgeted, Provenance
<1>1. TaskStep(t) /\ SettledStep(t)
  BY TaskStepNext, SettledStepNext
<1>2. CASE status'[t] = status[t]
  <2>1. ~canTransit(status[t], status[t]) \/ ~Created(t)
    BY <1>0 DEF canTransit, STATUS_TRANSITION_MAP, TaskStatus, Created
  <2>2. version'[t] = version[t]
    BY <1>1, <1>2, <2>1 DEF TaskStep, Created, NoStatus
  <2>3. attempt'[t] >= attempt[t]
    BY <1>0, <1>1 DEF SettledStep
  <2>4. Stage(status[t]) \in Nat
    BY DEF Stage
  <2> QED BY <1>0, <1>2, <2>2, <2>3, <2>4
<1>3. CASE status'[t] # status[t]
  <2>1. version'[t] = version[t] + 1
    BY <1>1, <1>3 DEF TaskStep
  <2>2. \/ attempt'[t] = attempt[t] /\ Stage(status'[t]) >= Stage(status[t]) + 1
        \/ attempt'[t] = attempt[t] + 1 /\ Stage(status[t]) = 6 /\ Stage(status'[t]) = 1
    BY <1>0, <1>1, <1>3 DEF SettledStep, Created, Stage, StepTarget, CANCELABLE_STATUS,
       TERMINAL_STATUS, TaskStatus, NoStatus
  <2>3. Stage(status[t]) \in Nat /\ Stage(status'[t]) \in Nat
    BY DEF Stage
  <2> QED BY <1>0, <2>1, <2>2, <2>3
<1> QED BY <1>2, <1>3

StallsOnlyAtRest ==
    \A t \in Tasks : Created(t) /\ 6 * (attempt[t] + 1) <= MaxStepIterations =>
        Driven(t) \/ AtRest(t) \/ UploadSkippedEvent(t)

(* A task changes its status at most six times between two retries, so     *)
(* with ORCHESTRATOR_MAX_STEP_ITERATIONS at its default, 20, the lost      *)
(* followup cannot hurt a task that has been retried at most twice.        *)
THEOREM IterationsSuffice == Spec => []StallsOnlyAtRest
<1>1. Init => VersionsBudgeted
  BY DEF Init, VersionsBudgeted, Stage
<1>2. IInv /\ NoSilentStall /\ VersionsBudgeted => StallsOnlyAtRest
  <2> SUFFICES ASSUME IInv, NoSilentStall, VersionsBudgeted, NEW t \in Tasks, Created(t),
                      6 * (attempt[t] + 1) <= MaxStepIterations
               PROVE  Driven(t) \/ AtRest(t) \/ UploadSkippedEvent(t)
      BY DEF StallsOnlyAtRest
  <2>1. /\ version[t] \in Nat /\ attempt[t] \in Nat /\ MaxStepIterations \in Nat
        /\ version[t] <= 6 * attempt[t] + Stage(status[t])
    BY BoundsAssumption DEF IInv, TypeOK, VersionsBudgeted
  <2>2. Stage(status[t]) \in 0..6
    BY DEF Stage
  <2>3. ~OutOfIterations(t)
    BY <2>1, <2>2 DEF OutOfIterations
  <2> QED BY <2>3 DEF NoSilentStall, Created
<1> QED BY <1>1, <1>2, VersionsBudgetedNext, AlwaysIInv, NoTaskLeftBehind, PTL DEF Spec

-----------------------------------------------------------------------------
(* How long a run can take. *)

(* A run's iteration is kept, begun anew or one more. *)
Iterates(i) ==
    \/ run'[i].iter = run[i].iter
    \/ run'[i].iter = 0
    \/ run[i].pc = "step" /\ run'[i].iter = run[i].iter + 1

LEMMA IteratesNext == IInv /\ [Next]_vars => \A i \in JobId : Iterates(i)
<1> SUFFICES ASSUME IInv, [Next]_vars, NEW i \in JobId PROVE Iterates(i)
    OBVIOUS
<1>0. run \in [JobId -> RunRow]
  BY DEF IInv, TypeOK
<1>a. ASSUME NEW j \in JobId, NEW pc, run' = [run EXCEPT ![j].pc = pc] PROVE Iterates(i)
  BY <1>0, <1>a, RunMoves DEF Iterates
<1>b. ASSUME NEW j \in JobId, NEW pc, NEW ver, NEW st,
             run' = [run EXCEPT ![j] = [@ EXCEPT !.pc = pc, !.ver = ver, !.st = st]]
      PROVE  Iterates(i)
  <2>1. run'[i] = run[i] \/ run'[i] = [run[i] EXCEPT !.pc = pc, !.ver = ver, !.st = st]
    BY <1>0, <1>b
  <2>2. run'[i].iter = run[i].iter
    BY <1>0, <2>1 DEF RunRow
  <2> QED BY <2>2 DEF Iterates
<1>c. ASSUME NEW j \in JobId, NEW pc, run' = [run EXCEPT ![j] = RunAt(pc, 0)] PROVE Iterates(i)
  BY <1>0, <1>c DEF Iterates, RunAt
<1>d. ASSUME NEW j \in JobId, run[j].pc = "step", run' = NextIteration(j) PROVE Iterates(i)
  BY <1>0, <1>d DEF NextIteration, Iterates, RunAt
<1>1. ASSUME NEW j \in JobId, WorkerStep(j) PROVE Iterates(i)
  <2>1. CASE DetectInput(j) \/ Park(j) \/ FailCommit(j) \/ FailConflict(j)
    BY <1>a, <2>1 DEF DetectInput, Park, FailCommit, FailConflict
  <2>2. CASE ReadTask(j) \/ FailRead(j)
    <3>1. PICK pc, ver, st : run' = [run EXCEPT ![j] = [@ EXCEPT !.pc = pc, !.ver = ver, !.st = st]]
      <4>1. CASE ReadTask(j)
        BY <4>1, Zenon DEF ReadTask
      <4>2. CASE FailRead(j)
        BY <4>2, Zenon DEF FailRead
      <4> QED BY <2>2, <4>1, <4>2
    <3> QED BY <1>b, <3>1
  <2>3. CASE StepCommit(j) \/ StepConflict(j)
    <3>1. /\ run[j].pc = "step"
          /\ run' = [run EXCEPT ![j].pc = "done"] \/ run' = NextIteration(j)
      BY <2>3 DEF StepCommit, StepConflict
    <3> QED BY <1>a, <1>d, <3>1
  <2>4. CASE TakeJob(j) \/ CompleteJob(j) \/ FinalDeadletter(j)
    BY <1>c, <2>4 DEF TakeJob, CompleteJob, FinalDeadletter, NoRun
  <2> QED BY <1>1, <2>1, <2>2, <2>3, <2>4 DEF WorkerStep
<1>2. ASSUME NEW j \in JobId, WorkerError(j) PROVE Iterates(i)
  <2>1. CASE StepRejected(j) \/ FailSwallowed(j)
    BY <1>a, <2>1 DEF StepRejected, FailSwallowed
  <2>2. CASE AttemptFailed(j) \/ DeadletterLost(j)
    BY <1>c, <2>2 DEF AttemptFailed, DeadletterLost, NoRun
  <2> QED BY <1>2, <2>1, <2>2 DEF WorkerError
<1>3. CASE Crash
  BY <1>3 DEF Crash, NoRun, RunAt, Iterates
<1>4. CASE ApiStep \/ DispatcherStep \/ DispatcherError \/ UNCHANGED vars
  <2>1. UNCHANGED run
    BY <1>4 DEF ApiStep, CallStep, CreateTask, CheckIdempotency, ReadForAction, ActionCommit,
       ActionConflict, RememberInvalid, UploadRead, UploadCommit, DispatcherStep, DispatcherError,
       Poll, DispatchAdd, DispatchMark, DispatchDeadletter, DispatchFail, DispatchAbort, vars, workVars
  <2> QED BY <2>1 DEF Iterates
<1> QED BY <1>1, <1>2, <1>3, <1>4 DEF Next

(* No run has gone round more often than its task has changed. *)
IterationsPaid == \A j \in JobId : run[j].iter <= version[Owner(j)]

LEMMA IterationsPaidNext == IInv /\ IterationsCounted /\ IterationsPaid /\ [Next]_vars => IterationsPaid'
<1> SUFFICES ASSUME IInv, IterationsCounted, IterationsPaid, [Next]_vars, NEW j \in JobId
             PROVE  run'[j].iter <= version'[Owner(j)]
    BY DEF IterationsPaid, Owner
<1>0. /\ Owner(j) \in Tasks /\ run[j].iter \in Nat /\ run[j].ver \in Nat /\ version[Owner(j)] \in Nat
      /\ version'[Owner(j)] \in Nat /\ version[Owner(j)] <= version'[Owner(j)]
      /\ run[j].iter <= version[Owner(j)]
  BY OwnerIn, TypeNext, TaskMonotone DEF IInv, TypeOK, RunRow, IterationsPaid
<1>1. Iterates(j)
  BY IteratesNext
<1>2. CASE run[j].pc = "step" /\ run'[j].iter = run[j].iter + 1
  <2>1. run[j].iter < run[j].ver /\ run[j].ver <= version[Owner(j)]
    BY <1>2 DEF IterationsCounted, IInv, SnapshotsFresh, Fresh
  <2> QED BY <1>0, <1>2, <2>1
<1> QED BY <1>0, <1>1, <1>2 DEF Iterates

RoundsBounded == \A j \in JobId : run[j].iter <= 6 * (attempt[Owner(j)] + 1)

(* The workers do not go round in circles: however often a job's snapshot  *)
(* is overtaken, its loop ends within six rounds for each time its task    *)
(* was started.                                                            *)
THEOREM WorkersDoNotSpin == Spec => []RoundsBounded
<1>1. Init => VersionsBudgeted /\ IterationsPaid
  BY OwnerIn DEF Init, VersionsBudgeted, Stage, IterationsPaid, NoRun, RunAt
<1>2. IInv /\ VersionsBudgeted /\ IterationsPaid => RoundsBounded
  <2> SUFFICES ASSUME IInv, VersionsBudgeted, IterationsPaid, NEW j \in JobId
               PROVE  run[j].iter <= 6 * (attempt[Owner(j)] + 1)
      BY DEF RoundsBounded
  <2>1. /\ Owner(j) \in Tasks /\ version[Owner(j)] \in Nat /\ attempt[Owner(j)] \in Nat
        /\ run[j].iter \in Nat /\ run[j].iter <= version[Owner(j)]
        /\ version[Owner(j)] <= 6 * attempt[Owner(j)] + Stage(status[Owner(j)])
    BY OwnerIn DEF IInv, TypeOK, RunRow, VersionsBudgeted, IterationsPaid
  <2>2. Stage(status[Owner(j)]) \in 0..6
    BY DEF Stage
  <2> QED BY <2>1, <2>2
<1>3. DInv => IInv /\ IterationsCounted
  BY DEF DInv
<1> QED BY <1>1, <1>2, <1>3, VersionsBudgetedNext, IterationsPaidNext, AlwaysDInv, PTL DEF Spec

-----------------------------------------------------------------------------
(* With operators.  A run of deadletter-replay writes the outbox and the   *)
(* queue behind the others' backs: it may turn any row's status back to    *)
(* PENDING, at whatever point the dispatcher is with it, and it may add a  *)
(* job of an id of its own for a task that exists.  Touched says so, and   *)
(* that this is all; each result then needs one more case.                 *)

(* What a dead letter may be: of a task that exists. *)
DeadLetter == [source : {"outbox.dispatch", "task.progress"}, id : JobId]
Known == {x \in DeadLetter : Created(Owner(x.id))}

ReplayRow == [rest : SUBSET Known, chunk : SUBSET Known, acted : SUBSET Known]

LettersKnown ==
    /\ dlq \subseteq Known
    /\ replay \in [Operators -> ReplayRow]

RInv == IInv /\ LettersKnown

Revived(e) ==
    /\ outbox'[e].type = outbox[e].type /\ outbox'[e].task = outbox[e].task
    /\ outbox'[e].status \in {outbox[e].status, "PENDING"}

ReplayAdded(j) ==
    /\ j[2] \in ReplayId /\ Created(Owner(j))
    /\ job[j].state = "absent" /\ job'[j].state = "waiting"

Touched ==
    /\ UNCHANGED <<status, version, hasInput, ledger, nextEvent, idem, attempt, apiVars, run, disp>>
    /\ outbox' \in [EventId -> EventRow] /\ \A e \in EventId : Revived(e)
    /\ job' \in [JobId -> [state : JobState, made : Nat]]
    /\ \A j \in JobId : job'[j] = job[j] \/ ReplayAdded(j)
    /\ dlq' \subseteq dlq
    /\ faults' \in Nat

-----------------------------------------------------------------------------
LEMMA ReplayEventTouches ==
    ASSUME RInv, NEW x, RevivedEvent(x) PROVE outbox' \in [EventId -> EventRow] /\ \A e \in EventId : Revived(e)
<1>0. outbox \in [EventId -> EventRow]
  BY DEF RInv, IInv, TypeOK
<1>1. PICK k : k = x.id[2]
  OBVIOUS
<1>2. outbox' = [outbox EXCEPT ![k].status = "PENDING", ![k].retryCount = 0]
  BY <1>1 DEF RevivedEvent
<1>3. ASSUME NEW e \in EventId
      PROVE  outbox'[e] = IF e = k THEN [outbox[e] EXCEPT !.status = "PENDING", !.retryCount = 0] ELSE outbox[e]
  <2>1. CASE e # k
    BY <1>0, <1>2, <2>1
  <2>2. CASE e = k
    BY <1>0, <1>2, <2>2
  <2> QED BY <2>1, <2>2
<1>4. outbox' \in [EventId -> EventRow]
  <2>1. ASSUME NEW e \in EventId PROVE outbox'[e] \in EventRow
    <3>1. outbox[e] \in EventRow
      BY <1>0
    <3>2. [outbox[e] EXCEPT !.status = "PENDING", !.retryCount = 0] \in EventRow
      BY <3>1 DEF EventRow
    <3> QED BY <1>3, <3>1, <3>2
  <2> QED BY <1>0, <1>2, <2>1
<1>5. \A e \in EventId : Revived(e)
  BY <1>0, <1>3 DEF Revived, EventRow
<1> QED BY <1>4, <1>5

LEMMA ReplayJobTouches ==
    ASSUME RInv, NEW x \in Known, AddReplayJob(x)
    PROVE  /\ job' \in [JobId -> [state : JobState, made : Nat]]
           /\ \A j \in JobId : job'[j] = job[j] \/ ReplayAdded(j)
<1>0. job \in [JobId -> [state : JobState, made : Nat]]
  BY DEF RInv, IInv, TypeOK
<1>1. PICK fresh \in ReplayId : AddJob(<<Owner(x.id), fresh>>)
  BY DEF AddReplayJob
<1>2. PICK i \in JobId : i = <<Owner(x.id), fresh>>
  BY <1>1 DEF Known, DeadLetter, JobId, BullId, Owner
<1>3. AddJob(i) /\ i[2] \in ReplayId /\ Owner(i) = Owner(x.id)
  BY <1>1, <1>2 DEF Owner
<1>4. ASSUME NEW j \in JobId PROVE job'[j] = job[j] \/ ReplayAdded(j)
  BY <1>0, <1>3 DEF AddJob, ReplayAdded, Known
<1> QED BY <1>3, <1>4, AddJobType DEF RInv, IInv

(* The letters that a run works on stay known. *)
LEMMA ActedKnown ==
    ASSUME LettersKnown, NEW o \in Operators, NEW x \in Known, Acted(o, x)
    PROVE  replay' \in [Operators -> ReplayRow]
  BY DEF LettersKnown, Acted, Finished, ReplayRow

OperatorStep == \E o \in Operators : StartReplay(o) \/ ReplayStep(o) \/ ReplayFails(o)

LEMMA OperatorTouches ==
    ASSUME RInv, OperatorStep
    PROVE  Touched /\ replay' \in [Operators -> ReplayRow]
<1>0. /\ outbox \in [EventId -> EventRow] /\ job \in [JobId -> [state : JobState, made : Nat]]
      /\ faults \in Nat /\ replay \in [Operators -> ReplayRow] /\ dlq \subseteq Known
  BY DEF RInv, IInv, TypeOK, LettersKnown
<1>a. ASSUME UNCHANGED <<dbVars, apiVars, run, disp, job>>, dlq' \subseteq dlq, faults' \in Nat PROVE Touched
  BY <1>0, <1>a DEF Touched, Revived, dbVars
<1>b. ASSUME NEW o \in Operators, NEW x PROVE Finished(o, x) \in [Operators -> ReplayRow]
  BY <1>0 DEF Finished, ReplayRow
<1>1. ASSUME NEW o \in Operators, StartReplay(o) PROVE Touched /\ replay' \in [Operators -> ReplayRow]
  <2>1. replay' \in [Operators -> ReplayRow]
    BY <1>0, <1>1 DEF StartReplay, Matched, ReplayRow
  <2> QED BY <1>0, <1>1, <1>a, <2>1 DEF StartReplay, vars, workVars
<1>2. ASSUME NEW o \in Operators, NextChunk(o) PROVE Touched /\ replay' \in [Operators -> ReplayRow]
  <2>1. replay' \in [Operators -> ReplayRow]
    <3>1. PICK chunk \in SUBSET replay[o].rest :
            replay' = [replay EXCEPT ![o].chunk = chunk, ![o].rest = @ \ chunk]
      BY <1>2 DEF NextChunk, ChunksOf
    <3>2. replay[o].rest \ chunk \in SUBSET Known /\ chunk \in SUBSET Known
      BY <1>0 DEF ReplayRow
    <3> QED BY <1>0, <3>1, <3>2 DEF ReplayRow
  <2> QED BY <1>0, <1>2, <1>a, <2>1 DEF NextChunk, vars, workVars
<1>3. ASSUME NEW o \in Operators, NEW x \in replay[o].chunk, ReplayJob(o, x) PROVE Touched /\ replay' \in [Operators -> ReplayRow]
  <2>1. x \in Known
    BY <1>0 DEF ReplayRow
  <2>2. replay' \in [Operators -> ReplayRow]
    BY <1>3, <2>1, ActedKnown DEF ReplayJob, RInv
  <2>3. UNCHANGED <<dbVars, apiVars, dlq, run, disp, faults>> /\ AddReplayJob(x)
    BY <1>3 DEF ReplayJob
  <2>4. Touched
    BY <1>0, <2>1, <2>3, ReplayJobTouches DEF Touched, Revived, dbVars
  <2> QED BY <2>2, <2>4
<1>4. ASSUME NEW o \in Operators, NEW x \in replay[o].chunk, ReplayEvent(o, x) PROVE Touched /\ replay' \in [Operators -> ReplayRow]
  <2>1. x \in Known
    BY <1>0 DEF ReplayRow
  <2>2. replay' \in [Operators -> ReplayRow]
    BY <1>4, <2>1, ActedKnown DEF ReplayEvent, RInv
  <2>3. UNCHANGED <<apiVars, workVars, faults>> /\ RevivedEvent(x)
    BY <1>4 DEF ReplayEvent
  <2>4. Touched
    BY <1>0, <2>3, ReplayEventTouches DEF Touched, workVars, RevivedEvent
  <2> QED BY <2>2, <2>4
<1>5. ASSUME NEW o \in Operators, NEW x, RemoveDeadletter(o, x) PROVE Touched /\ replay' \in [Operators -> ReplayRow]
  <2>1. replay' \in [Operators -> ReplayRow]
    BY <1>5, <1>b DEF RemoveDeadletter
  <2> QED BY <1>0, <1>5, <1>a, <2>1 DEF RemoveDeadletter
<1>6. ASSUME NEW o \in Operators, ReplayFails(o) PROVE Touched /\ replay' \in [Operators -> ReplayRow]
  <2>1. CASE replay' = [replay EXCEPT ![o] = NoReplay]
    <3>1. replay' \in [Operators -> ReplayRow]
      BY <1>0, <2>1 DEF NoReplay, ReplayRow
    <3> QED BY <1>0, <1>6, <1>a, <3>1 DEF ReplayFails, Fault, workVars
  <2>2. ASSUME NEW x, replay' = Finished(o, x) PROVE Touched /\ replay' \in [Operators -> ReplayRow]
    BY <1>0, <1>6, <1>a, <1>b, <2>2 DEF ReplayFails, Fault, workVars
  <2> QED BY <1>6, <2>1, <2>2 DEF ReplayFails
<1> QED BY <1>1, <1>2, <1>3, <1>4, <1>5, <1>6 DEF OperatorStep, ReplayStep

(* A dead letter is written of a task that has an event or a job.          *)
LEMMA LettersKnownNext == IInv /\ LettersKnown /\ [Next]_vars /\ UNCHANGED replay => LettersKnown'
<1> SUFFICES ASSUME IInv, LettersKnown, [Next]_vars, UNCHANGED replay PROVE LettersKnown'
    OBVIOUS
<1>0. Known \subseteq Known'
  BY TaskMonotone, OwnerIn DEF Known, DeadLetter
<1>1. ASSUME NEW x \in disp.batch, DispatchDeadletter(x) PROVE dlq' \subseteq Known'
  <2> DEFINE i == <<outbox[x.id].task, x.id>>
  <2>1. i \in JobId /\ Created(Owner(i))
    BY BatchOwner DEF IInv, Provenance, Owner
  <2>2. [source |-> "outbox.dispatch", id |-> i] \in Known
    BY <2>1 DEF Known, DeadLetter
  <2> QED BY <1>0, <1>1, <2>2 DEF DispatchDeadletter, LettersKnown
<1>2. ASSUME NEW j \in JobId, FinalDeadletter(j) PROVE dlq' \subseteq Known'
  <2>1. Created(Owner(j))
    BY <1>2 DEF FinalDeadletter, IInv, Provenance
  <2>2. [source |-> "task.progress", id |-> j] \in Known
    BY <2>1 DEF Known, DeadLetter
  <2> QED BY <1>0, <1>2, <2>2 DEF FinalDeadletter, LettersKnown
<1>3. UNCHANGED dlq => dlq' \subseteq Known'
  BY <1>0 DEF LettersKnown
<1>4. dlq' \subseteq Known'
  <2>1. CASE ApiStep \/ Crash \/ UNCHANGED vars
    BY <1>3, <2>1 DEF ApiStep, CallStep, CreateTask, CheckIdempotency, ReadForAction, ActionCommit,
       ActionConflict, RememberInvalid, UploadRead, UploadCommit, Crash, workVars, vars
  <2>2. CASE DispatcherStep \/ DispatcherError
    BY <1>1, <1>3, <2>2 DEF DispatcherStep, DispatcherError, Poll, DispatchAdd, DispatchMark,
       DispatchFail, DispatchAbort
  <2>3. CASE \E j \in JobId : WorkerStep(j) \/ WorkerError(j)
    BY <1>2, <1>3, <2>3 DEF WorkerStep, WorkerError, TakeJob, ReadTask, DetectInput, StepCommit,
       StepConflict, Park, CompleteJob, FailRead, FailCommit, FailConflict, StepRejected,
       AttemptFailed, FailSwallowed, DeadletterLost
  <2> QED BY <2>1, <2>2, <2>3 DEF Next
<1>5. replay' \in [Operators -> ReplayRow']
  BY <1>0 DEF LettersKnown, ReplayRow
<1> QED BY <1>4, <1>5 DEF LettersKnown

LEMMA TouchedKnown ==
    ASSUME LettersKnown, Touched, replay' \in [Operators -> ReplayRow] PROVE LettersKnown'
<1>1. Known' = Known
  BY DEF Touched, Known, Created
<1> QED BY <1>1 DEF Touched, LettersKnown, ReplayRow

LEMMA TouchedIInv == IInv /\ Touched => IInv'
<1> SUFFICES ASSUME IInv, Touched PROVE IInv'
    OBVIOUS
<1>1. TypeOK'
  BY DEF IInv, TypeOK, Touched, apiVars
<1>2. Provenance'
  <2>1. \A j \in JobId : job'[j].state # "absent" \/ run[j].pc # "idle" => Created(Owner(j))
    BY DEF IInv, Provenance, Touched, ReplayAdded
  <2>2. \A e \in EventId : outbox'[e].type = outbox[e].type /\ outbox'[e].task = outbox[e].task
    BY DEF Touched, Revived
  <2>3. \A x \in disp.batch : x.id \in EventId
    BY BatchOwner
  <2> QED BY <2>1, <2>2, <2>3 DEF IInv, Provenance, Touched, apiVars, Created
<1>3. Planned' /\ SnapshotsFresh'
  BY DEF IInv, Planned, SnapshotsFresh, Fresh, Touched, apiVars
<1> QED BY <1>1, <1>2, <1>3 DEF IInv

LEMMA TouchedQuiet == Touched => Quiet
  BY DEF Touched, Revived, Quiet, SameEvents

(* Every step of the whole is one of the pipeline's or touches it. *)
LEMMA ReplayCases ==
    RInv /\ [ReplayNext]_allVars => RInv' /\ ([Next]_vars \/ Touched)
<1> SUFFICES ASSUME RInv, [ReplayNext]_allVars PROVE RInv' /\ ([Next]_vars \/ Touched)
    OBVIOUS
<1>1. CASE [Next]_vars /\ UNCHANGED replay
  BY <1>1, NextIInv, LettersKnownNext DEF RInv
<1>2. CASE OperatorStep
  BY <1>2, OperatorTouches, TouchedIInv, TouchedKnown DEF RInv
<1> QED BY <1>1, <1>2 DEF ReplayNext, OperatorStep, allVars

LEMMA ReplayStarts == ReplayInit => RInv
<1> SUFFICES ASSUME ReplayInit PROVE RInv
    OBVIOUS
<1>1. IInv
  BY InitIInv DEF ReplayInit
<1>2. LettersKnown
  BY DEF ReplayInit, Init, LettersKnown, NoReplay, ReplayRow
<1> QED BY <1>1, <1>2 DEF RInv

LEMMA AlwaysRInv == ReplaySpec => []RInv
  BY ReplayStarts, ReplayCases, PTL DEF ReplaySpec

(* Every state of the pipeline with its operators is well typed. *)
THEOREM ReplayTypeCorrect == ReplaySpec => []TypeOK
<1>1. RInv => TypeOK
  BY DEF RInv, IInv
<1> QED BY <1>1, AlwaysRInv, PTL

(* Replays change no task's status: every change is still an edge of       *)
(* STATUS_TRANSITION_MAP and costs one version.                            *)
THEOREM ReplayLegalTransitions == ReplaySpec => TransitionsLegal
<1>1. RInv /\ [ReplayNext]_allVars => [LegalStep]_vars
  <2>1. IInv /\ Touched => LegalStep
    BY DEF IInv, TypeOK, Touched, LegalStep, CountIf
  <2> QED BY <2>1, ReplayCases, LegalNext DEF RInv
<1> QED BY <1>1, LegalSteps, AlwaysRInv, PTL DEF ReplaySpec

(* A replay of what was already done settles nothing twice: the ledger     *)
(* tells each task's fate.                                                 *)
THEOREM ReplayLedgerTellsFate == ReplaySpec => []LedgerSettled
<1>1. ReplayInit => LedgerSettled
  BY LedgerSettledInit DEF ReplayInit
<1>2. RInv /\ LedgerSettled /\ [ReplayNext]_allVars => LedgerSettled'
  <2>1. LedgerSettled /\ Touched => LedgerSettled'
    BY DEF LedgerSettled, Touched
  <2> QED BY <2>1, ReplayCases, LedgerSettledNext DEF RInv
<1> QED BY <1>1, <1>2, AlwaysRInv, PTL DEF ReplaySpec

(* A replayed event or job announces nothing a second time: every outcome  *)
(* has been written to the outbox exactly once.                            *)
THEOREM ReplayAnnouncesNothing == ReplaySpec => []OutcomesAnnouncedOnce
<1>1. ReplayInit => OutcomesAnnouncedOnce
  BY OutcomesInit DEF ReplayInit
<1>2. RInv /\ OutcomesAnnouncedOnce /\ [ReplayNext]_allVars => OutcomesAnnouncedOnce'
  <2>1. OutcomesAnnouncedOnce /\ Touched => OutcomesAnnouncedOnce'
    BY TouchedQuiet, EventsSame DEF OutcomesAnnouncedOnce, Quiet
  <2> QED BY <2>1, ReplayCases, OutcomesNext DEF RInv
<1> QED BY <1>1, <1>2, AlwaysRInv, PTL DEF ReplaySpec

(* With its operators at work the pipeline still carries out TaskContract. *)
THEOREM ReplayImplementsContract == ReplaySpec => ImplementsContract
<1>1. ReplayInit => Contract!Init /\ Unwritten /\ Unstarted
  BY ContractInit DEF ReplayInit, Init, Unwritten, NoEvent, Unstarted
<1>2. IInv /\ Touched => [Contract!Next]_Contract!vars
  <2> SUFFICES ASSUME IInv, Touched PROVE UNCHANGED Contract!vars
      OBVIOUS
  <2>1. UNCHANGED <<status, ledger>> /\ Notices' = Notices
    BY TouchedQuiet, NoticesSame DEF Quiet
  <2> QED BY <2>1 DEF Notices, Contract!vars
<1>3. Unwritten /\ Unstarted /\ Touched => Unwritten' /\ Unstarted'
  BY DEF Unwritten, Unstarted, Created, Touched, Revived
<1>4. RInv /\ Unwritten /\ Unstarted /\ [ReplayNext]_allVars => Unwritten' /\ Unstarted'
  BY <1>3, ReplayCases, UnwrittenNext, UnstartedNext DEF RInv
<1>5. RInv /\ Unwritten /\ Unstarted /\ LedgerSettled /\ [ReplayNext]_allVars => [Contract!Next]_Contract!vars
  BY <1>2, ReplayCases, ContractNext DEF RInv, CInv
<1> QED BY <1>1, <1>4, <1>5, AlwaysRInv, ReplayLedgerTellsFate, PTL
        DEF ReplaySpec, ImplementsContract, Contract!Spec

LEMMA TouchedDrivers == DInv /\ Touched => DInv'
<1> SUFFICES ASSUME DInv, Touched PROVE DInv'
    OBVIOUS
<1>0. /\ UNCHANGED <<status, version, hasInput, nextEvent, upload, run, disp>>
      /\ \A e \in EventId : Revived(e)
      /\ \A j \in JobId : job'[j] = job[j] \/ ReplayAdded(j)
  BY DEF Touched, apiVars
<1>1. \A j \in JobId : job[j].state # "absent" => job'[j] = job[j]
  BY <1>0 DEF ReplayAdded
<1>2. \A t \in Tasks, e \in EventId : <<t, e>> \in JobId /\ job'[<<t, e>>] = job[<<t, e>>]
  BY <1>0, ReplayIdAssumption DEF ReplayAdded, JobId, BullId
<1>3. IInv'
  BY TouchedIInv DEF DInv
<1>4. JobsMatchRuns'
  BY <1>0 DEF DInv, JobsMatchRuns, ReplayAdded, WorkingPc, FinalPc
<1>5. EventsEmitted'
  BY <1>0, <1>2 DEF DInv, EventsEmitted
<1>6. IterationsCounted'
  BY <1>0 DEF DInv, IterationsCounted, Created
<1>7. Attended'
  <2> SUFFICES ASSUME NEW t \in Tasks PROVE Excused(t)' \/ Carried(t)'
      BY DEF Attended
  <2>1. Excused(t) => Excused(t)'
    BY <1>0 DEF Excused, AwaitsInput, UploadSkippedEvent, OutOfIterations
  <2>2. ASSUME NEW e \in EventId, WillTrigger(t, e) PROVE WillTrigger(t, e)'
    BY <1>0, <1>2, <2>2 DEF WillTrigger, Revived, BeingMarked, IsCurrent
  <2>3. ASSUME NEW j \in JobsOf(t), Holds(j) PROVE Holds(j)'
    BY <1>0, <1>1, <2>3, JobsOwner DEF Holds, Carries, ReplayAdded
  <2> QED BY <2>1, <2>2, <2>3 DEF DInv, Attended, Carried, JobsOf
<1> QED BY <1>3, <1>4, <1>5, <1>6, <1>7 DEF DInv

(* No replay lets go of a task: it is still driven, finished, waiting for  *)
(* its user or on record for an operator.                                  *)
THEOREM ReplayLeavesNoTaskBehind == ReplaySpec => []NoSilentStall
<1>1. ReplayInit => DInv
  BY InitIInv, DriversInit DEF ReplayInit, DInv
<1>2. RInv /\ DInv /\ [ReplayNext]_allVars => DInv'
  <2>1. DInv /\ [Next]_vars => DInv'
    BY NextIInv, JobsMatchRunsNext, EventsEmittedNext, IterationsCountedNext, AttendedNext DEF DInv
  <2> QED BY <2>1, ReplayCases, TouchedDrivers
<1> QED BY <1>1, <1>2, AlwaysRInv, AttendedIsEnough, PTL DEF ReplaySpec
=============================================================================
