-------------------------- MODULE TaskMemoryStore ---------------------------
(***************************************************************************)
(* The task service without a database: maps in the memory of the gateway, *)
(* and a file that every transaction rewrites and a restart reads.  There  *)
(* is one thread and no await inside an operation, so an operation is one  *)
(* step; what interleaves is operations, errors of the disk and restarts.  *)
(***************************************************************************)
EXTENDS TaskSimulation, Sequences, FiniteSets

CONSTANTS
    MemTasks,    \* ids of the user's tasks
    Stranger,    \* the id of a task of somebody else, or of none
    CreateKeys,  \* Idempotency-Keys of POST /v1/tasks
    ActionKeys,  \* Idempotency-Keys of cancel and retry
    Payloads,    \* uploads, each made once
    Quota,       \* FREE_MONTHLY_QUOTA
    Media,       \* the media of the user's tasks
    MaxVersion,  \* bound: versions of a task a test asks for
    MemEventId,  \* outbox rows, 1, 2, ...
    MaxMemFaults \* bound: writes that fail, answers lost and restarts

ASSUME MemoryAssumption ==
    /\ MemTasks # {} /\ Stranger \notin MemTasks
    /\ Quota \in Nat \ {0} /\ MaxVersion \in Nat /\ MaxMemFaults \in Nat /\ IsFiniteSet(Payloads)
    /\ IsFiniteSet(MemEventId) /\ MemEventId = 1..Cardinality(MemEventId)

VARIABLES
    mem,      \* the maps of the task service
    disk,     \* TASKS_STATE_FILE
    todo,     \* the tasks a listing has still to advance
    seeding,  \* are the entry points used that only tests and demos call?
    told,     \* history: the answers that arrived
    memFaults

memVars == <<mem, disk, todo, seeding, told, memFaults>>

NoTask   == [status |-> NoStatus, version |-> 0, progress |-> 0]
NoMemRow == [op |-> <<"none", Stranger>>, outcome |-> "none"]
NoInput  == [version |-> 0, payload |-> 0]

EmptyMaps ==
    [task   |-> [t \in MemTasks |-> NoTask],
     made   |-> [k \in CreateKeys |-> Stranger],
     acted  |-> [k \in ActionKeys |-> NoMemRow],
     input  |-> [kind \in UploadKind |-> [t \in MemTasks |-> NoInput]],
     ledger |-> [t \in MemTasks |-> [row \in LedgerRow |-> 0]],
     events |-> <<>>]

MemInit ==
    /\ mem = EmptyMaps
    /\ disk = EmptyMaps
    /\ todo = {}
    /\ seeding \in BOOLEAN
    /\ told = {}
    /\ memFaults = 0

-----------------------------------------------------------------------------
(* What the operations make of the maps m. *)

Exists(m, t) == m.task[t].status # NoStatus

Given(m, t) == {kind \in UploadKind : m.input[kind][t] # NoInput}

Announced(m, t, type) ==
    IF type = NoEventType THEN m ELSE [m EXCEPT !.events = Append(@, [type |-> type, task |-> t])]

Booked(m, t, rows) ==
    [m EXCEPT !.ledger[t] = [row \in LedgerRow |-> IF row \in rows THEN @[row] + 1 ELSE @[row]]]

Transitioned(m, t, to, progress) ==
    [m EXCEPT !.task[t] = [status |-> to, version |-> @.version + 1, progress |-> progress]]

(* Mutant: a task that is canceled keeps what it holds. *)
TransitedUnsettled(m, t, to, progress) ==
    Announced(Transitioned(m, t, to, progress), t, PostTransitionEvent(m.task[t].status, to))

(* transitionTaskUnsafe, then handlePostTransitionUnsafe *)
Transited(m, t, to, progress) ==
    Announced(Booked(Transitioned(m, t, to, progress), t, PostTransitionLedger(to)),
              t, PostTransitionEvent(m.task[t].status, to))

Advance(m, t) == SimulationAdvance(m.task[t].status, HasDetectionInput(Media[t], Given(m, t)))

(* countReservedUnitsInMemory *)
Units(rows) ==
    LET released == rows[ReleasedCancel] + rows[ReleasedFailure]
    IN  IF rows[Committed] > 0 THEN rows[Committed]
        ELSE IF rows[Held] > released THEN rows[Held] - released ELSE 0

UsedBy(m) == {t \in MemTasks : Units(m.ledger[t]) > 0}

ChargedFor(m) == UsedBy(m)

-----------------------------------------------------------------------------
(* runInTransaction: the snapshot is taken, the operation changes the maps *)
(* and the file is written beside the old one and renamed.  When that      *)
(* throws, the snapshot is restored and the caller gets an error.          *)

(* restoreState: the maps become what the snapshot holds of them. *)
Restored == mem

Fault(happens) ==
    /\ happens => memFaults < MaxMemFaults
    /\ memFaults' = IF happens THEN memFaults + 1 ELSE memFaults

(* An answer may be lost on its way; a page that is read again is no matter. *)
Answered(answers, lost) ==
    /\ lost => answers # {}
    /\ Fault(lost)
    /\ told' = IF lost THEN told ELSE told \cup answers

RunInTransaction(after, answers) ==
    /\ Len(after.events) <= Cardinality(MemEventId)
    /\ \/ /\ mem' = after /\ disk' = after
          /\ \E lost \in BOOLEAN : Answered(answers, lost)
       \/ /\ mem' = Restored
          /\ Fault(TRUE)
          /\ UNCHANGED <<disk, told>>
    /\ UNCHANGED seeding

(* No transaction: an answer and nothing else. *)
JustAnswer(answers) == Answered(answers, FALSE) /\ UNCHANGED <<mem, disk, todo, seeding>>

Replied(op, key, subject, outcome) ==
    {[op |-> op, key |-> key, subject |-> subject, outcome |-> outcome]}

Between == todo = {}

CreateTaskInMemory(k) ==
    /\ Between
    /\ \/ /\ mem.made[k] # Stranger
          /\ JustAnswer(Replied("create", k, "task", mem.made[k]))
       \/ /\ mem.made[k] = Stranger
          /\ Cardinality(ChargedFor(mem)) < Quota
          /\ UNCHANGED todo
          /\ \E t \in MemTasks :
                /\ ~Exists(mem, t)
                /\ RunInTransaction(
                      Announced(Booked([mem EXCEPT !.task[t] = [status |-> "QUEUED", version |-> 1, progress |-> 0],
                                                   !.made[k] = t], t, {Held}), t, "task.created"),
                      Replied("create", k, "task", t))

(* QuotaExceededError leaves nothing behind but the answer. *)
QuotaExceeded(k) ==
    /\ Between
    /\ mem.made[k] = Stranger /\ Cardinality(ChargedFor(mem)) >= Quota
    /\ JustAnswer({})

Remembered(m, k, op, outcome) == [m EXCEPT !.acted[k] = [op |-> op, outcome |-> outcome]]

(* applyTaskAction *)
ApplyTaskAction(k, action, t) ==
    LET op  == <<action, t>>
        row == mem.acted[k]
        st  == IF t = Stranger THEN NoStatus ELSE mem.task[t].status
        say(outcome) == Replied(action, k, t, outcome)
    IN  /\ Between
        /\ t # Stranger => Exists(mem, t)
        /\ \/ /\ row # NoMemRow
              /\ JustAnswer(IF row.op = op THEN say(row.outcome) ELSE {})
           \/ /\ row = NoMemRow
              /\ UNCHANGED todo
              /\ IF t = Stranger THEN RunInTransaction(Remembered(mem, k, op, "NOT_FOUND"), say("NOT_FOUND"))
                 ELSE IF ActionAllowed(action, st)
                 THEN RunInTransaction(
                         Remembered(Transited(mem, t, ActionTarget(action), 0), k, op, "SUCCESS"),
                         say("SUCCESS"))
                 ELSE RunInTransaction(Remembered(mem, k, op, "INVALID"), say("INVALID"))

(* Reading a task, or one of a list, moves it on. *)
AdvancedBySimulation(t) ==
    Transited(mem, t, Advance(mem, t), SimulationProgress[mem.task[t].status])

GetInMemory(t) ==
    /\ Between
    /\ Exists(mem, t) /\ Advance(mem, t) # NoStatus
    /\ RunInTransaction(AdvancedBySimulation(t), {})
    /\ UNCHANGED todo

ListByUserInMemory ==
    /\ Between
    /\ todo' = {t \in MemTasks : Exists(mem, t) /\ Advance(mem, t) # NoStatus}
    /\ UNCHANGED <<mem, disk, seeding, told, memFaults>>

(* Each task of a list has a transaction of its own; the first one that    *)
(* throws ends the listing.                                                *)
ListNext(t) ==
    /\ t \in todo
    /\ RunInTransaction(AdvancedBySimulation(t), {})
    /\ todo' = IF mem' = mem THEN {} ELSE todo \ {t}

(* Mutant: whatever version the upload was made from. *)
FromAnyVersion(kind, t, version) == TRUE

FromCurrentVersion(kind, t, version) ==
    mem.input[kind][t] # NoInput => version = mem.input[kind][t].version

(* upsertMaskInMemory, upsertRegionsInMemory *)
Uploaded(kind, t, p, version) ==
    LET m    == [mem EXCEPT !.input[kind][t] =
                    [version |-> (IF @ = NoInput THEN version ELSE @.version) + 1, payload |-> p]]
        task == mem.task[t]
        moved == IF task.status = "QUEUED" THEN Transitioned(m, t, "PREPROCESSING", 15)
                 ELSE [m EXCEPT !.task[t].version = @ + 1,
                                !.task[t].progress = RaiseProgress(@, UploadProgress[kind])]
    IN  IF isTerminalTaskStatus(task.status) THEN m ELSE Announced(moved, t, "task.masked")

UploadInMemory(kind, t, p, version, declared) ==
    LET say(outcome) == Replied(kind, <<p, version>>, t, outcome)
    IN  /\ Between
        /\ Exists(mem, t)
        /\ \A k \in UploadKind, x \in MemTasks : mem.input[k][x].payload < p
        /\ \A a \in told : a.op \in UploadKind => a.key[1] # p
        /\ kind = "mask" => Media[t] = "IMAGE"
        /\ \/ /\ AcceptedFor(kind, Media[t], declared) /\ FromCurrentVersion(kind, t, version)
              /\ RunInTransaction(Uploaded(kind, t, p, version),
                                  say(Uploaded(kind, t, p, version).input[kind][t].version))
              /\ UNCHANGED todo
           \/ /\ ~(AcceptedFor(kind, Media[t], declared) /\ FromCurrentVersion(kind, t, version))
              /\ JustAnswer({})

(* advanceTaskStatusInMemory and seedFailedTaskInMemory *)
AdvanceTaskStatus(t, to) ==
    /\ Between /\ seeding
    /\ Exists(mem, t) /\ canTransit(mem.task[t].status, to)
    /\ mem.task[t].version < MaxVersion
    /\ RunInTransaction(Transited(mem, t, to, mem.task[t].progress), {})
    /\ UNCHANGED todo

SeedFailedTask(t) ==
    /\ Between /\ seeding
    /\ ~Exists(mem, t)
    /\ RunInTransaction([mem EXCEPT !.task[t] = [status |-> "FAILED", version |-> 1, progress |-> 100]],
                        {})
    /\ UNCHANGED todo

(* Mutant: the answers to cancel and retry are not read back. *)
RevivedWithoutActions(file) == [file EXCEPT !.acted = EmptyMaps.acted]

(* revivePersistedState *)
Revived(file) == file

RestartInMemory ==
    /\ Fault(TRUE)
    /\ mem' = Revived(disk)
    /\ todo' = {}
    /\ UNCHANGED <<disk, seeding, told>>

-----------------------------------------------------------------------------
MemNext ==
    \/ \E k \in CreateKeys : CreateTaskInMemory(k) \/ QuotaExceeded(k)
    \/ \E k \in ActionKeys, action \in TaskActionType, t \in MemTasks \cup {Stranger} :
          ApplyTaskAction(k, action, t)
    \/ \E t \in MemTasks : GetInMemory(t) \/ ListNext(t) \/ SeedFailedTask(t)
    \/ ListByUserInMemory
    \/ \E kind \in UploadKind, t \in MemTasks, p \in Payloads, version \in 0..Cardinality(Payloads),
          declared \in {"IMAGE", "VIDEO"} :
          UploadInMemory(kind, t, p, version, declared)
    \/ \E t \in MemTasks, to \in TaskStatus : AdvanceTaskStatus(t, to)
    \/ RestartInMemory

MemSpec == MemInit /\ [][MemNext]_memVars

-----------------------------------------------------------------------------
Maps ==
    [task   : [MemTasks -> [status : TaskStatus \cup {NoStatus}, version : Nat, progress : 0..100]],
     made   : [CreateKeys -> MemTasks \cup {Stranger}],
     acted  : [ActionKeys -> [op : (TaskActionType \cup {"none"}) \X (MemTasks \cup {Stranger}),
                              outcome : {"none", "SUCCESS", "INVALID", "NOT_FOUND"}]],
     input  : [UploadKind -> [MemTasks -> [version : Nat, payload : Payloads \cup {0}]]],
     ledger : [MemTasks -> [LedgerRow -> Nat]],
     events : Seq([type : EventType, task : MemTasks])]

MemTypeOK ==
    /\ mem \in Maps /\ disk \in Maps
    /\ todo \subseteq MemTasks
    /\ seeding \in BOOLEAN
    /\ memFaults \in 0..MaxMemFaults

(* A key stands for one call: whoever repeats it, before or after a        *)
(* restart, is told the same; a key of one action tells nothing of another.*)
KeysTellTheSame ==
    \A a, b \in told :
        (a.op = b.op /\ a.key = b.key /\ a.subject = b.subject
         /\ a.op \in {"create"} \cup TaskActionType) => a.outcome = b.outcome

(* The user pays for every task made that has not been canceled, once, and *)
(* never for more than the quota: neither a retry nor a cancel after a     *)
(* retry, nor a call that failed and was repeated, takes or gives twice.   *)
ChargedUnlessCanceled ==
    /\ \A t \in MemTasks :
          mem.ledger[t][Held] > 0 =>
              /\ t \in UsedBy(mem) <=> mem.task[t].status # "CANCELED"
              /\ \A row \in LedgerRow : mem.ledger[t][row] <= 1
    /\ ~seeding => Cardinality(UsedBy(mem)) <= Quota

(* Two uploads that were accepted were never made from the same version,   *)
(* nor given the same one, and none newer than what is stored: nobody      *)
(* overwrites what he has not seen.                                        *)
NoUploadLost ==
    \A kind \in UploadKind : \A a, b \in {x \in told : x.op = kind} :
        /\ a.subject = b.subject /\ (a.outcome = b.outcome \/ a.key[2] = b.key[2]) => a.key = b.key
        /\ a.outcome <= mem.input[kind][a.subject].version

-----------------------------------------------------------------------------
(* Refinement: without a database the task service promises what the       *)
(* pipeline promises.                                                      *)

MemPhase(st) == CASE st = NoStatus    -> "none"
                  [] st = "SUCCEEDED" -> "succeeded"
                  [] st = "FAILED"    -> "failed"
                  [] st = "CANCELED"  -> "canceled"
                  [] OTHER            -> "running"

MemCharge(rows) ==
    IF rows[Committed] > 0           THEN "charged"
    ELSE IF rows[ReleasedCancel] > 0 THEN "released"
    ELSE IF rows[Held] > 0           THEN "reserved" ELSE "none"

MemNotice(e) ==
    LET row == mem.events[e]
    IN  IF e > Len(mem.events) \/ row.type \notin NoticeEvent
        THEN [outcome |-> "none", task |-> CHOOSE t \in MemTasks : TRUE]
        ELSE [outcome |-> IF row.type = "task.succeeded" THEN "succeeded" ELSE "canceled",
              task |-> row.task]

MemContract == INSTANCE TaskContract WITH
    Tasks   <- MemTasks,
    EventId <- MemEventId,
    phase   <- [t \in MemTasks |-> MemPhase(mem.task[t].status)],
    charge  <- [t \in MemTasks |-> MemCharge(mem.ledger[t])],
    notice  <- [e \in MemEventId |-> MemNotice(e)]

(* As long as no test fails a task: each operation is one step of the      *)
(* contract or invisible to it.                                            *)
MemoryImplementsContract ==
    MemContract!Init /\ [][seeding \/ MemContract!Next]_(MemContract!vars)
=============================================================================
