---------------------------- MODULE TaskAdmission ----------------------------
(***************************************************************************)
(* How one user's tasks come into being: calls of createTask, each a       *)
(* transaction at READ COMMITTED that looks its idempotency key up, counts *)
(* the user's quota and inserts, while tasks that exist end, are retried,  *)
(* and the month by which the quota counts turns.                          *)
(***************************************************************************)
EXTENDS TaskLifecycle, Naturals, FiniteSets

CONSTANTS
    Tasks,     \* ids of tasks
    NoTask,    \* no task
    Calls,     \* calls of createTask, repeated by clients at will
    Keys,      \* Idempotency-Keys
    Payloads,  \* asset, media type and policy asked for
    Quota,     \* monthlyQuota of the user's plan
    LastMonth  \* bound: months

ASSUME TasksAssumption  == IsFiniteSet(Tasks) /\ NoTask \notin Tasks
ASSUME QuotaAssumption  == Quota \in Nat \ {0}
ASSUME MonthsAssumption == LastMonth \in Nat \ {0}

VARIABLES
    month,   \* the current month, UTC
    phase,   \* how the pipeline has left a task (TaskContract)
    input,   \* per task, the payload it was created with
    ledger,  \* per task, its usage rows with the month of their consumeAt
    keyTask, \* TaskIdempotencyKey: the task of a key
    create,    \* the calls
    late     \* history: tasks that came by their quota in a way no count guards

admVars == <<month, phase, input, ledger, keyTask, create, late>>

Months  == 1..LastMonth
Phase   == {"none", "running", "succeeded", "failed", "canceled"}
Outcome == {"none", "OK", "CONFLICT", "QUOTA", "ASSET", "ERROR"}

IdleCreate ==
    [pc |-> "idle", key |-> "none", payload |-> "none", month |-> 0, overlapped |-> FALSE,
     outcome |-> "none", task |-> NoTask]

AdmInit ==
    /\ month = 1
    /\ phase = [t \in Tasks |-> "none"]
    /\ input = [t \in Tasks |-> "none"]
    /\ ledger = [t \in Tasks |-> {}]
    /\ keyTask = [k \in Keys |-> NoTask]
    /\ create = [c \in Calls |-> IdleCreate]
    /\ late = {}

-----------------------------------------------------------------------------
(* The usage ledger.                                                       *)

Rows(t, m) == {row \in LedgerRow : <<row, m>> \in ledger[t]}

Released == {ReleasedCancel, ReleasedFailure}

(* What task-quota counts of a task in a month.  Every row is one unit and *)
(* a task is held and committed once, so a task weighs one or nothing.     *)
Charged(t, m) ==
    \/ Committed \in Rows(t, m)
    \/ Held \in Rows(t, m) /\ Rows(t, m) \cap Released = {}

Used(m) == Cardinality({t \in Tasks : Charged(t, m)})

(* createMany with skipDuplicates under unique(task, status, source). *)
WithRow(t, row) ==
    IF \E m \in Months : <<row, m>> \in ledger[t] THEN ledger[t] ELSE ledger[t] \cup {<<row, month>>}

AppendLedger(t, row) == ledger' = [ledger EXCEPT ![t] = WithRow(t, row)]

-----------------------------------------------------------------------------
(* createTaskWithPrisma.                                                   *)

Answer(c, outcome, t) ==
    create' = [create EXCEPT ![c].pc = "done", ![c].outcome = outcome, ![c].task = t]

Request(c, k, p) ==
    /\ create[c].pc = "idle"
    /\ create' = [create EXCEPT ![c] =
                    [pc |-> "key", key |-> k, payload |-> p, month |-> 0, overlapped |-> FALSE,
                     outcome |-> "none", task |-> NoTask]]
    /\ UNCHANGED <<month, phase, input, ledger, keyTask, late>>

(* A key that is known answers its task, if the controller finds that it   *)
(* was asked for the same.  Nothing deletes a task.                        *)
FindKey(c) ==
    LET t == keyTask[create[c].key]
    IN  /\ create[c].pc = "key"
        /\ IF t = NoTask
           THEN create' = [create EXCEPT ![c].pc = "quota"]
           ELSE Answer(c, IF input[t] = create[c].payload THEN "OK" ELSE "CONFLICT", t)
        /\ UNCHANGED <<month, phase, input, ledger, keyTask, late>>

(* Mutant: the comparison is off by one. *)
ExceededLate(used) == used > Quota

Exceeded(used) == used >= Quota

CheckQuota(c) ==
    /\ create[c].pc = "quota"
    /\ IF Exceeded(Used(month))
       THEN Answer(c, "QUOTA", NoTask)
       ELSE create' = [create EXCEPT ![c].pc = "asset", ![c].month = month]
    /\ UNCHANGED <<month, phase, input, ledger, keyTask, late>>

(* The asset exists, is the user's, and of the right type; or it is not. *)
CheckAsset(c) ==
    /\ create[c].pc = "asset"
    /\ \/ create' = [create EXCEPT ![c].pc = "insert"]
       \/ Answer(c, "ASSET", NoTask)
    /\ UNCHANGED <<month, phase, input, ledger, keyTask, late>>

(* Mutant: the table has no unique(userId, idempotencyKey). *)
KeyIsFreeAlways(k) == TRUE

KeyIsFree(k) == keyTask[k] = NoTask

(* The transactions whose count does not see this task. *)
Counted(c) == create[c].pc \in {"asset", "insert"}

(* The task, its key and its hold, in one commit. *)
Insert(c, t) ==
    LET k == create[c].key
    IN  /\ create[c].pc = "insert"
        /\ phase[t] = "none"
        /\ KeyIsFree(k)
        /\ phase' = [phase EXCEPT ![t] = "running"]
        /\ input' = [input EXCEPT ![t] = create[c].payload]
        /\ keyTask' = [keyTask EXCEPT ![k] = t]
        /\ AppendLedger(t, Held)
        /\ create' = [d \in Calls |->
                       IF d = c THEN [create[c] EXCEPT !.pc = "done", !.outcome = "OK", !.task = t]
                       ELSE [create[d] EXCEPT !.overlapped = @ \/ Counted(d)]]
        /\ late' = IF create[c].overlapped \/ create[c].month # month THEN late \cup {t} ELSE late
        /\ UNCHANGED month

(* The key was inserted by another call in the meantime, or the database   *)
(* fails: the transaction is rolled back and the client gets a 500.        *)
Fail(c) ==
    /\ create[c].pc \notin {"idle", "done"}
    /\ Answer(c, "ERROR", NoTask)
    /\ UNCHANGED <<month, phase, input, ledger, keyTask, late>>

-----------------------------------------------------------------------------
(* The pipeline and the user, as TaskContract has them.                    *)

EndRow ==
    [succeeded |-> Committed, failed |-> ReleasedFailure, canceled |-> ReleasedCancel]

End(t, outcome) ==
    /\ phase[t] = "running"
    /\ phase' = [phase EXCEPT ![t] = outcome]
    /\ AppendLedger(t, EndRow[outcome])
    /\ UNCHANGED <<month, input, keyTask, create, late>>

(* A retry neither counts the quota nor holds it. *)
Retry(t) ==
    /\ phase[t] = "failed"
    /\ phase' = [phase EXCEPT ![t] = "running"]
    /\ late' = late \cup {t}
    /\ UNCHANGED <<month, input, ledger, keyTask, create>>

NextMonth ==
    /\ month < LastMonth
    /\ month' = month + 1
    /\ UNCHANGED <<phase, input, ledger, keyTask, create, late>>

-----------------------------------------------------------------------------
CreateStep(c) ==
    \/ \E k \in Keys, p \in Payloads : Request(c, k, p)
    \/ FindKey(c) \/ CheckQuota(c) \/ CheckAsset(c)
    \/ \E t \in Tasks : Insert(c, t)
    \/ Fail(c)

TaskStep(t) == Retry(t) \/ \E outcome \in DOMAIN EndRow : End(t, outcome)

AdmNext == (\E c \in Calls : CreateStep(c)) \/ (\E t \in Tasks : TaskStep(t)) \/ NextMonth

AdmSpec == AdmInit /\ [][AdmNext]_admVars

-----------------------------------------------------------------------------
CreateType ==
    [pc : {"idle", "key", "quota", "asset", "insert", "done"},
     key : Keys \cup {"none"}, payload : Payloads \cup {"none"},
     month : 0..LastMonth, overlapped : BOOLEAN,
     outcome : Outcome, task : Tasks \cup {NoTask}]

(* The variables hold what the tables and the calls hold; a task has a row *)
(* of a status and source once, in whatever month.                         *)
AdmTypeOK ==
    /\ month \in Months
    /\ phase \in [Tasks -> Phase]
    /\ input \in [Tasks -> Payloads \cup {"none"}]
    /\ ledger \in [Tasks -> SUBSET (LedgerRow \X (1..month))]
    /\ \A t \in Tasks : \A r, s \in ledger[t] : r[1] = s[1] => r = s
    /\ keyTask \in [Keys -> Tasks \cup {NoTask}]
    /\ create \in [Calls -> CreateType]
    /\ \A c \in Calls : create[c].pc # "idle" => create[c].key \in Keys /\ create[c].month <= month
    /\ late \subseteq Tasks

(* Calls with one key that are told of a task are told of the same one,    *)
(* and only those that asked for the same are told OK, however the calls   *)
(* overlap: the unique index decides.                                      *)
SameKeySameTask ==
    \A c, d \in Calls :
        create[c].key = create[d].key /\ create[c].task # NoTask /\ create[d].task # NoTask =>
            /\ create[c].task = create[d].task
            /\ create[c].outcome = "OK" /\ create[d].outcome = "OK" => create[c].payload = create[d].payload

(* Tasks held in a month, not late, and still charged. *)
OnTime(m) == {t \in Tasks \ late : Held \in Rows(t, m) /\ Charged(t, m)}

(* A user is charged for more than the quota only by tasks that overlapped *)
(* another create, that were held in a later month than they were counted  *)
(* in, that came over from an earlier month, or that were retried: without *)
(* those, the count before the insert and the ledger keep to the quota.    *)
QuotaHolds == \A m \in Months : Cardinality(OnTime(m)) <= Quota
=============================================================================
