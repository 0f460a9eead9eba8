--------------------------- MODULE TaskLifecycle ---------------------------
(***************************************************************************)
(* The task state machine that the API gateway and the worker orchestrator *)
(* share: the legal transitions, what the user may ask for, what a worker  *)
(* does next, and what a transition writes to the usage ledger and to the  *)
(* outbox.  Constant-level operators only; the processes that apply them   *)
(* are in TaskPipeline.                                                    *)
(***************************************************************************)

TaskStatus == {"UPLOADED", "QUEUED", "PREPROCESSING", "DETECTING", "INPAINTING",
               "PACKAGING", "SUCCEEDED", "FAILED", "CANCELED"}

(* A task that has no row yet. *)
NoStatus == "NONE"

TERMINAL_STATUS == {"SUCCEEDED", "FAILED", "CANCELED"}

CANCELABLE_STATUS == {"QUEUED", "PREPROCESSING", "DETECTING"}

STATUS_TRANSITION_MAP ==
    [UPLOADED      |-> {"QUEUED", "FAILED", "CANCELED"},
     QUEUED        |-> {"PREPROCESSING", "FAILED", "CANCELED"},
     PREPROCESSING |-> {"DETECTING", "FAILED", "CANCELED"},
     DETECTING     |-> {"INPAINTING", "FAILED", "CANCELED"},
     INPAINTING    |-> {"PACKAGING", "FAILED"},
     PACKAGING     |-> {"SUCCEEDED", "FAILED"},
     SUCCEEDED     |-> {},
     FAILED        |-> {"QUEUED"},
     CANCELED      |-> {}]

canTransit(from, to) == to \in STATUS_TRANSITION_MAP[from]

isTerminalTaskStatus(s) == s \in TERMINAL_STATUS

(* The two user actions on an existing task. *)
TaskActionType == {"CANCEL", "RETRY"}

ActionAllowed(action, s) ==
    \/ action = "CANCEL" /\ s \in CANCELABLE_STATUS
    \/ action = "RETRY"  /\ s = "FAILED"

ActionTarget(action) == IF action = "CANCEL" THEN "CANCELED" ELSE "QUEUED"

(***************************************************************************)
(* Usage-ledger rows.  A row is identified by its (status, source) pair:   *)
(* the table's unique index is (user, task, status, source) and every      *)
(* insert skips duplicates, so a task's rows form a set.                   *)
(***************************************************************************)
Held            == "HELD:task_create"
Committed       == "COMMITTED:task_succeeded"
ReleasedCancel  == "RELEASED:task_canceled"
ReleasedFailure == "RELEASED:task_failed"

LedgerRow == {Held, Committed, ReleasedCancel, ReleasedFailure}

(* Mutant: the orchestrator does not poll for uploads. *)
TriggerWithoutMasked == {"task.created", "task.retried"}

TriggerEvent == {"task.created", "task.retried", "task.masked"}

NoticeEvent == {"task.succeeded", "task.failed", "task.canceled"}

NoEventType == "none"

EventType == TriggerEvent \cup NoticeEvent

(* Mutant: a cancel forgets to give the hold back. *)
NoReleaseOnCancel(to) == {row \in {Committed} : to = "SUCCEEDED"}

(* What an API-side transition adds to the ledger and to the outbox. *)
PostTransitionLedger(to) ==
    {row \in {Committed} : to = "SUCCEEDED"} \cup {row \in {ReleasedCancel} : to = "CANCELED"}

PostTransitionEvent(from, to) ==
    CASE to = "SUCCEEDED"                    -> "task.succeeded"
      [] to = "CANCELED"                     -> "task.canceled"
      [] from = "FAILED" /\ to = "QUEUED"    -> "task.retried"
      [] OTHER                               -> NoEventType

(***************************************************************************)
(* The worker's plan: the statuses a worker moves on from, and where to.   *)
(***************************************************************************)

(* Mutant: the last step writes a status outside the enumeration. *)
StepTargetUnknown ==
    [QUEUED        |-> "PREPROCESSING",
     PREPROCESSING |-> "DETECTING",
     DETECTING     |-> "INPAINTING",
     INPAINTING    |-> "PACKAGING",
     PACKAGING     |-> "COMPLETED"]

StepTarget ==
    [QUEUED        |-> "PREPROCESSING",
     PREPROCESSING |-> "DETECTING",
     DETECTING     |-> "INPAINTING",
     INPAINTING    |-> "PACKAGING",
     PACKAGING     |-> "SUCCEEDED"]

(* The steps that call the inference gateway, which may answer 4xx. *)
InferenceStatus == {"QUEUED", "INPAINTING", "PACKAGING"}
=============================================================================
