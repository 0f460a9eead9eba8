--------------------------- MODULE DeadletterReplay ---------------------------
(***************************************************************************)
(* The pipeline with its operators: runs of deadletter-replay, which put   *)
(* back to work what the dead-letter queue holds, beside the dispatcher    *)
(* and the workers that are still running.  A run with DLQ_DRY_RUN, and    *)
(* one its bulk guard refuses, does nothing and is left out.               *)
(***************************************************************************)
EXTENDS TaskPipeline

CONSTANTS
    Operators, \* runs of deadletter-replay that may be going on
    Parallel   \* DLQ_REPLAY_CONCURRENCY

ASSUME ReplayAssumption == Parallel \in Nat \ {0}

VARIABLE replay \* the runs: what each still has to replay, and what it is at

allVars == <<vars, replay>>

NoReplay == [rest |-> {}, chunk |-> {}, acted |-> {}]

ReplayInit == Init /\ replay = [o \in Operators |-> NoReplay]

-----------------------------------------------------------------------------
(* getJobs, filtered by source, task, event or time and cut to a number:   *)
(* any part of the dead letters there are.                                 *)
Matched == SUBSET dlq \ {{}}

StartReplay(o) ==
    /\ replay[o] = NoReplay
    /\ \E matched \in Matched : replay' = [replay EXCEPT ![o].rest = matched]
    /\ UNCHANGED vars

(* Parallel records at a time, and the last chunk whatever is left.        *)
ChunksOf(rest) ==
    {chunk \in SUBSET rest :
        Cardinality(chunk) = Parallel \/ (chunk = rest /\ Cardinality(rest) < Parallel)}

(* A chunk is worked off before the next is begun. *)
NextChunk(o) ==
    /\ replay[o].chunk = {} /\ replay[o].rest # {}
    /\ \E chunk \in ChunksOf(replay[o].rest) :
          replay' = [replay EXCEPT ![o].chunk = chunk, ![o].rest = @ \ chunk]
    /\ UNCHANGED vars

Finished(o, x) == [replay EXCEPT ![o].chunk = @ \ {x}, ![o].acted = @ \ {x}]

(* With DLQ_DELETE_AFTER_REPLAY the record is removed next. *)
Acted(o, x) ==
    \/ replay' = [replay EXCEPT ![o].acted = @ \cup {x}]
    \/ replay' = Finished(o, x)

(* Mutant: the job is added with the id it had. *)
SameJobId(x) == AddJob(x.id)

(* replay_<deadletterId>_<now>: an id the queue does not hold. *)
AddReplayJob(x) ==
    \E fresh \in ReplayId :
        /\ \A j \in JobId : j[2] = fresh => job[j] = NoJob
        /\ AddJob(<<Owner(x.id), fresh>>)

ReplayJob(o, x) ==
    /\ x \in replay[o].chunk \ replay[o].acted /\ x.source = "task.progress"
    /\ AddReplayJob(x)
    /\ Acted(o, x)
    /\ UNCHANGED <<dbVars, apiVars, dlq, run, disp, faults>>

(* Mutant: a new trigger event is written instead. *)
ReplayAsNewEvent(x) ==
    Emit("task.created", Owner(x.id)) /\ UNCHANGED <<status, version, hasInput, ledger, idem, attempt>>

(* updateMany by the event's id alone: whatever has become of it. *)
RevivedEvent(x) ==
    /\ outbox' = [outbox EXCEPT ![x.id[2]].status = "PENDING", ![x.id[2]].retryCount = 0]
    /\ UNCHANGED <<status, version, hasInput, ledger, nextEvent, idem, attempt>>

ReplayEvent(o, x) ==
    /\ x \in replay[o].chunk \ replay[o].acted /\ x.source = "outbox.dispatch"
    /\ RevivedEvent(x)
    /\ Acted(o, x)
    /\ UNCHANGED <<apiVars, workVars, faults>>

RemoveDeadletter(o, x) ==
    /\ x \in replay[o].acted
    /\ dlq' = dlq \ {x}
    /\ replay' = Finished(o, x)
    /\ UNCHANGED <<dbVars, apiVars, job, run, disp, faults>>

(* A statement throws, before or after the replay took effect: the outcome *)
(* is "failed" and the record stays; or the script stops.                  *)
ReplayFails(o) ==
    /\ Fault
    /\ \/ \E x \in replay[o].chunk : replay' = Finished(o, x)
       \/ replay[o] # NoReplay /\ replay' = [replay EXCEPT ![o] = NoReplay]
    /\ UNCHANGED <<dbVars, apiVars, workVars>>

-----------------------------------------------------------------------------
ReplayStep(o) ==
    \/ NextChunk(o)
    \/ \E x \in replay[o].chunk : ReplayJob(o, x) \/ ReplayEvent(o, x) \/ RemoveDeadletter(o, x)

ReplayNext ==
    \/ Next /\ UNCHANGED replay
    \/ \E o \in Operators : StartReplay(o) \/ ReplayStep(o) \/ ReplayFails(o)

ReplaySpec == ReplayInit /\ [][ReplayNext]_allVars

(* As in TaskPipeline; and a script that has been started goes on.         *)
ReplayFairness ==
    /\ \A u \in Uploads : WF_allVars(UploadCommit(u) /\ UNCHANGED replay)
    /\ WF_allVars(DispatcherStep /\ UNCHANGED replay)
    /\ \A j \in JobId : WF_allVars(WorkerStep(j) /\ UNCHANGED replay) /\ SF_allVars(TakeJob(j) /\ UNCHANGED replay)
    /\ \A o \in Operators : WF_allVars(ReplayStep(o))

FairReplaySpec == ReplaySpec /\ ReplayFairness

-----------------------------------------------------------------------------
(* A replay is not in vain: when no more faults are to come, the task of   *)
(* the dead job or event that a run has taken up is carried on until it is *)
(* finished or waits for its user's input.  The exception is an event that *)
(* is dead although its job was added: that job is in the failed set, and  *)
(* the queue ignores a second one of its id.                               *)
CarriedOn(t) == isTerminalTaskStatus(status[t]) \/ AwaitsInput(t) \/ UploadSkippedEvent(t)

TakenUp(x) == \E o \in Operators : x \in replay[o].chunk \ replay[o].acted

JobInTheWay(x) == x.source = "outbox.dispatch" /\ job[x.id].state = "failed"

ReplayTakesEffect ==
    \A t \in Tasks :
        faults = MaxFaults /\ (\E x \in dlq : Owner(x.id) = t /\ TakenUp(x) /\ ~JobInTheWay(x)) ~> CarriedOn(t)
=============================================================================
