------------------------------ MODULE MCPipeline ------------------------------
(***************************************************************************)
(* One task of the pipeline: with its users only, or with operators who    *)
(* replay its dead letters beside them.  A behaviour is of one of the two  *)
(* parts, chosen at the start.                                             *)
(***************************************************************************)
EXTENDS DeadletterReplay, TLC

VARIABLE part \* "users" or "operators"

Interchangeable == Permutations(Operators) \cup Permutations(ReplayId)

PipelineInit == ReplayInit /\ part \in {"users", "operators"}

(* Bound without operators: one job at a time.                             *)
OneJob == Cardinality(ActiveJobs') <= 1

(* Bounds with operators.  Up to the fault nobody calls, there is one job  *)
(* at a time, and the upload has been made before anything is dispatched;  *)
(* the fault is one that leads to a dead letter.                           *)
DeadletterFirst ==
    /\ faults = 0 => /\ OneJob
                     /\ request' = request
                     /\ disp'.pc = "idle" \/ \A t \in Tasks : hasInput[t]
    /\ faults' # faults => \/ \E e \in disp.batch : DispatchFail(e)
                           \/ \E j \in JobId : AttemptFailed(j)

(* A second job begins when the task is in its last step or at an end.     *)
SecondJobLate ==
    Cardinality(ActiveJobs') > 1 /\ ActiveJobs' # ActiveJobs =>
        \A t \in Tasks : status[t] \in {"PACKAGING"} \cup TERMINAL_STATUS

(* A call reads the task as soon as it has checked its key, a job that is  *)
(* done completes, and an operator's run pauses only before it replays a   *)
(* record and removes the records it has replayed.                         *)
GoesOn ==
    /\ \A r \in Requests : request[r].pc \in {"checked", "invalid"} => request' # request
    /\ (\E j \in JobId : run[j].pc = "done") => job' # job
    /\ \A o \in Operators :
          /\ replay[o].rest # {} \/ replay[o].acted # {} => replay' # replay
          /\ (replay[o].chunk \ replay'[o].chunk) \cap dlq' = {}

PipelineNext ==
    /\ UNCHANGED part
    /\ \/ part = "users" /\ Next /\ UNCHANGED replay /\ OneJob
       \/ part = "operators" /\ ReplayNext /\ DeadletterFirst /\ SecondJobLate /\ GoesOn

PipelineSpec == PipelineInit /\ [][PipelineNext]_<<allVars, part>>
=============================================================================
