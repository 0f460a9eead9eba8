---------------------------- MODULE TaskContract ----------------------------
(***************************************************************************)
(* What the pipeline promises about one task, whoever carries it out: a    *)
(* task runs, ends in one outcome, and a failed one may run again; each    *)
(* ending settles the user's quota and posts its notice in the same        *)
(* instant.  No queue, no worker, no versions: TaskPipeline implements it. *)
(***************************************************************************)
CONSTANTS Tasks, EventId

VARIABLES
    phase,   \* where the task stands
    charge,  \* what the task takes from its user's quota, as task-quota counts it
    notice   \* the notices posted for the webhook dispatcher

vars == <<phase, charge, notice>>

Outcome == {"succeeded", "failed", "canceled"}
Blank   == [outcome |-> "none", task |-> CHOOSE t \in Tasks : TRUE]

Init ==
    /\ phase = [t \in Tasks |-> "none"]
    /\ charge = [t \in Tasks |-> "none"]
    /\ notice = [e \in EventId |-> Blank]

Start(t) ==
    /\ phase[t] = "none"
    /\ phase' = [phase EXCEPT ![t] = "running"]
    /\ charge' = [charge EXCEPT ![t] = "reserved"]
    /\ UNCHANGED notice

Post(t, outcome) ==
    \E e \in EventId :
        /\ notice[e] = Blank
        /\ notice' = [notice EXCEPT ![e] = [outcome |-> outcome, task |-> t]]

(* A success is charged; a failure or a cancel gives the quota back. *)
End(t, outcome) ==
    /\ phase[t] = "running"
    /\ phase' = [phase EXCEPT ![t] = outcome]
    /\ charge' = [charge EXCEPT ![t] = IF outcome = "succeeded" THEN "charged" ELSE "released"]
    /\ Post(t, outcome)

(* A retry reserves nothing: the task runs on what its failure gave back. *)
Retry(t) ==
    /\ phase[t] = "failed"
    /\ phase' = [phase EXCEPT ![t] = "running"]
    /\ UNCHANGED <<charge, notice>>

Next == \E t \in Tasks : Start(t) \/ Retry(t) \/ \E outcome \in Outcome : End(t, outcome)

Spec == Init /\ [][Next]_vars
=============================================================================
