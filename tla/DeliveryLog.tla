----------------------------- MODULE DeliveryLog -----------------------------
(***************************************************************************)
(* What the table of webhook deliveries promises, whoever writes it: for   *)
(* an event and an endpoint it records failures until it records one       *)
(* success, and then nothing more; what is recorded stays.                 *)
(***************************************************************************)
EXTENDS Naturals

CONSTANT Pairs   \* an endpoint and an event

VARIABLES failures, delivered

vars == <<failures, delivered>>

Init ==
    /\ failures = [p \in Pairs |-> 0]
    /\ delivered = [p \in Pairs |-> FALSE]

RecordFailure(p) ==
    /\ ~delivered[p]
    /\ failures' = [failures EXCEPT ![p] = @ + 1]
    /\ UNCHANGED delivered

RecordSuccess(p) ==
    /\ ~delivered[p]
    /\ delivered' = [delivered EXCEPT ![p] = TRUE]
    /\ UNCHANGED failures

Next == \E p \in Pairs : RecordFailure(p) \/ RecordSuccess(p)

Spec == Init /\ [][Next]_vars
=============================================================================
