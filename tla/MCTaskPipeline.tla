--------------------------- MODULE MCTaskPipeline ---------------------------
(* TaskPipeline on small instances. *)
EXTENDS TaskPipeline, TLC

Interchangeable == Permutations(Requests) \cup Permutations(Uploads) \cup Permutations(Keys)

(* Bound for two tasks: calls come in only while nothing has failed, one   *)
(* job at a time.                                                          *)
CallsWithoutFaults ==
    \/ request' = [r \in Requests |-> NewCall]
    \/ faults' = 0 /\ Cardinality(ActiveJobs') <= 1
=============================================================================
