------------------------------ MODULE MCAccounts ------------------------------
(***************************************************************************)
(* What one account pays for, may do, is billed, is told of and has        *)
(* deleted, on small instances.  The five components share no state: a     *)
(* behaviour is one of theirs, chosen at the start, while the others rest. *)
(***************************************************************************)
EXTENDS Subscriptions, TaskAdmission, BillingReconcile, AccountDeletion, WebhookDelivery, TLC

VARIABLE part \* the component that moves

(* The processes of the components are named by the same two model values. *)
Interchangeable == Permutations(Dispatchers) \cup Permutations(Periods)

AccountsInit ==
    /\ part \in {"subscriptions", "admission", "billing", "deletion", "webhooks"}
    /\ PayInit /\ AdmInit /\ BillInit /\ DelInit /\ Init
    /\ mode = "memory" => part = "deletion"

Moves(p) == part = p /\ UNCHANGED part

AccountsNext ==
    \/ Moves("subscriptions") /\ PayNext /\ UNCHANGED <<admVars, billVars, delVars, vars>>
    \/ Moves("admission") /\ AdmNext /\ UNCHANGED <<payVars, billVars, delVars, vars>>
    \/ Moves("billing") /\ BillNext /\ UNCHANGED <<payVars, admVars, delVars, vars>>
    \/ Moves("deletion") /\ DelNext /\ UNCHANGED <<payVars, admVars, billVars, vars>>
    \/ Moves("webhooks") /\ Next /\ UNCHANGED <<payVars, admVars, billVars, delVars>>

AccountsSpec ==
    AccountsInit /\ [][AccountsNext]_<<part, payVars, admVars, billVars, delVars, vars>>
=============================================================================
