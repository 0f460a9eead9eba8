---------------------------- MODULE MCAdminConsole ----------------------------
(***************************************************************************)
(* AdminConsole on a small instance: the free plan, one that is paid for,  *)
(* and one that may be added.                                              *)
(***************************************************************************)
EXTENDS AdminConsole, TLC

VARIABLE part \* what moves beside the console: the user, or the list of plans

APlan(name, quota, active) == [name |-> name, quota |-> quota, active |-> active]

TwoPlans ==
    [id \in PlanIds |-> CASE id = "free" -> APlan("Free", 1, TRUE)
                          [] id = "pro"  -> APlan("Pro", 2, TRUE)
                          [] OTHER       -> NoPlan]

OnePlanTwice ==
    {[id |-> "new", row |-> APlan("New", 2, TRUE)], [id |-> "new", row |-> APlan("Pro", 2, TRUE)]}

RetireRenameEmpty ==
    {APlan(NoPlan, NoPlan, FALSE), APlan("New", NoPlan, NoPlan), APlan(NoPlan, 0, TRUE)}

(* Bound: while the user uses the quota, only quotas and sales change, and *)
(* no one looks at the list or the trail.                                  *)
OfQuota(op) ==
    \/ op[1] = "plan.create" /\ op[3].name = "New"
    \/ op[1] = "plan.update" /\ op[3].name = NoPlan

UserMoves ==
    /\ UNCHANGED <<listing, trail, serviceVars>>
    /\ \A c \in ConsoleCalls : console'[c].pc # "new" => console'[c].role = "admin" /\ OfQuota(console'[c].op)

(* Bound: while operators work, the user rests, and no quota is changed. *)
OperatorsMove ==
    /\ UNCHANGED <<order, used, inquiry>>
    /\ \A c \in ConsoleCalls : console'[c].op[1] = "plan.update" => console'[c].op[3].quota = NoPlan

PartInit == ConsoleInit /\ part \in {"user", "operators"}

PartNext ==
    /\ ConsoleNext
    /\ UNCHANGED part
    /\ part = "user" => UserMoves
    /\ part = "operators" => OperatorsMove

PartSpec == PartInit /\ [][PartNext]_<<part, consoleVars>>
=============================================================================
