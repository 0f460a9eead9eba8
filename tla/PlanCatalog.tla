---------------------------- MODULE PlanCatalog ----------------------------
(***************************************************************************)
(* The plans, and the quota that the plan of one user stands for: as the   *)
(* creation of a task enforces it, and as GET /v1/usage/me tells it.  Plans *)
(* and orders are in tables and, for the statements that the database does *)
(* not answer, in the memory of the gateway.  Prices, features and the     *)
(* order of a list are shown and decide nothing: a plan is its name, its   *)
(* monthly quota and whether it is on sale.                                *)
(***************************************************************************)
EXTENDS Naturals, FiniteSets

CONSTANTS
    PlanIds,      \* planId
    PlanNames,    \* names of plans, no two of which differ in case only
    PlanQuotas,   \* monthly quotas
    Free,         \* the plan "free"
    FreeQuota,    \* FREE_MONTHLY_QUOTA, and the 20 of getMyUsage
    DefaultPlans, \* DEFAULT_PLANS, which the migration puts into the table too
    NoPlan,       \* no such plan; no order in force
    Readers,      \* clients that ask for their usage
    MaxUsed,      \* bound: units in the user's ledger
    PlanMaxFaults \* bound: statements that fail and restarts of the gateway

Plan == [name : PlanNames, quota : PlanQuotas, active : BOOLEAN]

ASSUME PlansAssumption ==
    /\ PlanQuotas \subseteq Nat /\ FreeQuota \in Nat \ {0}
    /\ IsFiniteSet(PlanIds) /\ Free \in PlanIds /\ NoPlan \notin PlanIds \cup Plan
    /\ DefaultPlans \in [PlanIds -> Plan \cup {NoPlan}]
    /\ MaxUsed \in Nat /\ PlanMaxFaults \in Nat

VARIABLES
    planStore,   \* preferPrismaStore: "prisma" or "memory"
    planTable,   \* the table plans
    memoryPlans, \* memoryPlans
    order,       \* per place, the plan of the user's order in force
    used,        \* units held or committed in the user's ledger this month
    inquiry,       \* getMyUsage, per reader
    listing,     \* listPlansForAdmin
    planFaults

userVars == <<order, used>>
planVars == <<planStore, planTable, memoryPlans, order, used, inquiry, listing, planFaults>>

NoList == [id \in {} |-> 0]

IdleUsage ==
    [pc |-> "idle", list |-> NoList, total |-> 0, left |-> 0, fresh |-> FALSE, clean |-> FALSE]

NoneListed  == [id \in PlanIds |-> NoPlan]
IdleListing ==
    [pc |-> "idle", wanted |-> {}, counted |-> FALSE, total |-> 0, found |-> FALSE,
     plans |-> NoneListed, fresh |-> FALSE]

PlanInit ==
    /\ planStore \in {"prisma", "memory"}
    /\ planTable = DefaultPlans
    /\ memoryPlans = DefaultPlans
    /\ order = [p \in {"db", "memory"} |-> NoPlan]
    /\ used = 0
    /\ inquiry = [r \in Readers |-> IdleUsage]
    /\ listing = IdleListing
    /\ planFaults = 0

-----------------------------------------------------------------------------
(* A statement is answered by its place: the table, or memory when there   *)
(* is no database or the database fails.                                   *)
Answers(p) ==
    /\ p = "db" => planStore = "prisma"
    /\ planFaults' = IF planStore = "prisma" /\ p = "memory" THEN planFaults + 1 ELSE planFaults
    /\ planFaults' <= PlanMaxFaults

Heard(p) == planStore = "prisma" => p = "db"

(* History: an answer on its way, or given, is no longer of this moment.   *)
Stale(record) == [record EXCEPT !.fresh = FALSE]

UsageIsOld   == inquiry' = [r \in Readers |-> Stale(inquiry[r])]
ListingIsOld == listing' = Stale(listing)

-----------------------------------------------------------------------------
(* createPlan and updatePlan.                                              *)

Exists(catalog, id) == catalog[id] # NoPlan

NameTaken(catalog, id, name) ==
    \E other \in PlanIds \ {id} : Exists(catalog, other) /\ catalog[other].name = name

(* plan.create: P2002 for the primary key or uk_plans_name. *)
CreateInTable(id, row, answer) ==
    IF Exists(planTable, id) \/ NameTaken(planTable, id, row.name)
    THEN answer = "CONFLICT" /\ UNCHANGED planTable
    ELSE answer = "SUCCESS" /\ planTable' = [planTable EXCEPT ![id] = row]

CreateInMemory(id, row, answer) ==
    IF Exists(memoryPlans, id)
    THEN answer = "CONFLICT" /\ UNCHANGED memoryPlans
    ELSE answer = "SUCCESS" /\ memoryPlans' = [memoryPlans EXCEPT ![id] = row]

(* plan.update: P2025 without a row, P2002 for uk_plans_name. *)
UpdateInTable(id, row, answer) ==
    IF ~Exists(planTable, id) THEN answer = "NOT_FOUND" /\ UNCHANGED planTable
    ELSE IF NameTaken(planTable, id, row.name) THEN answer = "CONFLICT" /\ UNCHANGED planTable
    ELSE answer = "SUCCESS" /\ planTable' = [planTable EXCEPT ![id] = row]

(* Only a name that the call gives is compared; row is what it would leave. *)
UpdateInMemory(id, row, named, answer) ==
    IF ~Exists(memoryPlans, id) THEN answer = "NOT_FOUND" /\ UNCHANGED memoryPlans
    ELSE IF named /\ NameTaken(memoryPlans, id, row.name)
         THEN answer = "CONFLICT" /\ UNCHANGED memoryPlans
    ELSE answer = "SUCCESS" /\ memoryPlans' = [memoryPlans EXCEPT ![id] = row]

(* What a PATCH leaves of a row; NoPlan stands for a field it does not have. *)
Patched(row, patch) ==
    IF row = NoPlan THEN NoPlan
    ELSE [name   |-> IF patch.name = NoPlan THEN row.name ELSE patch.name,
          quota  |-> IF patch.quota = NoPlan THEN row.quota ELSE patch.quota,
          active |-> IF patch.active = NoPlan THEN row.active ELSE patch.active]

(* A write that is answered by memory may have reached the table all the same. *)
createPlan(p, id, row, answer) ==
    /\ Answers(p)
    /\ IF p = "db" THEN CreateInTable(id, row, answer) /\ UNCHANGED memoryPlans
       ELSE /\ CreateInMemory(id, row, answer)
            /\ \/ UNCHANGED planTable
               \/ planStore = "prisma" /\ CreateInTable(id, row, "SUCCESS")
    /\ UsageIsOld /\ ListingIsOld
    /\ UNCHANGED <<planStore, userVars>>

updatePlan(p, id, patch, answer) ==
    /\ Answers(p)
    /\ IF p = "db"
       THEN UpdateInTable(id, Patched(planTable[id], patch), answer) /\ UNCHANGED memoryPlans
       ELSE /\ UpdateInMemory(id, Patched(memoryPlans[id], patch), patch.name # NoPlan, answer)
            /\ \/ UNCHANGED planTable
               \/ /\ planStore = "prisma"
                  /\ UpdateInTable(id, Patched(planTable[id], patch), "SUCCESS")
    /\ UsageIsOld /\ ListingIsOld
    /\ UNCHANGED <<planStore, userVars>>

-----------------------------------------------------------------------------
(* What the user may use.                                                  *)

InForce(p) == IF order[p] = NoPlan THEN Free ELSE order[p]

QuotaOf(id) == IF Exists(planTable, id) THEN planTable[id].quota ELSE 0

(* resolveMonthlyQuotaWithPrisma, and checkInMemory's free quota. *)
Enforced ==
    IF planStore = "memory" THEN FreeQuota
    ELSE IF QuotaOf(InForce("db")) > 0 THEN QuotaOf(InForce("db"))
    ELSE IF QuotaOf(Free) > 0 THEN QuotaOf(Free)
    ELSE FreeQuota

(* A task is created: a unit is held. *)
HoldUnit ==
    /\ used < Enforced /\ used < MaxUsed
    /\ used' = used + 1
    /\ UsageIsOld
    /\ UNCHANGED <<planStore, planTable, memoryPlans, order, listing, planFaults>>

(* A task fails or is canceled, or a month begins. *)
ReleaseUnits ==
    /\ \E n \in 0..used : used' = n /\ n # used
    /\ UsageIsOld
    /\ UNCHANGED <<planStore, planTable, memoryPlans, order, listing, planFaults>>

(* An order comes into force, expires or is refunded (Subscriptions): in   *)
(* the table, or in memory when the database does not answer.              *)
OrderChanges(p) ==
    /\ Answers(p)
    /\ \E id \in PlanIds \cup {NoPlan} :
        /\ id # order[p]
        /\ id # NoPlan => Exists(planTable, id) \/ Exists(memoryPlans, id)
        /\ order' = [order EXCEPT ![p] = id]
    /\ UsageIsOld
    /\ UNCHANGED <<planStore, planTable, memoryPlans, used, listing>>

-----------------------------------------------------------------------------
(* getMyUsage: three reads, each answered by its own place.                *)

OnSale(catalog)  == {id \in PlanIds : Exists(catalog, id) /\ catalog[id].active}
Offered(catalog) == [id \in OnSale(catalog) |-> catalog[id].quota]

(* listPlans: the plans in memory also stand in for a table without a plan on sale. *)
Listed(p) ==
    IF p = "db" /\ OnSale(planTable) # {} THEN Offered(planTable) ELSE Offered(memoryPlans)

TellsUsage(r, p, record) ==
    /\ Answers(p)
    /\ inquiry' = [inquiry EXCEPT ![r] = [record EXCEPT !.clean = record.clean /\ Heard(p)]]
    /\ UNCHANGED <<planStore, planTable, memoryPlans, userVars, listing>>

ListPlans(r, p) ==
    /\ inquiry[r].pc \in {"idle", "done"}
    /\ TellsUsage(r, p, [IdleUsage EXCEPT !.pc = "plan", !.list = Listed(p),
                                          !.fresh = TRUE, !.clean = TRUE])

(* Mutant: the plan of the order is not looked up. *)
TotalOfFree(list, id) ==
    IF Free \in DOMAIN list /\ list[Free] # 0 THEN list[Free] ELSE FreeQuota

(* The plan of the order, else the free plan; 0 is no quota. *)
TotalOf(list, id) ==
    LET plan == IF id \in DOMAIN list THEN id ELSE Free
    IN  IF plan \in DOMAIN list /\ list[plan] # 0 THEN list[plan] ELSE FreeQuota

(* An order in the table, else in memory. *)
Resolved(p) == IF p = "db" /\ order["db"] # NoPlan THEN order["db"] ELSE InForce("memory")

ResolveActivePlanId(r, p) ==
    /\ inquiry[r].pc = "plan"
    /\ TellsUsage(r, p, [inquiry[r] EXCEPT !.pc = "ledger", !.list = NoList,
                                         !.total = TotalOf(inquiry[r].list, Resolved(p))])

CountUnits(r, p) ==
    /\ inquiry[r].pc = "ledger"
    /\ TellsUsage(r, p, [inquiry[r] EXCEPT !.pc = "done",
                            !.left = IF p = "memory" THEN inquiry[r].total
                                     ELSE IF used > inquiry[r].total THEN 0
                                     ELSE inquiry[r].total - used])

-----------------------------------------------------------------------------
(* listPlansForAdmin: count and findMany, in any order.  The promise is    *)
(* returned and not awaited, so its error is the caller's: the plans in    *)
(* memory are told only without a database.                                *)

Wanted(catalog, wanted) ==
    [id \in PlanIds |-> IF Exists(catalog, id) /\ catalog[id].active \in wanted THEN catalog[id] ELSE NoPlan]

Total(catalog) == Cardinality({id \in PlanIds : catalog[id] # NoPlan})

listPlansForAdmin(wanted) ==
    /\ listing.pc \in {"idle", "done", "error"}
    /\ listing' = [IdleListing EXCEPT !.pc = "read", !.wanted = wanted, !.fresh = TRUE]
    /\ UNCHANGED <<planStore, planTable, memoryPlans, userVars, inquiry, planFaults>>

Tells(record) ==
    listing' = IF record.counted /\ record.found THEN [record EXCEPT !.pc = "done"] ELSE record

CountPlans ==
    /\ listing.pc = "read" /\ ~listing.counted /\ planStore = "prisma"
    /\ Tells([listing EXCEPT !.counted = TRUE, !.total = Total(Wanted(planTable, listing.wanted))])
    /\ UNCHANGED <<planStore, planTable, memoryPlans, userVars, inquiry, planFaults>>

FindPlans ==
    /\ listing.pc = "read" /\ ~listing.found /\ planStore = "prisma"
    /\ Tells([listing EXCEPT !.found = TRUE, !.plans = Wanted(planTable, listing.wanted)])
    /\ UNCHANGED <<planStore, planTable, memoryPlans, userVars, inquiry, planFaults>>

ListingFails ==
    /\ listing.pc = "read" /\ planStore = "prisma" /\ planFaults < PlanMaxFaults
    /\ planFaults' = planFaults + 1
    /\ listing' = [IdleListing EXCEPT !.pc = "error"]
    /\ UNCHANGED <<planStore, planTable, memoryPlans, userVars, inquiry>>

ListFromMemory ==
    /\ listing.pc = "read" /\ planStore = "memory"
    /\ listing' = [listing EXCEPT !.pc = "done", !.plans = Wanted(memoryPlans, listing.wanted),
                                  !.total = Total(Wanted(memoryPlans, listing.wanted))]
    /\ UNCHANGED <<planStore, planTable, memoryPlans, userVars, inquiry, planFaults>>

-----------------------------------------------------------------------------
(* The memory of the gateway is gone, and what was on the way with it.     *)
PlansForgotten ==
    /\ memoryPlans' = DefaultPlans
    /\ order' = [order EXCEPT !["memory"] = NoPlan]
    /\ used' \in {used} \cup (IF planStore = "memory" THEN {0} ELSE {})
    /\ inquiry' = [r \in Readers |-> IdleUsage]
    /\ listing' = IdleListing
    /\ UNCHANGED <<planStore, planTable>>

UserNext ==
    \/ HoldUnit \/ ReleaseUnits
    \/ \E p \in {"db", "memory"} :
        \/ OrderChanges(p)
        \/ \E r \in Readers : ListPlans(r, p) \/ ResolveActivePlanId(r, p) \/ CountUnits(r, p)

ListingNext ==
    \/ \E wanted \in {{TRUE}, {FALSE}, BOOLEAN} : listPlansForAdmin(wanted)
    \/ CountPlans \/ FindPlans \/ ListingFails \/ ListFromMemory

-----------------------------------------------------------------------------
Catalogs == [PlanIds -> Plan \cup {NoPlan}]
Offers   == UNION {[ids -> PlanQuotas] : ids \in SUBSET PlanIds}

Inquiry == [pc : {"idle", "plan", "ledger", "done"}, list : Offers,
            total : Nat, left : Nat, fresh : BOOLEAN, clean : BOOLEAN]
Listing == [pc : {"idle", "read", "done", "error"}, wanted : SUBSET BOOLEAN, counted : BOOLEAN,
            total : Nat, found : BOOLEAN, plans : Catalogs, fresh : BOOLEAN]

(* Every variable keeps the shape its operations give it. *)
PlanTypeOK ==
    /\ planStore \in {"prisma", "memory"}
    /\ planTable \in Catalogs /\ memoryPlans \in Catalogs
    /\ order \in [{"db", "memory"} -> PlanIds \cup {NoPlan}]
    /\ used \in Nat
    /\ inquiry \in [Readers -> Inquiry]
    /\ listing \in Listing
    /\ planFaults \in Nat

(* The user's plan, which is the free one when the order's is not in the   *)
(* table, is on sale and has a quota of its own, and no order was          *)
(* confirmed in memory alone.                                              *)
PlanOnSale ==
    LET plan == IF Exists(planTable, InForce("db")) THEN InForce("db") ELSE Free
    IN  /\ plan \in OnSale(planTable)
        /\ plan # Free => QuotaOf(plan) > 0
        /\ order["db"] = NoPlan => order["memory"] = NoPlan

(* The quota a user is told is the quota the creation of a task goes by:   *)
(* an answer none of whose statements failed, and since whose first read   *)
(* nothing it rests on has changed, tells the quota in force and, as what  *)
(* is left of it, how many more tasks may be created (getMyUsage against   *)
(* checkWithPrisma).                                                       *)
UsageIsEnforced ==
    \A r \in Readers :
        LET u == inquiry[r] IN
        planStore = "prisma" /\ u.pc = "done" /\ u.fresh /\ u.clean /\ PlanOnSale =>
            /\ u.total = Enforced
            /\ (u.left > 0 <=> used < Enforced) /\ (used <= Enforced => used + u.left = Enforced)

(* The console is shown the plans of the store in charge: without a change *)
(* since it asked, all that it wants and no other, and their number.       *)
ListingIsOfStore ==
    LET catalog == IF planStore = "prisma" THEN planTable ELSE memoryPlans IN
    listing.pc = "done" /\ listing.fresh =>
        /\ listing.plans = Wanted(catalog, listing.wanted)
        /\ listing.total = Total(listing.plans)
=============================================================================
