--------------------------- MODULE AdminConsole ---------------------------
(***************************************************************************)
(* The calls of the admin console that change something: a failed task is  *)
(* replayed, a failed delivery retried, a plan created or updated.  A call *)
(* is let in by its role, changes what a service keeps, and only then      *)
(* writes its row of the audit trail; the gateway may stop in between.     *)
(* What a replay and a retry do in detail is in TaskPipeline and           *)
(* WebhookDelivery: here they have an effect or none.                      *)
(***************************************************************************)
EXTENDS PlanCatalog

CONSTANTS
    ConsoleCalls, \* calls of the console, numbered as they come in
    ReplayKeys,   \* Idempotency-Keys of replays
    FailedTasks,  \* tasks of one user that have failed
    Undelivered,  \* deliveries that have failed
    NewPlans,     \* bodies of POST /admin/plans: [id, row]
    Patches,      \* bodies of PATCH /admin/plans/:planId
    NoEntry       \* no task, no item

ASSUME ConsoleAssumption ==
    /\ ConsoleCalls \subseteq Nat
    /\ NoEntry \notin FailedTasks
    /\ NewPlans \subseteq [id : PlanIds, row : Plan]
    /\ Patches \subseteq
          [name : PlanNames \cup {NoPlan}, quota : PlanQuotas \cup {NoPlan}, active : BOOLEAN \cup {NoPlan}]

VARIABLES
    console,  \* the calls
    task,     \* Task.status of the tasks
    replayed, \* per key, the task it was used for and the answer
    retried,  \* deliveries with a row for the next attempt
    trail     \* the audit rows, by the calls that wrote them: audit_logs, and auditLogs in memory

serviceVars == <<task, replayed, retried>>
consoleVars == <<planVars, console, serviceVars, trail>>

Roles == {"admin", "operator", "auditor"}

Ops ==
         {<<"task.replay", t, k>> : t \in FailedTasks, k \in ReplayKeys}
    \cup {<<"webhook.retry", d, NoEntry>> : d \in Undelivered}
    \cup {<<"plan.create", body.id, body.row>> : body \in NewPlans}
    \cup {<<"plan.update", id, patch>> : id \in PlanIds, patch \in Patches}

(* ROLE_PERMISSIONS, for the permissions that the calls ask for. *)
Permitted(role) ==
    CASE role = "admin"    -> {"task.replay", "webhook.retry", "plan.create", "plan.update"}
      [] role = "operator" -> {"task.replay", "webhook.retry"}
      [] role = "auditor"  -> {}

NoOp  == <<"none", NoEntry, NoEntry>>
NoKey == [task |-> NoEntry, answer |-> "none"]

Answer == {"none", "SUCCESS", "NOT_FOUND", "CONFLICT", "INVALID", "FORBIDDEN", "ERROR"}

NewCall == [pc |-> "new", op |-> NoOp, role |-> "admin", answer |-> "none",
            changed |-> FALSE, clean |-> TRUE]

ConsoleInit ==
    /\ PlanInit
    /\ console = [c \in ConsoleCalls |-> NewCall]
    /\ task = [t \in FailedTasks |-> "FAILED"]
    /\ replayed = [k \in ReplayKeys |-> NoKey]
    /\ retried = {}
    /\ trail = [p \in {"db", "memory"} |-> {}]

-----------------------------------------------------------------------------
Kind(c) == console[c].op[1]
Item(c) == console[c].op[2]
Body(c) == console[c].op[3]

(* ensureAdminPermission. *)
Request(c, op, role) ==
    /\ console[c].pc = "new" /\ \A b \in ConsoleCalls : b < c => console[b].pc # "new"
    /\ console' = [console EXCEPT ![c] =
          IF op[1] \in Permitted(role)
          THEN [NewCall EXCEPT !.pc = "service", !.op = op, !.role = role]
          ELSE [NewCall EXCEPT !.pc = "done", !.op = op, !.role = role, !.answer = "FORBIDDEN"]]
    /\ UNCHANGED <<planVars, serviceVars, trail>>

InService(c, kind) == console[c].pc = "service" /\ Kind(c) = kind

(* Mutant: whatever the service answers is audited. *)
ServedAndAudited(c, p, answer, changed) ==
    console' = [console EXCEPT ![c] =
        [console[c] EXCEPT !.pc = "audit", !.answer = answer, !.changed = changed, !.clean = Heard(p)]]

(* What is not a success is answered with its error; a success is audited first. *)
Served(c, p, answer, changed) ==
    console' = [console EXCEPT ![c] =
        [console[c] EXCEPT !.pc = IF answer = "SUCCESS" THEN "audit" ELSE "done",
                           !.answer = answer, !.changed = changed, !.clean = Heard(p)]]

(* retry, by the key of the call: what the key was used for is answered    *)
(* again.                                                                  *)
Repeat(c, p, t, k) ==
    /\ replayed[k] # NoKey
    /\ Served(c, p, IF replayed[k].task = t THEN replayed[k].answer ELSE "CONFLICT", FALSE)
    /\ UNCHANGED <<task, replayed>>

Replay(t, k, answer) ==
    /\ replayed[k] = NoKey
    /\ answer = IF task[t] = "FAILED" THEN "SUCCESS" ELSE "INVALID"
    /\ task' = [task EXCEPT ![t] = "QUEUED"]
    /\ replayed' = [replayed EXCEPT ![k] = [task |-> t, answer |-> answer]]

(* A transaction that fails is an error, and may have committed. *)
replayTask(c, p) ==
    /\ InService(c, "task.replay")
    /\ Answers(p)
    /\ LET t == Item(c)
           k == Body(c)
       IN  \/ Heard(p) /\ Repeat(c, p, t, k)
           \/ \E answer \in Answer :
                Replay(t, k, answer) /\ Served(c, p, IF Heard(p) THEN answer ELSE "ERROR", answer = "SUCCESS")
           \/ ~Heard(p) /\ Served(c, p, "ERROR", FALSE) /\ UNCHANGED <<task, replayed>>
    /\ UNCHANGED <<planStore, planTable, memoryPlans, userVars, inquiry, listing, retried, trail>>

(* retryDelivery: a delivery that has its next attempt is a conflict in    *)
(* the table (uk_webhook_endpoint_event_attempt), which sends the call to  *)
(* memory, where there is no such delivery; as there is none when the      *)
(* statement fails, whether the row was written or not.  In memory alone   *)
(* every retry adds a row.  An endpoint that was deleted is not found.     *)
retryDelivery(c, p, answer, changed) ==
    \/ /\ p = "db" => Item(c) \notin retried
       /\ retried' = retried \cup {Item(c)}
       /\ answer = IF Heard(p) THEN "SUCCESS" ELSE "NOT_FOUND"
       /\ changed = (Heard(p) \/ retried' # retried)
    \/ answer = "NOT_FOUND" /\ changed = FALSE /\ UNCHANGED retried

retryWebhookDelivery(c, p) ==
    /\ InService(c, "webhook.retry")
    /\ Answers(p)
    /\ \E answer \in Answer, changed \in BOOLEAN :
        retryDelivery(c, p, answer, changed) /\ Served(c, p, answer, changed)
    /\ UNCHANGED <<planStore, planTable, memoryPlans, userVars, inquiry, listing, task, replayed, trail>>

PlansChanged == planTable' # planTable \/ memoryPlans' # memoryPlans

createPlanCall(c, p) ==
    /\ InService(c, "plan.create")
    /\ \E answer \in Answer :
        createPlan(p, Item(c), Body(c), answer) /\ Served(c, p, answer, answer = "SUCCESS" \/ PlansChanged)
    /\ UNCHANGED <<serviceVars, trail>>

updatePlanCall(c, p) ==
    /\ InService(c, "plan.update")
    /\ \E answer \in Answer :
        updatePlan(p, Item(c), Body(c), answer) /\ Served(c, p, answer, answer = "SUCCESS" \/ PlansChanged)
    /\ UNCHANGED <<serviceVars, trail>>

(* A row whose insert fails is kept in memory, and may be in the table too. *)
appendAdminAuditLog(c, p) ==
    /\ console[c].pc = "audit"
    /\ Answers(p)
    /\ \/ trail' = [trail EXCEPT ![p] = @ \cup {c}]
       \/ ~Heard(p) /\ trail' = [q \in {"db", "memory"} |-> trail[q] \cup {c}]
    /\ console' = [console EXCEPT ![c].pc = "done", ![c].clean = @ /\ Heard(p)]
    /\ UNCHANGED <<planStore, planTable, memoryPlans, userVars, inquiry, listing, serviceVars>>

(* A replayed task fails again (TaskPipeline). *)
TaskFails(t) ==
    /\ task[t] = "QUEUED"
    /\ task' = [task EXCEPT ![t] = "FAILED"]
    /\ UNCHANGED <<planVars, console, replayed, retried, trail>>

(* The gateway stops, and comes up with an empty memory; the tasks in      *)
(* memory are in a file (TaskMemoryStore).                                 *)
GatewayRestarts ==
    /\ planFaults < PlanMaxFaults /\ planFaults' = planFaults + 1
    /\ PlansForgotten
    /\ console' = [c \in ConsoleCalls |->
          IF console[c].pc \in {"service", "audit"} THEN [console[c] EXCEPT !.pc = "lost"] ELSE console[c]]
    /\ retried' = IF planStore = "memory" THEN {} ELSE retried
    /\ trail' = [trail EXCEPT !["memory"] = {}]
    /\ UNCHANGED <<task, replayed>>

ConsoleNext ==
    \/ UserNext /\ UNCHANGED <<console, serviceVars, trail>>
    \/ ListingNext /\ UNCHANGED <<console, serviceVars, trail>>
    \/ \E c \in ConsoleCalls :
        \/ \E op \in Ops, role \in Roles : Request(c, op, role)
        \/ \E p \in {"db", "memory"} :
            \/ replayTask(c, p) \/ retryWebhookDelivery(c, p)
            \/ createPlanCall(c, p) \/ updatePlanCall(c, p)
            \/ appendAdminAuditLog(c, p)
    \/ \E t \in FailedTasks : TaskFails(t)
    \/ GatewayRestarts

ConsoleSpec == ConsoleInit /\ [][ConsoleNext]_consoleVars

-----------------------------------------------------------------------------
Call == [pc : {"new", "service", "audit", "done", "lost"}, op : Ops \cup {NoOp}, role : Roles,
         answer : Answer, changed : BOOLEAN, clean : BOOLEAN]

(* Every variable keeps the shape its operations give it. *)
ConsoleTypeOK ==
    /\ PlanTypeOK
    /\ console \in [ConsoleCalls -> Call]
    /\ task \in [FailedTasks -> {"FAILED", "QUEUED"}]
    /\ replayed \in [ReplayKeys -> [task : FailedTasks \cup {NoEntry}, answer : {"none", "SUCCESS", "INVALID"}]]
    /\ retried \subseteq Undelivered
    /\ trail \in [{"db", "memory"} -> SUBSET ConsoleCalls]

(* What the console changes can be traced to a call and its role, and what *)
(* the trail says was done was done: a call that changed something and met *)
(* no failure of the database has its row in audit_logs when it is over,   *)
(* and a row is that of a call that changed something, or that repeated a  *)
(* replay which did, by a role with the permission.                        *)
EffectsAudited ==
    \A c \in ConsoleCalls :
        LET call == console[c] IN
        /\ planStore = "prisma" /\ call.pc = "done" /\ call.changed /\ call.clean => c \in trail["db"]
        /\ c \in trail["db"] \cup trail["memory"] =>
            /\ Kind(c) \in Permitted(call.role)
            /\ \/ call.changed
               \/ /\ Kind(c) = "task.replay"
                  /\ \E b \in ConsoleCalls \ {c} : console[b].changed /\ console[b].op = call.op

(* What the operators of the console are told and held to. *)
ConsoleIsHonest == EffectsAudited /\ ListingIsOfStore
=============================================================================
