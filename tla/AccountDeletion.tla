--------------------------- MODULE AccountDeletion ---------------------------
(***************************************************************************)
(* What one user may have deleted: an asset, the view of a task, or the    *)
(* whole account by a request that a script works off later.  A statement  *)
(* that the database does not answer lands in the memory of the gateway,   *)
(* call by call, and with COMPLIANCE_STORE unset everything does.          *)
(***************************************************************************)
EXTENDS Naturals, FiniteSets

CONSTANTS
    OwnAssets,  \* ids of the user's assets
    OwnTasks,   \* ids of the user's tasks
    Requests,   \* account delete requests, numbered as they are made
    NoRequest,  \* no request
    DelKeys,    \* Idempotency-Keys
    DelCalls,   \* calls of the compliance API, numbered as they come in
    Processors, \* runs of account-delete-reconcile
    DueOnly,    \* COMPLIANCE_RECONCILE_DUE_ONLY
    Limit,      \* COMPLIANCE_RECONCILE_LIMIT
    Sla,        \* DELETE_REQUEST_SLA_HOURS, in ticks
    LastTick,   \* bound: ticks of the clock
    DelMaxFaults \* bound: statements that fail and processes that stop

ASSUME DeletionAssumption ==
    /\ Requests \subseteq Nat /\ IsFiniteSet(Requests) /\ NoRequest \notin Requests
    /\ DelCalls \subseteq Nat /\ DelCalls \cap Requests = {}
    /\ "none" \notin DelKeys
    /\ DueOnly \in BOOLEAN
    /\ Limit \in Nat \ {0} /\ Sla \in Nat \ {0} /\ LastTick \in Nat /\ DelMaxFaults \in Nat

VARIABLES
    mode,     \* preferPrismaStore: "prisma" or "memory"
    clock,
    delFaults, \* faults so far
    store,    \* the tables, and the maps in the gateway's memory that stand in for them
    tasks,    \* tasks of the user that exist (TaskAdmission)
    eta,      \* per request, etaAt
    delCall,  \* the calls
    run,      \* the runs of the processor
    covered,  \* history: per request, what existed when it was claimed
    orphan    \* history: requests whose run stopped before it had recorded how they ended

delVars ==
    <<mode, clock, delFaults, store, tasks, eta, delCall, run, covered, orphan>>

Places  == {"db", "memory"}
Targets == [upload |-> OwnAssets, asset |-> OwnAssets, view |-> OwnTasks, account |-> {"reason"}]
Ops     == UNION {{<<kind, x>> : x \in Targets[kind]} : kind \in DOMAIN Targets}
NoOp    == <<"none", "none">>

DelOutcome   == {"none", "SUCCESS", "NOT_FOUND", "CONFLICT", "ERROR"}
DelAnswer == [outcome : DelOutcome, request : Requests \cup {NoRequest}]
NoAnswer  == [outcome |-> "none", request |-> NoRequest]
NoRow     == [op |-> NoOp, answer |-> NoAnswer]

Success(r) == [outcome |-> "SUCCESS", request |-> r]
Plain(x)   == [outcome |-> x, request |-> NoRequest]

EmptyStore ==
    [assets |-> [a \in OwnAssets |-> "none"], hidden |-> {},
     requests |-> [r \in Requests |-> "none"], keys |-> [k \in DelKeys |-> NoRow],
     audit |-> {}]

IdleDelCall ==
    [pc |-> "idle", op |-> NoOp, key |-> "none", answer |-> NoAnswer, alone |-> TRUE,
     clean |-> TRUE, before |-> {}]

IdleRun == [pc |-> "scan", todo |-> {}, req |-> NoRequest, assets |-> {}, tasks |-> {}]

DelInit ==
    /\ mode \in {"prisma", "memory"}
    /\ clock = 0
    /\ delFaults = 0
    /\ store = [p \in Places |-> EmptyStore]
    /\ tasks = {}
    /\ eta = [r \in Requests |-> 0]
    /\ delCall = [c \in DelCalls |-> IdleDelCall]
    /\ run = [w \in Processors |-> IdleRun]
    /\ covered = [r \in Requests |-> [assets |-> {}, tasks |-> {}]]
    /\ orphan = {}

-----------------------------------------------------------------------------
(* A statement of a call: it reaches the database, or it fails and the     *)
(* call goes on in memory; without a database it always does.              *)
Reaches(p) ==
    /\ p = "db" => mode = "prisma"
    /\ delFaults' = IF mode = "prisma" /\ p = "memory" THEN delFaults + 1 ELSE delFaults
    /\ delFaults' <= DelMaxFaults

Clean(c, p) == delCall[c].clean /\ (mode = "prisma" => p = "db")

Move(c, p, pc, answer) ==
    delCall' = [delCall EXCEPT ![c].pc = pc, ![c].answer = answer, ![c].clean = Clean(c, p)]

InCall(c) == delCall[c].pc \in {"lookup", "act", "persist", "audit"}

StartCall(c, op, k) ==
    LET peers == {d \in DelCalls \ {c} : InCall(d) /\ delCall[d].key = k}
    IN  /\ delCall[c].pc = "idle" /\ \A d \in DelCalls : d < c => delCall[d].pc # "idle"
        /\ delCall' =
              [d \in DelCalls |->
                  IF d = c
                  THEN [IdleDelCall EXCEPT !.pc = IF op[1] = "upload" THEN "act" ELSE "lookup",
                            !.op = op, !.key = k, !.alone = peers = {},
                            !.before = {e \in DelCalls : delCall[e].pc = "done"}]
                  ELSE [delCall[d] EXCEPT !.alone = @ /\ d \notin peers]]
        /\ UNCHANGED <<mode, clock, delFaults, store, tasks, eta, run, covered, orphan>>

(* Mutant: the rows in the database are not looked up. *)
KeyRowOfMemory(p, k) == store["memory"].keys[k]

(* A row of the table, else of the map. *)
KeyRow(p, k) ==
    IF p = "db" /\ store["db"].keys[k] # NoRow THEN store["db"].keys[k] ELSE store["memory"].keys[k]

ResolveIdempotency(c, p) ==
    LET row == KeyRow(p, delCall[c].key)
    IN  /\ delCall[c].pc = "lookup"
        /\ Reaches(p)
        /\ \/ row = NoRow /\ Move(c, p, "act", NoAnswer)
           \/ row # NoRow /\ row.op # delCall[c].op /\ Move(c, p, "done", Plain("CONFLICT"))
           \/ row # NoRow /\ row.op = delCall[c].op /\ Move(c, p, "done", row.answer)
        /\ UNCHANGED <<mode, clock, store, tasks, eta, run, covered, orphan>>

Acts(c, kind) == delCall[c].pc = "act" /\ delCall[c].op[1] = kind

(* The id is new: no call has been given it before. *)
CreateUploadPolicy(c, p) ==
    LET a == delCall[c].op[2]
    IN  /\ Acts(c, "upload")
        /\ \A d \in DelCalls : delCall[d].op = delCall[c].op => delCall[d].answer = NoAnswer
        /\ Reaches(p)
        /\ store' = [store EXCEPT ![p].assets[a] = "active"]
        /\ Move(c, p, "audit", Success(NoRequest))
        /\ UNCHANGED <<mode, clock, tasks, eta, run, covered, orphan>>

(* updateMany, and when it changes nothing findFirst: what was deleted     *)
(* already is a success too.  What the table does not have may be in       *)
(* memory.                                                                 *)
DeleteAsset(c, p) ==
    LET a == delCall[c].op[2]
        q == IF p = "db" /\ store["db"].assets[a] # "none" THEN "db" ELSE "memory"
    IN  /\ Acts(c, "asset")
        /\ Reaches(p)
        /\ \/ /\ store[q].assets[a] # "none"
              /\ store' = [store EXCEPT ![q].assets[a] = "deleted"]
              /\ Move(c, p, "persist", Success(NoRequest))
           \/ /\ store[q].assets[a] = "none"
              /\ Move(c, p, "persist", Plain("NOT_FOUND"))
              /\ UNCHANGED store
        /\ UNCHANGED <<mode, clock, tasks, eta, run, covered, orphan>>

(* A task that findFirst could not look for is looked up again by the task *)
(* service, whose error is the call's.                                     *)
DeleteTaskView(c, p) ==
    LET t == delCall[c].op[2]
    IN  /\ Acts(c, "view")
        /\ Reaches(p)
        /\ \/ /\ t \in tasks
              /\ store' = [store EXCEPT ![p].hidden = @ \cup {t}]
              /\ Move(c, p, "persist", Success(NoRequest))
           \/ /\ t \notin tasks
              /\ Move(c, p, "persist", Plain("NOT_FOUND"))
              /\ UNCHANGED store
           \/ /\ mode = "prisma" /\ p = "memory"
              /\ Move(c, p, "done", Plain("ERROR"))
              /\ UNCHANGED store
        /\ UNCHANGED <<mode, clock, tasks, eta, run, covered, orphan>>

CreateAccountDeleteRequest(c, p, r) ==
    /\ Acts(c, "account")
    /\ eta[r] = 0 /\ \A q \in Requests : q < r => eta[q] # 0
    /\ Reaches(p)
    /\ store' = [store EXCEPT ![p].requests[r] = "PENDING"]
    /\ eta' = [eta EXCEPT ![r] = clock + Sla]
    /\ Move(c, p, "persist", Success(r))
    /\ UNCHANGED <<mode, clock, tasks, run, covered, orphan>>

AfterPersist(outcome) == IF outcome = "NOT_FOUND" THEN "done" ELSE "audit"

(* An upsert: of two calls with one key the later one stays. *)
PersistIdempotency(c, p) ==
    /\ delCall[c].pc = "persist"
    /\ Reaches(p)
    /\ store' = [store EXCEPT ![p].keys[delCall[c].key] =
                    [op |-> delCall[c].op, answer |-> delCall[c].answer]]
    /\ Move(c, p, AfterPersist(delCall[c].answer.outcome), delCall[c].answer)
    /\ UNCHANGED <<mode, clock, tasks, eta, run, covered, orphan>>

AppendAuditLog(c, p) ==
    /\ delCall[c].pc = "audit"
    /\ Reaches(p)
    /\ store' = [store EXCEPT ![p].audit = @ \cup {c}]
    /\ Move(c, p, "done", delCall[c].answer)
    /\ UNCHANGED <<mode, clock, tasks, eta, run, covered, orphan>>

(* The gateway stops: its memory is lost and the calls it was in get no    *)
(* answer.                                                                 *)
RestartGateway ==
    /\ delFaults < DelMaxFaults
    /\ delFaults' = delFaults + 1
    /\ store' = [store EXCEPT !["memory"] = EmptyStore]
    /\ delCall' = [c \in DelCalls |->
                      [delCall[c] EXCEPT !.pc = IF InCall(c) THEN "lost" ELSE @,
                                         !.clean = @ /\ mode = "prisma"]]
    /\ run' = IF mode = "memory" THEN [w \in Processors |-> IdleRun] ELSE run
    /\ UNCHANGED <<mode, clock, tasks, eta, covered, orphan>>

-----------------------------------------------------------------------------
(* processPendingDeleteRequests.  With the database it runs in a process   *)
(* of its own; in memory only a test calls it, one at a time.              *)

Home == IF mode = "prisma" THEN "db" ELSE "memory"

StatusOf(r) == store[Home].requests[r]
Active    == {a \in OwnAssets : store[Home].assets[a] = "active"}

IsDue(r) == DueOnly => eta[r] <= clock

DuePending == {r \in Requests : StatusOf(r) = "PENDING" /\ IsDue(r)}

Scan(w) ==
    /\ run[w] = IdleRun
    /\ mode = "memory" => \A v \in Processors : run[v] = IdleRun
    /\ DuePending # {}
    /\ \E some \in SUBSET DuePending :
          /\ Cardinality(some) = IF Cardinality(DuePending) < Limit THEN Cardinality(DuePending) ELSE Limit
          /\ run' = [run EXCEPT ![w].todo = some]
    /\ UNCHANGED <<mode, clock, delFaults, store, tasks, eta, delCall, covered, orphan>>

(* Mutant: the claim does not ask for a request that is still PENDING. *)
ClaimableAlways(r) == TRUE

Claimable(r) == StatusOf(r) = "PENDING"

(* updateMany where PENDING; a request another run has claimed is skipped. *)
Claim(w, r) ==
    /\ run[w].pc = "scan" /\ r \in run[w].todo
    /\ \/ /\ Claimable(r)
          /\ store' = [store EXCEPT ![Home].requests[r] = "PROCESSING"]
          /\ covered' = [covered EXCEPT ![r] = [assets |-> Active, tasks |-> tasks]]
          /\ run' = [run EXCEPT ![w].pc = "assets", ![w].req = r, ![w].todo = @ \ {r}]
       \/ /\ ~Claimable(r)
          /\ run' = [run EXCEPT ![w].todo = @ \ {r}]
          /\ UNCHANGED <<store, covered>>
    /\ UNCHANGED <<mode, clock, delFaults, tasks, eta, delCall, orphan>>

AssetsErased(gone) ==
    [store[Home] EXCEPT !.assets = [a \in OwnAssets |-> IF a \in gone THEN "deleted" ELSE @[a]]]

(* The statements of the transaction, each with a view of its own.  In     *)
(* memory there is none: the assets are deleted before the tasks are asked *)
(* for.                                                                    *)
SelectAssets(w) ==
    /\ run[w].pc = "assets"
    /\ run' = [run EXCEPT ![w].pc = "tasks", ![w].assets = Active]
    /\ store' = IF mode = "memory" THEN [store EXCEPT ![Home] = AssetsErased(Active)] ELSE store
    /\ UNCHANGED <<mode, clock, delFaults, tasks, eta, delCall, covered, orphan>>

SelectTasks(w) ==
    /\ run[w].pc = "tasks"
    /\ run' = [run EXCEPT ![w].pc = "commit", ![w].tasks = tasks]
    /\ UNCHANGED <<mode, clock, delFaults, store, tasks, eta, delCall, covered, orphan>>

(* Mutant: only the assets are deleted, the tasks stay visible. *)
ErasedAssetsOnly(w) ==
    [store[Home] EXCEPT
        !.assets = [a \in OwnAssets |-> IF a \in run[w].assets THEN "deleted" ELSE @[a]],
        !.requests[run[w].req] = "DONE"]

Erased(w) ==
    [store[Home] EXCEPT
        !.assets = [a \in OwnAssets |-> IF a \in run[w].assets THEN "deleted" ELSE @[a]],
        !.hidden = @ \cup run[w].tasks,
        !.requests[run[w].req] = "DONE"]

(* The commit, or in memory the end of executeDeleteRequestInMemory; the   *)
(* answer to a commit may be lost, which is taken for a failure.           *)
Commit(w) ==
    /\ run[w].pc = "commit"
    /\ store' = [store EXCEPT ![Home] = Erased(w)]
    /\ \/ run' = [run EXCEPT ![w].pc = "audit"] /\ UNCHANGED delFaults
       \/ /\ mode = "prisma" /\ delFaults < DelMaxFaults
          /\ delFaults' = delFaults + 1
          /\ run' = [run EXCEPT ![w].pc = "failed"]
    /\ UNCHANGED <<mode, clock, tasks, eta, delCall, covered, orphan>>

(* A statement throws, and the transaction is undone; in memory only the   *)
(* tasks service may throw, and the assets stay deleted.                   *)
RollBackRun(w) ==
    /\ run[w].pc \in IF mode = "memory" THEN {"tasks"} ELSE {"assets", "tasks", "commit"}
    /\ delFaults < DelMaxFaults
    /\ delFaults' = delFaults + 1
    /\ run' = [run EXCEPT ![w].pc = "failed"]
    /\ UNCHANGED <<mode, clock, store, tasks, eta, delCall, covered, orphan>>

(* Mutant: the failure is not recorded. *)
MarkFailedSilently(w) ==
    /\ run[w].pc = "failed"
    /\ run' = [run EXCEPT ![w].pc = "audit"]
    /\ UNCHANGED <<mode, clock, delFaults, store, tasks, eta, delCall, covered, orphan>>

MarkFailed(w) ==
    /\ run[w].pc = "failed"
    /\ store' = [store EXCEPT ![Home].requests[run[w].req] = "FAILED"]
    /\ run' = [run EXCEPT ![w].pc = "audit"]
    /\ UNCHANGED <<mode, clock, delFaults, tasks, eta, delCall, covered, orphan>>

(* A row the database refuses goes to the memory of the script, and is     *)
(* gone with it.                                                           *)
AuditRun(w, p) ==
    /\ run[w].pc = "audit"
    /\ Reaches(p)
    /\ store' = IF p = Home THEN [store EXCEPT ![p].audit = @ \cup {run[w].req}] ELSE store
    /\ run' = [run EXCEPT ![w] = [IdleRun EXCEPT !.todo = run[w].todo]]
    /\ UNCHANGED <<mode, clock, tasks, eta, delCall, covered, orphan>>

(* The script stops, or the update that marks a request FAILED throws. *)
StopRun(w) ==
    /\ mode = "prisma" /\ run[w] # IdleRun
    /\ delFaults < DelMaxFaults
    /\ delFaults' = delFaults + 1
    /\ run' = [run EXCEPT ![w] = IdleRun]
    /\ orphan' = IF run[w].req # NoRequest /\ run[w].pc # "audit" THEN orphan \cup {run[w].req} ELSE orphan
    /\ UNCHANGED <<mode, clock, store, tasks, eta, delCall, covered>>

-----------------------------------------------------------------------------
(* What the pages ask, when the database answers ("db") or not.            *)

IsTaskDeleted(p, t) == (p = "db" /\ t \in store["db"].hidden) \/ t \in store["memory"].hidden

(* Mutant: the table is not asked. *)
VisibleInMemory(p, list) == list \ store["memory"].hidden

(* The list looks into the memory only when the table hides nothing in it. *)
VisibleTasks(p, list) ==
    IF p = "db" /\ list \cap store["db"].hidden # {} THEN list \ store["db"].hidden
    ELSE list \ store["memory"].hidden

RequestView(p, r) ==
    IF p = "db" /\ store["db"].requests[r] # "none" THEN store["db"].requests[r]
    ELSE store["memory"].requests[r]

(* The lists are of one place: what is in memory shows up only when the    *)
(* database does not answer.                                               *)
ListedRequests(p, status) == {r \in Requests : store[p].requests[r] = status}

ListedAudit(p) == store[p].audit

-----------------------------------------------------------------------------
CreateTask(t) ==
    /\ t \notin tasks
    /\ tasks' = tasks \cup {t}
    /\ UNCHANGED <<mode, clock, delFaults, store, eta, delCall, run, covered, orphan>>

Tick ==
    /\ clock < LastTick
    /\ clock' = clock + 1
    /\ UNCHANGED <<mode, delFaults, store, tasks, eta, delCall, run, covered, orphan>>

DelCallStep(c) ==
    \/ \E op \in Ops, k \in DelKeys : StartCall(c, op, k)
    \/ \E p \in Places :
          \/ ResolveIdempotency(c, p)
          \/ CreateUploadPolicy(c, p) \/ DeleteAsset(c, p) \/ DeleteTaskView(c, p)
          \/ \E r \in Requests : CreateAccountDeleteRequest(c, p, r)
          \/ PersistIdempotency(c, p) \/ AppendAuditLog(c, p)

RunStep(w) ==
    \/ Scan(w)
    \/ \E r \in Requests : Claim(w, r)
    \/ SelectAssets(w) \/ SelectTasks(w) \/ Commit(w) \/ MarkFailed(w)
    \/ \E p \in Places : AuditRun(w, p)

DelNext ==
    \/ \E c \in DelCalls : DelCallStep(c)
    \/ \E w \in Processors : RunStep(w) \/ RollBackRun(w) \/ StopRun(w)
    \/ \E t \in OwnTasks : CreateTask(t)
    \/ RestartGateway
    \/ Tick

(* The script is started again and again, and time passes. *)
DelFairness == WF_delVars(Tick) /\ \A w \in Processors : WF_delVars(RunStep(w))

DelSpec == DelInit /\ [][DelNext]_delVars /\ DelFairness

-----------------------------------------------------------------------------
ReqStatus == {"none", "PENDING", "PROCESSING", "DONE", "FAILED"}

DelStoreType ==
    [assets : [OwnAssets -> {"none", "active", "deleted"}], hidden : SUBSET OwnTasks,
     requests : [Requests -> ReqStatus],
     keys : [DelKeys -> [op : Ops \cup {NoOp}, answer : DelAnswer]],
     audit : SUBSET (DelCalls \cup Requests)]

DelCallType ==
    [pc : {"idle", "lookup", "act", "persist", "audit", "done", "lost"}, op : Ops \cup {NoOp},
     key : DelKeys \cup {"none"}, answer : DelAnswer, alone : BOOLEAN, clean : BOOLEAN,
     before : SUBSET DelCalls]

RunType ==
    [pc : {"scan", "assets", "tasks", "commit", "failed", "audit"}, todo : SUBSET Requests,
     req : Requests \cup {NoRequest}, assets : SUBSET OwnAssets, tasks : SUBSET OwnTasks]

(* The tables, the maps, the calls and the runs hold what their columns    *)
(* and fields can hold; a run is about a request from its claim to the     *)
(* row it writes of it.                                                    *)
DelTypeOK ==
    /\ mode \in {"prisma", "memory"} /\ clock \in 0..LastTick /\ delFaults \in 0..DelMaxFaults
    /\ store \in [Places -> DelStoreType]
    /\ tasks \subseteq OwnTasks
    /\ eta \in [Requests -> 0..(LastTick + Sla)]
    /\ delCall \in [DelCalls -> DelCallType]
    /\ run \in [Processors -> RunType]
    /\ \A w \in Processors : run[w].pc = "scan" <=> run[w].req = NoRequest
    /\ covered \in [Requests -> [assets : SUBSET OwnAssets, tasks : SUBSET OwnTasks]]
    /\ orphan \subseteq Requests

(* A request that is DONE has deleted every asset and hidden every task    *)
(* that was there when it was claimed, and they stay so.                   *)
DoneIsComplete ==
    \A r \in Requests :
        StatusOf(r) = "DONE" =>
            /\ \A a \in covered[r].assets : store[Home].assets[a] = "deleted"
            /\ covered[r].tasks \subseteq store[Home].hidden

(* However runs of the script overlap, a request is worked off by one of   *)
(* them, once: it is PROCESSING as long as its run has not ended it, and   *)
(* the run of a request that was left behind is never taken up.            *)
ClaimedByOne ==
    /\ \A v, w \in Processors : run[v].req = run[w].req /\ run[v].req # NoRequest => v = w
    /\ \A w \in Processors :
          /\ run[w].req \notin orphan
          /\ run[w].pc \in {"assets", "tasks", "commit"} => StatusOf(run[w].req) = "PROCESSING"

(* The calls of a key were answered, one after the other, by statements    *)
(* that did not fail, and no memory they left something in was lost.       *)
Orderly(k) ==
    \A c \in DelCalls :
        delCall[c].key = k => delCall[c].clean /\ delCall[c].alone /\ delCall[c].pc # "lost"

Told(c, outcome) == delCall[c].pc = "done" /\ delCall[c].answer.outcome = outcome

(* A call that is repeated with its key after it was answered gets the     *)
(* same answer, and so makes no second request, when the calls of the key  *)
(* are orderly.                                                            *)
SameKeySameAnswer ==
    \A c, d \in DelCalls :
        (/\ delCall[d].pc = "done" /\ c \in delCall[d].before
         /\ delCall[c].key = delCall[d].key /\ delCall[c].op = delCall[d].op
         /\ delCall[c].op[1] # "upload" /\ Orderly(delCall[c].key))
        => delCall[c].answer = delCall[d].answer

(* What a call was told has been done stays done, whatever other calls,    *)
(* runs and restarts do: a deleted asset is nowhere to be used, the task   *)
(* is in no list and on no page, the request can be looked up; and the     *)
(* audit log tells of the first call of the key that got that far.         *)
AnsweredIsKept ==
    \A c \in DelCalls :
        LET x == delCall[c].op[2]
        IN  Told(c, "SUCCESS") /\ Orderly(delCall[c].key) =>
                /\ CASE delCall[c].op[1] = "upload"  -> store[Home].assets[x] # "none"
                     [] delCall[c].op[1] = "asset"   -> \A p \in Places : store[p].assets[x] # "active"
                     [] delCall[c].op[1] = "view"    -> IsTaskDeleted(Home, x) /\ x \notin VisibleTasks(Home, tasks)
                     [] delCall[c].op[1] = "account" -> LET r == delCall[c].answer.request
                                                        IN  r \in ListedRequests(Home, RequestView(Home, r)) /\ StatusOf(r) # "none"
                /\ \E d \in DelCalls :
                      /\ delCall[d].op = delCall[c].op /\ delCall[d].key = delCall[c].key
                      /\ d \in ListedAudit(Home)

(* What was asked of the script comes to an end: a request that is due in  *)
(* the table is DONE or FAILED some time, unless its run stopped over it.  *)
RequestsSettle ==
    \A r \in Requests :
        (mode = "prisma" /\ r \in DuePending) ~> (StatusOf(r) \in {"DONE", "FAILED"} \/ r \in orphan)
=============================================================================
