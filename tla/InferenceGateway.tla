--------------------------- MODULE InferenceGateway ---------------------------
(***************************************************************************)
(* Documents in inference-gateway (native mode): the four calls that take  *)
(* a PDF or PPT through conversion, rendering, inpainting and packaging    *)
(* share one work directory on disk, one pool of slots, and a sweeper that *)
(* any call may run.  The worker-orchestrator's side is what it does about *)
(* a call's answer; the job queue itself is TaskPipeline's.                *)
(***************************************************************************)
EXTENDS Naturals, FiniteSets

CONSTANTS
    DocTasks, Ppt,      \* document tasks; those that are PPT
    Drivers, DrivesDoc, \* jobs of the orchestrator, and the task each drives
    DocPages,           \* page numbers
    GatewayCalls,       \* HTTP requests that may be under way
    NoCall,
    DocPool,            \* INFERENCE_POOL_DOC
    JobAttempts,        \* ORCHESTRATOR_MAX_RETRIES + 1
    GatewayBudget       \* bound on timeouts, crashes, failures, agings and reruns

ASSUME GatewayAssumption ==
    /\ DocTasks # {} /\ IsFiniteSet(GatewayCalls)
    /\ Ppt \subseteq DocTasks /\ DrivesDoc \in [Drivers -> DocTasks] /\ NoCall \notin GatewayCalls
    /\ DocPages \subseteq Nat \ {0} /\ DocPool \in Nat \ {0} /\ JobAttempts \in Nat \ {0}
    /\ GatewayBudget \in [{"timeout", "crash", "failure", "aging", "rerun"} -> Nat]

VARIABLES
    stage,     \* [DocTasks -> [status, attempt]]: the task's row
    driver,    \* [Drivers -> what the job waits for]
    handler,   \* [GatewayCalls -> the thread that serves it]
    workDir,   \* [DocTasks -> [converted, page, old]]: work_dir/<taskId>
    delivered, \* [DocTasks -> [DocPages -> content]]: the object in the result bucket
    spent      \* how much of GatewayBudget is used up

gwVars == <<stage, driver, handler, workDir, delivered, spent>>

Content   == {"none", "raw", "clean"}
DocStatus == {"PREPROCESSING", "DETECTING", "INPAINTING", "PACKAGING", "SUCCEEDED", "FAILED"}
Op        == {"none", "convert", "render", "inpaint", "package"}
Answer    == {"none", "ok", "refused", "busy", "failed"}

Blank       == [p \in DocPages |-> "none"]
IdleDriver  == [pc |-> "idle", op |-> "none", call |-> NoCall, made |-> 0, seen |-> [status |-> "PREPROCESSING", attempt |-> 0]]
FreeHandler == [pc |-> "free", op |-> "none", doc |-> CHOOSE d \in DocTasks : TRUE, answer |-> "none",
                todo |-> {}, got |-> Blank, sweep |-> {}, list |-> {}]

GwInit ==
    /\ stage = [d \in DocTasks |-> [status |-> "PREPROCESSING", attempt |-> 0]]
    /\ driver = [j \in Drivers |-> IdleDriver]
    /\ handler = [c \in GatewayCalls |-> FreeHandler]
    /\ workDir = [d \in DocTasks |-> [converted |-> FALSE, page |-> Blank, old |-> FALSE]]
    /\ delivered = [d \in DocTasks |-> Blank]
    /\ spent = [k \in DOMAIN GatewayBudget |-> 0]

SpendBudget(k) == spent[k] < GatewayBudget[k] /\ spent' = [spent EXCEPT ![k] = @ + 1]

DocEnded(d) == stage[d].status \in {"SUCCEEDED", "FAILED"}

-----------------------------------------------------------------------------
(* The orchestrator. *)

(* executePreprocessing, executeInpainting, executePackaging: the first    *)
(* call of a step.                                                         *)
FirstOp(d) ==
    CASE stage[d].status = "PREPROCESSING" -> IF d \in Ppt THEN "convert" ELSE "render"
      [] stage[d].status = "INPAINTING"    -> "inpaint"
      [] stage[d].status = "PACKAGING"     -> "package"
      [] OTHER                             -> "none"

(* Every call begins with maybe_cleanup_filesystem; whether its interval   *)
(* is over depends on the calls before.                                    *)
Arrives(c, op, d) ==
    \E dirs \in {{}, {e \in DocTasks : workDir[e].old}} :
        handler' = [handler EXCEPT ![c] =
            [FreeHandler EXCEPT !.pc = IF dirs = {} THEN "queued" ELSE "sweep", !.op = op, !.doc = d, !.sweep = dirs]]

Ask(j, c) ==
    LET d == DrivesDoc[j] IN
    /\ handler[c].pc = "free"
    /\ \/ /\ driver[j].pc = "idle" /\ FirstOp(d) # "none"
          /\ driver' = [driver EXCEPT ![j] =
                           [@ EXCEPT !.pc = "calling", !.op = FirstOp(d), !.call = c, !.seen = stage[d]]]
          /\ Arrives(c, FirstOp(d), d)
       \/ /\ driver[j].pc = "converted"
          /\ driver' = [driver EXCEPT ![j] = [@ EXCEPT !.pc = "calling", !.op = "render", !.call = c]]
          /\ Arrives(c, "render", d)
    /\ UNCHANGED <<stage, workDir, delivered, spent>>

NextDocStatus == [PREPROCESSING |-> "DETECTING", INPAINTING |-> "PACKAGING", PACKAGING |-> "SUCCEEDED"]

(* advanceTask: compare-and-set on the status and version that was read.   *)
HearOk(j) ==
    LET d == DrivesDoc[j] IN
    /\ driver[j].pc = "calling" /\ handler[driver[j].call].answer = "ok"
    /\ IF driver[j].op = "convert"
       THEN driver' = [driver EXCEPT ![j].pc = "converted", ![j].call = NoCall] /\ UNCHANGED stage
       ELSE /\ driver' = [driver EXCEPT ![j].pc = "idle", ![j].call = NoCall]
            /\ stage' = IF stage[d] = driver[j].seen
                        THEN [stage EXCEPT ![d].status = NextDocStatus[@]] ELSE stage
    /\ handler' = [handler EXCEPT ![driver[j].call] = FreeHandler]
    /\ UNCHANGED <<workDir, delivered, spent>>

(* markTaskFailed: whatever the task's version is by then.                 *)
JobFails(j) ==
    /\ driver' = [driver EXCEPT ![j] = [IdleDriver EXCEPT !.pc = "over"]]
    /\ stage' = IF DocEnded(DrivesDoc[j]) THEN stage ELSE [stage EXCEPT ![DrivesDoc[j]].status = "FAILED"]

(* One attempt is spent; the job starts over, or has failed.               *)
AttemptSpent(j) ==
    IF driver[j].made + 1 >= JobAttempts THEN JobFails(j)
    ELSE driver' = [driver EXCEPT ![j] = [IdleDriver EXCEPT !.made = driver[j].made + 1]] /\ UNCHANGED stage

(* Any 4xx is an UnrecoverableError. *)
FinalAnswer == {"refused", "busy"}

HearError(j) ==
    /\ driver[j].pc = "calling" /\ handler[driver[j].call].answer \in {"refused", "busy", "failed"}
    /\ IF handler[driver[j].call].answer \in FinalAnswer THEN JobFails(j) ELSE AttemptSpent(j)
    /\ handler' = [handler EXCEPT ![driver[j].call] = FreeHandler]
    /\ UNCHANGED <<workDir, delivered, spent>>

(* The request timeout is longer than the queue's wait: it may overtake a  *)
(* call that runs, and the gateway's thread goes on.                       *)
ClientTimeout(j) ==
    /\ driver[j].pc = "calling" /\ handler[driver[j].call].pc = "running"
    /\ SpendBudget("timeout")
    /\ AttemptSpent(j)
    /\ UNCHANGED <<handler, workDir, delivered>>

(* The worker process dies; BullMQ gives the stalled job to another.  Left *)
(* out: a death while the call still waits for its slot (README, 7).       *)
WorkerCrash(j) ==
    /\ \/ driver[j].pc = "converted"
       \/ driver[j].pc = "calling" /\ handler[driver[j].call].pc \in {"running", "done"}
    /\ SpendBudget("crash")
    /\ driver' = [driver EXCEPT ![j] = [IdleDriver EXCEPT !.made = driver[j].made]]
    /\ handler' = [c \in GatewayCalls |->
                      IF c = driver[j].call /\ handler[c].pc = "done" THEN FreeHandler ELSE handler[c]]
    /\ UNCHANGED <<stage, workDir, delivered>>

(* The user's mask or regions are there: DETECTING is left. *)
UserDraws(d) ==
    /\ stage[d].status = "DETECTING"
    /\ stage' = [stage EXCEPT ![d].status = "INPAINTING"]
    /\ UNCHANGED <<driver, handler, workDir, delivered, spent>>

(* retry: QUEUED, and from there PREPROCESSING by a new job. *)
Rerun(d) ==
    /\ stage[d].status = "FAILED" /\ SpendBudget("rerun")
    /\ stage' = [stage EXCEPT ![d] = [status |-> "PREPROCESSING", attempt |-> @.attempt + 1]]
    /\ driver' = [j \in Drivers |-> IF DrivesDoc[j] = d /\ driver[j].pc = "over" THEN IdleDriver ELSE driver[j]]
    /\ UNCHANGED <<handler, workDir, delivered>>

-----------------------------------------------------------------------------
(* The gateway: sweeping. *)

(* converted.pdf among the things a directory holds; pages count from 1. *)
ThePdf == 0

Present(d) == {p \in DocPages : workDir[d].page[p] # "none"}
Items(d)   == Present(d) \cup (IF workDir[d].converted THEN {ThePdf} ELSE {})

(* The directory's mtime passes work_ttl_sec.  Files written below doc/ do *)
(* not renew it.                                                           *)
GrowsOld(d) ==
    /\ Items(d) # {} /\ ~workDir[d].old /\ SpendBudget("aging")
    /\ workDir' = [workDir EXCEPT ![d].old = TRUE]
    /\ UNCHANGED <<stage, driver, handler, delivered>>

(* shutil.rmtree: what is listed is unlinked one by one, and what is       *)
(* written meanwhile stays.                                                *)
SweepDir(c, d) ==
    /\ handler[c].pc = "sweep" /\ handler[c].list = {} /\ d \in handler[c].sweep
    /\ handler' = [handler EXCEPT ![c].sweep = @ \ {d}, ![c].list = {<<d, i>> : i \in Items(d)}]
    /\ workDir' = [workDir EXCEPT ![d].old = FALSE]
    /\ UNCHANGED <<stage, driver, delivered, spent>>

Unlink(c, x) ==
    /\ handler[c].pc = "sweep" /\ x \in handler[c].list
    /\ handler' = [handler EXCEPT ![c].list = @ \ {x}]
    /\ workDir' = IF x[2] = ThePdf THEN [workDir EXCEPT ![x[1]].converted = FALSE]
                  ELSE [workDir EXCEPT ![x[1]].page[x[2]] = "none"]
    /\ UNCHANGED <<stage, driver, delivered, spent>>

Swept(c) ==
    /\ handler[c].pc = "sweep" /\ handler[c].list = {} /\ handler[c].sweep = {}
    /\ handler' = [handler EXCEPT ![c].pc = "queued"]
    /\ UNCHANGED <<stage, driver, workDir, delivered, spent>>

-----------------------------------------------------------------------------
(* The gateway: slots. *)

Running == {c \in GatewayCalls : handler[c].pc = "running"}

(* Mutant: the pool is not consulted. *)
SlotFreeAlways == TRUE

SlotFree == Cardinality(Running) < DocPool

(* Nobody hears the answer of a call that timed out or whose worker died.  *)
GwAnswered(c, answer) ==
    handler' = [handler EXCEPT ![c] =
        IF \E j \in Drivers : driver[j].call = c THEN [@ EXCEPT !.pc = "done", !.answer = answer] ELSE FreeHandler]

(* semaphore.acquire(timeout) gives up only while no slot is free. *)
QueueBusy(c) ==
    /\ handler[c].pc = "queued" /\ ~SlotFree
    /\ GwAnswered(c, "busy")
    /\ UNCHANGED <<stage, driver, workDir, delivered, spent>>

(* What the call works through: render writes every page, the others take  *)
(* the pages that there are.                                               *)
Worklist(op, d) ==
    CASE op = "convert" -> {} [] op = "render" -> DocPages [] OTHER -> Present(d)

(* ensure_path and the glob of the pages. *)
GwAccepted(op, d) ==
    /\ op \in {"render", "package"} /\ d \in Ppt => workDir[d].converted
    /\ op \in {"inpaint", "package"} => Present(d) # {}

(* A semaphore is not a queue: any of the waiting threads may get the slot. *)
TakeSlot(c) ==
    LET h == handler[c] IN
    /\ h.pc = "queued" /\ SlotFree
    /\ IF GwAccepted(h.op, h.doc)
       THEN handler' = [handler EXCEPT ![c].pc = "running", ![c].todo = Worklist(h.op, h.doc)]
       ELSE GwAnswered(c, "refused")
    /\ workDir' = IF h.op = "convert" THEN [workDir EXCEPT ![h.doc].converted = FALSE] ELSE workDir
    /\ UNCHANGED <<stage, driver, delivered, spent>>

-----------------------------------------------------------------------------
(* The gateway: the four handlers. *)

PageWritten(c, p, content) ==
    /\ handler' = [handler EXCEPT ![c].todo = @ \ {p}]
    /\ workDir' = [workDir EXCEPT ![handler[c].doc].page[p] = content]

(* pdftoppm or PyMuPDF writes over whatever page there was. *)
RenderPage(c, p) ==
    /\ handler[c].pc = "running" /\ handler[c].op = "render" /\ p \in handler[c].todo
    /\ PageWritten(c, p, "raw")
    /\ UNCHANGED <<stage, driver, delivered, spent>>

(* LaMa's output, or OpenCV's, is written over the page; a page that has   *)
(* been swept comes back or makes the call fail.                           *)
InpaintPage(c, p) ==
    /\ handler[c].pc = "running" /\ handler[c].op = "inpaint" /\ p \in handler[c].todo
    /\ \/ PageWritten(c, p, "clean")
       \/ /\ workDir[handler[c].doc].page[p] = "none"
          /\ \E answer \in {"failed", "refused"} : GwAnswered(c, answer)
          /\ UNCHANGED workDir
    /\ UNCHANGED <<stage, driver, delivered, spent>>

PackPage(c, p) ==
    LET content == workDir[handler[c].doc].page[p] IN
    /\ handler[c].pc = "running" /\ handler[c].op = "package" /\ p \in handler[c].todo
    /\ IF content = "none" THEN GwAnswered(c, "failed")
       ELSE handler' = [handler EXCEPT ![c].todo = @ \ {p}, ![c].got[p] = content]
    /\ UNCHANGED <<stage, driver, workDir, delivered, spent>>

Finish(c) ==
    LET h == handler[c] IN
    /\ h.pc = "running" /\ h.todo = {}
    /\ GwAnswered(c, IF h.op = "render" /\ Present(h.doc) = {} THEN "refused" ELSE "ok")
    /\ workDir' = IF h.op = "convert" THEN [workDir EXCEPT ![h.doc].converted = TRUE] ELSE workDir
    /\ delivered' = IF h.op = "package" THEN [delivered EXCEPT ![h.doc] = h.got] ELSE delivered
    /\ UNCHANGED <<stage, driver, spent>>

(* A command fails or times out, a source cannot be read, an upload fails. *)
RunFails(c) ==
    /\ handler[c].pc = "running" /\ SpendBudget("failure")
    /\ \E answer \in {"failed", "refused"} : GwAnswered(c, answer)
    /\ UNCHANGED <<stage, driver, workDir, delivered>>

-----------------------------------------------------------------------------
GwNext ==
    \/ \E j \in Drivers : HearOk(j) \/ HearError(j) \/ ClientTimeout(j) \/ WorkerCrash(j)
    \/ \E j \in Drivers, c \in GatewayCalls : Ask(j, c)
    \/ \E d \in DocTasks : UserDraws(d) \/ Rerun(d) \/ GrowsOld(d)
    \/ \E c \in GatewayCalls :
          \/ Swept(c) \/ QueueBusy(c) \/ TakeSlot(c) \/ Finish(c) \/ RunFails(c)
          \/ \E d \in handler[c].sweep : SweepDir(c, d)
          \/ \E x \in handler[c].list : Unlink(c, x)
          \/ \E p \in handler[c].todo : RenderPage(c, p) \/ InpaintPage(c, p) \/ PackPage(c, p)

GwSpec == GwInit /\ [][GwNext]_gwVars

-----------------------------------------------------------------------------
StageRow   == [status : DocStatus, attempt : Nat]
DriverRow  == [pc : {"idle", "calling", "converted", "over"}, op : Op, call : GatewayCalls \cup {NoCall},
               made : Nat, seen : StageRow]
HandlerRow == [pc : {"free", "sweep", "queued", "running", "done"}, op : Op, doc : DocTasks, answer : Answer,
               todo : SUBSET DocPages, got : [DocPages -> Content], sweep : SUBSET DocTasks,
               list : SUBSET (DocTasks \X (DocPages \cup {ThePdf}))]

GwTypeOK ==
    /\ stage \in [DocTasks -> StageRow]
    /\ driver \in [Drivers -> DriverRow]
    /\ handler \in [GatewayCalls -> HandlerRow]
    /\ workDir \in [DocTasks -> [converted : BOOLEAN, page : [DocPages -> Content], old : BOOLEAN]]
    /\ delivered \in [DocTasks -> [DocPages -> Content]]
    /\ spent \in [DOMAIN GatewayBudget -> Nat]

(* No page is delivered as it was before inpainting: a call that timed out *)
(* and is repeated, a rerun with its new rendering, and a sweep leave no   *)
(* raw page for the packaging to take.                                     *)
DeliveredIsClean ==
    \A d \in DocTasks : stage[d].status = "SUCCEEDED" => \A p \in DocPages : delivered[d][p] # "raw"
=============================================================================
