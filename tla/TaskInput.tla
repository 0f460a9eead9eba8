----------------------------- MODULE TaskInput ------------------------------
(***************************************************************************)
(* Masks and regions on the Postgres store, and the pages that ask for a   *)
(* task meanwhile: an upload compares versions before its transaction, and *)
(* with TASKS_SIMULATION_ENABLED a page that reads a task moves it on.     *)
(* READ COMMITTED as in TaskPipeline: from its first write on, a           *)
(* transaction is one step.                                                *)
(***************************************************************************)
EXTENDS TaskSimulation, Sequences, FiniteSets

CONSTANTS
    InTasks,   \* tasks of the user
    InMedia,   \* the media of each
    Uploaders, \* uploads, each made once; they stand for what they upload
    Pages,     \* pages that poll a task or the list
    InEventId  \* outbox rows, 1, 2, ...

ASSUME InputAssumption ==
    /\ InTasks # {}
    /\ IsFiniteSet(InEventId) /\ InEventId = 1..Cardinality(InEventId)

VARIABLES
    simulation, \* TASKS_SIMULATION_ENABLED
    row,        \* the Task rows
    rows,       \* their UsageLedger rows
    events,     \* OutboxEvent rows
    input,      \* TaskMask and TaskRegion rows
    ups,        \* the uploads
    page        \* the pages

inVars == <<simulation, row, rows, events, input, ups, page>>

NoFile == [version |-> 0, by |-> 0]
NewUp  == [pc |-> "new", kind |-> "mask", task |-> CHOOSE t \in InTasks : TRUE, base |-> 0,
           st |-> NoStatus, ver |-> 0, next |-> 0, answer |-> "none", alone |-> TRUE]
IdlePage == [pc |-> "idle", task |-> CHOOSE t \in InTasks : TRUE, st |-> NoStatus, ver |-> 0,
             next |-> NoStatus, waiting |-> FALSE, after |-> FALSE]

InInit ==
    /\ simulation \in BOOLEAN
    /\ row = [t \in InTasks |-> [status |-> NoStatus, version |-> 0, progress |-> 0]]
    /\ rows = [t \in InTasks |-> {}]
    /\ events = <<>>
    /\ input = [kind \in UploadKind |-> [t \in InTasks |-> NoFile]]
    /\ ups = [u \in Uploaders |-> NewUp]
    /\ page = [g \in Pages |-> IdlePage]

-----------------------------------------------------------------------------
Has(t) == HasDetectionInput(InMedia[t], {kind \in UploadKind : input[kind][t] # NoFile})

Room(n) == Len(events) + n <= Cardinality(InEventId)

AnnounceInput(t, type) ==
    IF type = NoEventType THEN UNCHANGED events
    ELSE Room(1) /\ events' = Append(events, [type |-> type, task |-> t])

(* Mutant: the update does not ask for the version. *)
UnchangedNever(t, ver) == TRUE

UnchangedSince(t, ver) == row[t].version = ver

(* transitionTaskWithPrisma, then handlePostTransitionWithPrisma *)
MoveTask(t, to, progress) ==
    /\ row' = [row EXCEPT ![t] = [status |-> to, version |-> @.version + 1, progress |-> progress]]
    /\ rows' = [rows EXCEPT ![t] = @ \cup PostTransitionLedger(to)]
    /\ AnnounceInput(t, PostTransitionEvent(row[t].status, to))

CreateRow(t) ==
    /\ row[t].status = NoStatus
    /\ row' = [row EXCEPT ![t] = [status |-> "QUEUED", version |-> 1, progress |-> 0]]
    /\ rows' = [rows EXCEPT ![t] = {Held}]
    /\ AnnounceInput(t, "task.created")
    /\ UNCHANGED <<simulation, input, ups, page>>

(* What others do to the row, each in one transaction (TaskPipeline): the  *)
(* user cancels, and without the simulation a worker moves it on.          *)
CancelRow(t) ==
    /\ row[t].status \in CANCELABLE_STATUS
    /\ MoveTask(t, "CANCELED", 0)
    /\ UNCHANGED <<simulation, input, ups, page>>

WorkerMoves(t) ==
    LET to == SimulationAdvance(row[t].status, Has(t))
    IN  /\ ~simulation
        /\ to # NoStatus
        /\ MoveTask(t, to, SimulationProgress[row[t].status])
        /\ UNCHANGED <<simulation, input, ups, page>>

-----------------------------------------------------------------------------
(* upsertMaskWithPrisma, upsertRegionsWithPrisma *)

Uploading(u) == ups[u].pc \in {"begin", "active", "write"}

Rivals(u, kind, t) == {v \in Uploaders \ {u} : Uploading(v) /\ ups[v].kind = kind /\ ups[v].task = t}

(* Mutant: any version is accepted. *)
CurrentAlways(kind, t, base) == TRUE

Current(kind, t, base) == input[kind][t] # NoFile => base = input[kind][t].version

(* The version the client has is compared before the transaction. *)
BeginUpload(u, kind, t, base, declared) ==
    LET ok == AcceptedFor(kind, InMedia[t], declared) /\ Current(kind, t, base)
    IN  /\ ups[u].pc = "new" /\ \A v \in Uploaders : v < u => ups[v].pc # "new"
        /\ row[t].status # NoStatus
        /\ ups' = [v \in Uploaders |->
                      IF v = u
                      THEN [NewUp EXCEPT !.pc = IF ok THEN "begin" ELSE "done", !.kind = kind, !.task = t,
                                !.base = IF ok THEN base ELSE 0, !.answer = IF ok THEN "none" ELSE "conflict",
                                !.alone = Rivals(u, kind, t) = {}]
                      ELSE [ups[v] EXCEPT !.alone = @ /\ (ok => v \notin Rivals(u, kind, t))]]
        /\ UNCHANGED <<simulation, row, rows, events, input, page>>

(* Inside it the task and the row are read again, and not compared. *)
ReadLatestTask(u) ==
    /\ ups[u].pc = "begin"
    /\ ups' = [ups EXCEPT ![u].pc = "active", ![u].st = row[ups[u].task].status,
                          ![u].ver = row[ups[u].task].version]
    /\ UNCHANGED <<simulation, row, rows, events, input, page>>

ReadActive(u) ==
    LET file == input[ups[u].kind][ups[u].task]
    IN  /\ ups[u].pc = "active"
        /\ ups' = [ups EXCEPT ![u].pc = "write",
                              ![u].next = (IF file = NoFile THEN ups[u].base ELSE file.version) + 1]
        /\ UNCHANGED <<simulation, row, rows, events, input, page>>

(* The upsert; then what the task was when it was read decides.  With the  *)
(* simulation the task may have moved: the answer is a conflict, and what  *)
(* was uploaded is committed all the same.                                 *)
WriteUpload(u) ==
    LET c == ups[u]
        t == c.task
        r == row[t]
        answer(x) == ups' = [ups EXCEPT ![u] =
                        [c EXCEPT !.pc = "done", !.answer = x, !.st = NoStatus, !.ver = 0, !.next = 0]]
    IN  /\ c.pc = "write"
        /\ input' = [input EXCEPT ![c.kind][t] = [version |-> c.next, by |-> u]]
        /\ \/ /\ isTerminalTaskStatus(c.st)
              /\ answer("ok") /\ UNCHANGED <<row, rows, events>>
           \/ /\ ~isTerminalTaskStatus(c.st) /\ ~simulation
              /\ AnnounceInput(t, "task.masked")
              /\ answer("ok") /\ UNCHANGED <<row, rows>>
           \/ /\ ~isTerminalTaskStatus(c.st) /\ simulation /\ UnchangedSince(t, c.ver)
              /\ row' = [row EXCEPT ![t] =
                    IF c.st = "QUEUED" THEN [status |-> "PREPROCESSING", version |-> r.version + 1, progress |-> 15]
                    ELSE [r EXCEPT !.version = r.version + 1,
                                   !.progress = RaiseProgress(r.progress, UploadProgress[c.kind])]]
              /\ AnnounceInput(t, "task.masked")
              /\ answer("ok") /\ UNCHANGED rows
           \/ /\ ~isTerminalTaskStatus(c.st) /\ simulation /\ ~UnchangedSince(t, c.ver)
              /\ answer("conflict") /\ UNCHANGED <<row, rows, events>>
        /\ UNCHANGED <<simulation, page>>

-----------------------------------------------------------------------------
(* The pages.  A list asks which tasks wait for input; a page of one task  *)
(* may move it on first (maybeAdvanceForSimulationWithPrisma).             *)

Turn(g, changes) ==
    /\ page' = [page EXCEPT ![g] = changes]
    /\ UNCHANGED <<simulation, row, rows, events, input, ups>>

Fed(t) == \E u \in Uploaders : ups[u].pc = "done" /\ ups[u].answer = "ok" /\ ups[u].task = t

OpenPage(g, t, list) ==
    /\ page[g].pc = "idle"
    /\ row[t].status # NoStatus
    /\ Turn(g, [IdlePage EXCEPT !.pc = IF simulation /\ ~list THEN "plan" ELSE "ask",
                                !.task = t, !.after = Fed(t)])

(* Planned once to see whether there is anything to do, and again in the   *)
(* transaction.                                                            *)
PlanAdvance(g) ==
    LET t    == page[g].task
        next == SimulationAdvance(row[t].status, Has(t))
    IN  /\ page[g].pc = "plan"
        /\ Turn(g, IF next = NoStatus THEN [page[g] EXCEPT !.pc = "ask"]
                   ELSE [page[g] EXCEPT !.pc = "move", !.st = row[t].status, !.ver = row[t].version,
                                        !.next = next])

MoveOn(g) ==
    LET t == page[g].task
    IN  /\ page[g].pc = "move"
        /\ \/ /\ UnchangedSince(t, page[g].ver)
              /\ MoveTask(t, page[g].next, SimulationProgress[page[g].st])
           \/ /\ ~UnchangedSince(t, page[g].ver)
              /\ UNCHANGED <<row, rows, events>>
        /\ page' = [page EXCEPT ![g] = [IdlePage EXCEPT !.pc = "ask", !.task = t, !.after = page[g].after]]
        /\ UNCHANGED <<simulation, input, ups>>

(* isWaitingForRegions, findTasksWaitingForRegions: the status, read anew, *)
(* and then the input.                                                     *)
AskStatus(g) ==
    /\ page[g].pc = "ask"
    /\ Turn(g, [page[g] EXCEPT !.pc = IF row[page[g].task].status = "DETECTING" THEN "input" ELSE "shown"])

AskInput(g) ==
    /\ page[g].pc = "input"
    /\ Turn(g, [page[g] EXCEPT !.pc = "shown", !.waiting = ~Has(page[g].task)])

ClosePage(g) == page[g].pc = "shown" /\ Turn(g, IdlePage)

-----------------------------------------------------------------------------
UploadStep(u) == ReadLatestTask(u) \/ ReadActive(u) \/ WriteUpload(u)

PageStep(g) ==
    \/ PlanAdvance(g) \/ MoveOn(g) \/ AskStatus(g) \/ AskInput(g) \/ ClosePage(g)

InNext ==
    \/ \E t \in InTasks : CreateRow(t) \/ CancelRow(t) \/ WorkerMoves(t)
    \/ \E u \in Uploaders, kind \in UploadKind, t \in InTasks, declared \in {"IMAGE", "VIDEO"} :
          \E base \in 0..input[kind][t].version :
             (kind = "mask" => InMedia[t] = "IMAGE") /\ BeginUpload(u, kind, t, base, declared)
    \/ \E u \in Uploaders : UploadStep(u)
    \/ \E g \in Pages, t \in InTasks, list \in BOOLEAN : OpenPage(g, t, list)
    \/ \E g \in Pages : PageStep(g)

InSpec == InInit /\ [][InNext]_inVars

(* A request that has begun is carried on, and a page that is open polls   *)
(* its task, every few seconds, for as long as its user waits.             *)
InFairness ==
    /\ \A u \in Uploaders : WF_inVars(UploadStep(u))
    /\ \A g \in Pages, t \in InTasks : WF_inVars(PageStep(g)) /\ SF_inVars(OpenPage(g, t, FALSE))

-----------------------------------------------------------------------------
InTypeOK ==
    /\ simulation \in BOOLEAN
    /\ row \in [InTasks -> [status : TaskStatus \cup {NoStatus}, version : Nat, progress : 0..100]]
    /\ rows \in [InTasks -> SUBSET LedgerRow]
    /\ events \in Seq([type : EventType, task : InTasks])
    /\ input \in [UploadKind -> [InTasks -> [version : Nat, by : Uploaders \cup {0}]]]
    /\ ups \in [Uploaders -> [pc : {"new", "begin", "active", "write", "done"}, kind : UploadKind,
                              task : InTasks, base : Nat, st : TaskStatus \cup {NoStatus}, ver : Nat,
                              next : Nat, answer : {"none", "ok", "conflict"}, alone : BOOLEAN]]
    /\ page \in [Pages -> [pc : {"idle", "plan", "move", "ask", "input", "shown"}, task : InTasks,
                           st : TaskStatus \cup {NoStatus}, ver : Nat, next : TaskStatus \cup {NoStatus},
                           waiting : BOOLEAN, after : BOOLEAN]]

Accepted(u) == ups[u].pc = "done" /\ ups[u].answer = "ok"

(* Two uploads to one row that nobody uploaded beside are never accepted   *)
(* from the same version: the second of two editors is told of the first.  *)
(* (Of uploads that overlap, the last to write silently wins.)             *)
NoSilentOverwrite ==
    \A u, v \in {x \in Uploaders : Accepted(x) /\ ups[x].alone} :
        (ups[u].kind = ups[v].kind /\ ups[u].task = ups[v].task /\ ups[u].base = ups[v].base) => u = v

(* A page that is opened after an upload was accepted does not tell the    *)
(* user to make one.                                                       *)
UploadEndsWaiting == \A g \in Pages : page[g].pc = "shown" /\ page[g].waiting => ~page[g].after

(* With the simulation, a task somebody looks at is done some time, waits  *)
(* for input, or has been canceled (as far as there is room for events).   *)
WatchedTaskEnds ==
    \A t \in InTasks :
        simulation /\ row[t].status # NoStatus ~>
            \/ isTerminalTaskStatus(row[t].status)
            \/ row[t].status = "DETECTING" /\ \A kind \in UploadKind : input[kind][t] = NoFile
            \/ ~Room(1)

-----------------------------------------------------------------------------
(* Refinement: pages that all advance one task carry out the contract.     *)

InPhase(st) == CASE st = NoStatus    -> "none"
                 [] st = "SUCCEEDED" -> "succeeded"
                 [] st = "CANCELED"  -> "canceled"
                 [] OTHER            -> "running"

InCharge(set) ==
    IF Committed \in set           THEN "charged"
    ELSE IF ReleasedCancel \in set THEN "released"
    ELSE IF Held \in set           THEN "reserved" ELSE "none"

InNotice(e) ==
    IF e > Len(events) \/ events[e].type \notin NoticeEvent
    THEN [outcome |-> "none", task |-> CHOOSE t \in InTasks : TRUE]
    ELSE [outcome |-> IF events[e].type = "task.succeeded" THEN "succeeded" ELSE "canceled",
          task |-> events[e].task]

InContract == INSTANCE TaskContract WITH
    Tasks   <- InTasks,
    EventId <- InEventId,
    phase   <- [t \in InTasks |-> InPhase(row[t].status)],
    charge  <- [t \in InTasks |-> InCharge(rows[t])],
    notice  <- [e \in InEventId |-> InNotice(e)]

(* A task that two pages move at once is charged and announced once.       *)
PagesImplementContract == InContract!Spec
=============================================================================
