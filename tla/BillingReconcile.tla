--------------------------- MODULE BillingReconcile ---------------------------
(***************************************************************************)
(* The billing reconciliation: runs that bring the monthly sums of the     *)
(* usage ledger up to date, hourly from a watermark on or daily from       *)
(* scratch, while transactions of the task service write the ledger.  A    *)
(* sum of rows is represented by the set of the rows in it.                *)
(***************************************************************************)
EXTENDS Naturals

CONSTANTS
    LastRow,   \* bound: ledger rows, numbered as their ids are ordered
    Periods,   \* pairs of a month and a user
    Jobs,      \* processes of the billing service
    LastMs,    \* bound: milliseconds
    MaxRuns    \* bound: runs

ASSUME BillingAssumption == LastRow \in Nat /\ LastMs \in Nat \ {0} /\ MaxRuns \in Nat

UsageRows == 1..LastRow

VARIABLES
    now,        \* the time, in milliseconds
    usage,      \* usage_ledger and the transactions that are writing it
    monthly,    \* billing_reconcile_monthly
    checkpoint, \* billing_reconcile_checkpoints: the watermark
    job,        \* the processes and the run each is in
    runs,       \* runs so far
    lateRows,   \* history: rows that were committed behind what a run had read
    overlap     \* history: runs overlapped, and none has made up for it

billVars == <<now, usage, monthly, checkpoint, job, runs, lateRows, overlap>>

(* A watermark; 0 stands for null. *)
Marker == [at : 0..LastMs, id : UsageRows \cup {0}]
Null   == [at |-> 0, id |-> 0]

IdleJob ==
    [pc |-> "idle", mode |-> "none", from |-> Null, end |-> 0, told |-> FALSE, rows |-> {},
     periods |-> {}, marked |-> FALSE, next |-> Null, status |-> "none", alone |-> TRUE]

BillInit ==
    /\ now = 1
    /\ usage = [x \in UsageRows |-> [state |-> "none", at |-> 0, period |-> "none"]]
    /\ monthly = [p \in Periods |-> {}]
    /\ checkpoint = Null
    /\ job = [j \in Jobs |-> IdleJob]
    /\ runs = 0
    /\ lateRows = {}
    /\ overlap = FALSE

Booked == {x \in UsageRows : usage[x].state = "committed"}

RowsOfPeriod(p) == {x \in Booked : usage[x].period = p}

(* Rows are ordered by consume_at and ledger_id. *)
UpTo(x, marker) ==
    \/ usage[x].at < marker.at
    \/ usage[x].at = marker.at /\ marker.id # 0 /\ x <= marker.id
    \/ usage[x].at = marker.at /\ marker.id = 0

LatestOf(rows) ==
    CHOOSE x \in rows :
        \A y \in rows : usage[y].at < usage[x].at \/ (usage[y].at = usage[x].at /\ y <= x)

MarkerOf(x) == [at |-> usage[x].at, id |-> x]

-----------------------------------------------------------------------------
(* The task service: consumeAt is the time at which a row is written, in a *)
(* transaction that commits later; ids are random and so in any order.     *)

WriteRow(x, p) ==
    /\ usage[x].state = "none"
    /\ usage' = [usage EXCEPT ![x] = [state |-> "written", at |-> now, period |-> p]]
    /\ UNCHANGED <<now, monthly, checkpoint, job, runs, lateRows, overlap>>

(* A run has read what there is to count, and the row may still fall under *)
(* the marker it goes on with.                                             *)
Passed(j, x) == job[j].told /\ (job[j].marked => UpTo(x, job[j].next))

CommitRow(x) ==
    /\ usage[x].state = "written"
    /\ usage' = [usage EXCEPT ![x].state = "committed"]
    /\ lateRows' = IF UpTo(x, checkpoint) \/ \E j \in Jobs : Passed(j, x) THEN lateRows \cup {x} ELSE lateRows
    /\ UNCHANGED <<now, monthly, checkpoint, job, runs, overlap>>

Elapse ==
    /\ now < LastMs
    /\ now' = now + 1
    /\ UNCHANGED <<usage, monthly, checkpoint, job, runs, lateRows, overlap>>

-----------------------------------------------------------------------------
(* runReconciliation.                                                      *)

Running(j) == job[j].pc # "idle"

(* The checkpoint is read and the run recorded, as FAILED to begin with. *)
StartRun(j, mode) ==
    LET others == {i \in Jobs \ {j} : Running(i)}
    IN  /\ ~Running(j)
        /\ runs < MaxRuns
        /\ runs' = runs + 1
        /\ job' = [i \in Jobs |->
                      IF i = j
                      THEN [IdleJob EXCEPT !.pc = "read", !.mode = mode, !.from = checkpoint,
                                !.end = now, !.status = "FAILED", !.alone = others = {}]
                      ELSE [job[i] EXCEPT !.alone = @ /\ i \notin others]]
        /\ overlap' = (overlap \/ others # {})
        /\ UNCHANGED <<now, usage, monthly, checkpoint, lateRows>>

(* buildIncrementalPredicate *)
InWindow(x, from, end) ==
    /\ \/ from.at = 0
       \/ usage[x].at > from.at
       \/ from.id # 0 /\ usage[x].at = from.at /\ x > from.id
    /\ usage[x].at <= end

Window(j) == {x \in Booked : InWindow(x, job[j].from, job[j].end)}

(* The queries of one Promise.all run on connections of their own, in any  *)
(* order: the periods to be summed up hourly, or the sums themselves daily. *)
QueryPeriods(j) ==
    /\ job[j].pc = "read" /\ job[j].mode = "hourly" /\ ~job[j].told
    /\ job' = [job EXCEPT ![j].told = TRUE, ![j].periods = {usage[x].period : x \in Window(j)}]
    /\ UNCHANGED <<now, usage, monthly, checkpoint, runs, lateRows, overlap>>

QueryAggregatesGlobal(j) ==
    /\ job[j].pc = "read" /\ job[j].mode = "daily" /\ ~job[j].told
    /\ job' = [job EXCEPT ![j].told = TRUE, ![j].rows = Booked, ![j].periods = Periods]
    /\ UNCHANGED <<now, usage, monthly, checkpoint, runs, lateRows, overlap>>

(* The latest row, of the window or of all; without one an hourly run      *)
(* keeps the watermark, and where that is null it is the end of the window.*)
NextMarker(j) ==
    LET rows == IF job[j].mode = "hourly" THEN Window(j) ELSE Booked
        from == job[j].from
        stay == IF job[j].mode = "hourly"
                THEN [from EXCEPT !.at = IF @ # 0 THEN @ ELSE job[j].end]
                ELSE [at |-> job[j].end, id |-> 0]
    IN  IF rows = {} THEN stay ELSE MarkerOf(LatestOf(rows))

QueryLatest(j) ==
    /\ job[j].pc = "read" /\ ~job[j].marked
    /\ job' = [job EXCEPT ![j].marked = TRUE, ![j].next = NextMarker(j)]
    /\ UNCHANGED <<now, usage, monthly, checkpoint, runs, lateRows, overlap>>

(* Mutant: only the rows of the window are summed up. *)
SummedOfWindow(j) == Window(j)

(* Hourly, the periods are summed up anew and completely. *)
Summed(j) == UNION {RowsOfPeriod(p) : p \in job[j].periods}

QueryAggregatesForPeriods(j) ==
    /\ job[j].pc = "read" /\ job[j].told /\ job[j].marked
    /\ job' = [job EXCEPT ![j].pc = "write", ![j].from = Null, ![j].end = 0,
                  ![j].rows = IF job[j].mode = "hourly" THEN Summed(j) ELSE @]
    /\ UNCHANGED <<now, usage, monthly, checkpoint, runs, lateRows, overlap>>

Sum(j, p) == {x \in job[j].rows : usage[x].period = p}

(* Mutant: only periods that are not there yet are written. *)
MergedIfNew(j) ==
    [p \in Periods |-> IF p \in job[j].periods /\ monthly[p] = {} THEN Sum(j, p) ELSE monthly[p]]

(* upsertMonthlyAggregates, or rebuildMonthlyAggregates in a transaction. *)
Merged(j) == [p \in Periods |-> IF p \in job[j].periods THEN Sum(j, p) ELSE monthly[p]]

WriteAggregates(j) ==
    /\ job[j].pc = "write"
    /\ monthly' = Merged(j)
    /\ job' = [job EXCEPT ![j].pc = "compare"]
    /\ UNCHANGED <<now, usage, checkpoint, runs, lateRows, overlap>>

(* buildMismatchRecords *)
Mismatches(j) == {p \in job[j].periods : monthly[p] # Sum(j, p)}

CompareStored(j) ==
    /\ job[j].pc = "compare"
    /\ job' = [job EXCEPT ![j].status = IF Mismatches(j) = {} THEN "SUCCEEDED" ELSE "MISMATCH",
                          ![j].pc = IF Mismatches(j) = {} THEN "checkpoint" ELSE "end"]
    /\ UNCHANGED <<now, usage, monthly, checkpoint, runs, lateRows, overlap>>

(* Only a run that succeeded moves the watermark, forward or back.  A full *)
(* one that had no other beside it has counted what had been missed.       *)
SaveCheckpoint(j) ==
    LET repairs == job[j].mode = "daily" /\ job[j].alone
    IN  /\ job[j].pc = "checkpoint"
        /\ checkpoint' = job[j].next
        /\ job' = [job EXCEPT ![j] = IdleJob]
        /\ lateRows' = IF repairs THEN lateRows \ job[j].rows ELSE lateRows
        /\ overlap' = (overlap /\ ~repairs)
        /\ UNCHANGED <<now, usage, monthly, runs>>

EndRun(j) ==
    /\ job[j].pc = "end"
    /\ job' = [job EXCEPT ![j] = IdleJob]
    /\ UNCHANGED <<now, usage, monthly, checkpoint, runs, lateRows, overlap>>

(* A statement throws and the run is FAILED, or the process stops, which   *)
(* leaves the run's row as it was.                                         *)
FailRun(j) ==
    /\ job[j].pc \in {"read", "write", "compare", "checkpoint"}
    /\ job' = [job EXCEPT ![j] = IdleJob]
    /\ UNCHANGED <<now, usage, monthly, checkpoint, runs, lateRows, overlap>>

-----------------------------------------------------------------------------
Modes == {"hourly", "daily"}

JobStep(j) ==
    \/ \E mode \in Modes : StartRun(j, mode)
    \/ QueryPeriods(j) \/ QueryAggregatesGlobal(j) \/ QueryLatest(j)
    \/ QueryAggregatesForPeriods(j) \/ WriteAggregates(j)
    \/ CompareStored(j) \/ SaveCheckpoint(j) \/ EndRun(j) \/ FailRun(j)

BillNext ==
    \/ \E x \in UsageRows : CommitRow(x) \/ \E p \in Periods : WriteRow(x, p)
    \/ \E j \in Jobs : JobStep(j)
    \/ Elapse

BillSpec == BillInit /\ [][BillNext]_billVars

-----------------------------------------------------------------------------
JobType ==
    [pc : {"idle", "read", "write", "compare", "checkpoint", "end"},
     mode : {"none", "hourly", "daily"}, from : Marker, end : 0..LastMs, told : BOOLEAN,
     rows : SUBSET UsageRows, periods : SUBSET Periods, marked : BOOLEAN, next : Marker,
     status : {"none", "FAILED", "SUCCEEDED", "MISMATCH"}, alone : BOOLEAN]

(* The tables and the runs hold what they can hold; a row that was counted *)
(* has been committed and is counted in its own period.                    *)
BillTypeOK ==
    /\ now \in 1..LastMs
    /\ usage \in [UsageRows -> [state : {"none", "written", "committed"}, at : 0..now,
                           period : Periods \cup {"none"}]]
    /\ monthly \in [Periods -> SUBSET UsageRows]
    /\ \A p \in Periods : monthly[p] \subseteq RowsOfPeriod(p)
    /\ checkpoint \in Marker
    /\ job \in [Jobs -> JobType]
    /\ runs \in 0..MaxRuns
    /\ lateRows \subseteq Booked
    /\ overlap \in BOOLEAN

(* The watermark skips nothing that is not late: as long as runs did not   *)
(* overlap, or since a daily run made up for it, every committed row at or *)
(* behind it is in its monthly sum, except one committed while a run that  *)
(* had already read was to move the watermark past it.                     *)
CountedUpToWatermark ==
    ~overlap =>
        \A x \in Booked \ lateRows :
            UpTo(x, checkpoint) => x \in monthly[usage[x].period]

(* The comparison of a run finds only what another run wrote meanwhile: it *)
(* cannot find a row that the run itself has missed.                       *)
MismatchMeansOverlap ==
    \A j \in Jobs : job[j].status = "MISMATCH" => ~job[j].alone
=============================================================================
