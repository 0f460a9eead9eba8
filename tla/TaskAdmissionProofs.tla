------------------------- MODULE TaskAdmissionProofs -------------------------
(* Proofs about TaskAdmission, for every value of its constants. *)
EXTENDS TaskAdmission, FiniteSetTheorems, TLAPS

-----------------------------------------------------------------------------
(* The inductive invariant.                                                *)

(* A task that does not exist yet has no rows. *)
FreshBlank == \A t \in Tasks : phase[t] = "none" => ledger[t] = {}

(* A running task has released nothing, unless it is a retried one. *)
RunningHolds ==
    \A t \in Tasks \ late : phase[t] = "running" => \A m \in Months : Rows(t, m) \cap Released = {}

(* A key's task exists, so its input does not change any more. *)
KeyNamesTask == \A k \in Keys : keyTask[k] # NoTask => phase[keyTask[k]] # "none"

(* What a call was told is what the table says. *)
AnswersStand ==
    \A c \in Calls : create[c].task # NoTask =>
        /\ create[c].key \in Keys
        /\ keyTask[create[c].key] = create[c].task
        /\ create[c].outcome = "OK" => input[create[c].task] = create[c].payload

(* A count that no later insert has overtaken still guards the quota. *)
CountGuards ==
    \A c \in Calls :
        Counted(c) /\ ~create[c].overlapped /\ create[c].month = month =>
            Cardinality(OnTime(month)) < Quota

(* The inductive invariant behind QuotaHolds and SameKeySameTask. *)
IInv ==
    /\ AdmTypeOK
    /\ FreshBlank
    /\ RunningHolds
    /\ KeyNamesTask
    /\ AnswersStand
    /\ CountGuards
    /\ QuotaHolds

-----------------------------------------------------------------------------
(* Lemmas.                                                                 *)

(* OnTime is finite, so that it can be counted. *)
LEMMA OnTimeFinite ==
    ASSUME NEW m
    PROVE  /\ IsFiniteSet(OnTime(m))
           /\ Cardinality(OnTime(m)) \in Nat
           /\ Cardinality(OnTime(m)) <= Used(m)
           /\ Used(m) \in Nat
<1> DEFINE C == {t \in Tasks : Charged(t, m)}
<1>1. IsFiniteSet(C)
  <2>1. C \in SUBSET Tasks
    OBVIOUS
  <2> QED
    BY <2>1, FS_Subset, TasksAssumption
<1>2. OnTime(m) \in SUBSET C
  BY DEF OnTime
<1>3. IsFiniteSet(OnTime(m)) /\ Cardinality(OnTime(m)) <= Cardinality(C)
  BY <1>1, <1>2, FS_Subset
<1> QED
  BY <1>1, <1>3, FS_CardinalityType DEF Used

(* OnTime depends on the ledger and on late alone. *)
LEMMA OnTimeUnchanged ==
    ASSUME UNCHANGED <<ledger, late>>
    PROVE  \A m : OnTime(m)' = OnTime(m)
BY DEF OnTime, Charged, Rows

(* A step after which no month holds more on time than before keeps the    *)
(* quota.                                                                  *)
LEMMA OnTimeShrinks ==
    ASSUME QuotaHolds, \A m \in Months : OnTime(m)' \subseteq OnTime(m)
    PROVE  /\ QuotaHolds'
           /\ \A m \in Months : Cardinality(OnTime(m)') <= Cardinality(OnTime(m))
<1>1. ASSUME NEW m \in Months
      PROVE  /\ Cardinality(OnTime(m)') <= Cardinality(OnTime(m))
             /\ Cardinality(OnTime(m)') \in Nat
  <2>1. OnTime(m)' \in SUBSET OnTime(m)
    OBVIOUS
  <2>2. IsFiniteSet(OnTime(m)')
    BY <2>1, OnTimeFinite, FS_Subset
  <2> QED
    BY <2>1, <2>2, OnTimeFinite, FS_Subset, FS_CardinalityType
<1>2. ASSUME NEW m \in Months PROVE Cardinality(OnTime(m)') <= Quota
  BY <1>1, OnTimeFinite, QuotaAssumption DEF QuotaHolds
<1>3. Months' = Months
  BY DEF Months
<1> QED
  BY <1>1, <1>2 DEF QuotaHolds, Months

(* What inserting a row leaves in the table. *)
LEMMA RowAppended ==
    ASSUME AdmTypeOK, NEW t \in Tasks, NEW row \in LedgerRow, AppendLedger(t, row),
           month' = month
    PROVE  /\ ledger' \in [Tasks -> SUBSET (LedgerRow \X (1..month))]
           /\ \A u \in Tasks : \A r, s \in ledger'[u] : r[1] = s[1] => r = s
           /\ \A u \in Tasks \ {t} : ledger'[u] = ledger[u]
           /\ ledger[t] \subseteq ledger'[t]
           /\ ledger'[t] \subseteq ledger[t] \cup {<<row, month>>}
<1>1. /\ ledger \in [Tasks -> SUBSET (LedgerRow \X (1..month))]
      /\ month \in Months /\ month \in Nat /\ 1 <= month
  BY MonthsAssumption DEF AdmTypeOK, Months
<1>2. ledger' = [ledger EXCEPT ![t] = WithRow(t, row)]
  BY DEF AppendLedger
<1>3. CASE \E m \in Months : <<row, m>> \in ledger[t]
  <2>1. WithRow(t, row) = ledger[t]
    BY <1>3 DEF WithRow
  <2>2. ledger' = ledger
    BY <1>1, <1>2, <2>1
  <2> QED
    BY <1>1, <2>2 DEF AdmTypeOK
<1>4. CASE ~\E m \in Months : <<row, m>> \in ledger[t]
  <2>1. WithRow(t, row) = ledger[t] \cup {<<row, month>>}
    BY <1>4 DEF WithRow
  <2>2. /\ ledger'[t] = ledger[t] \cup {<<row, month>>}
        /\ \A u \in Tasks \ {t} : ledger'[u] = ledger[u]
    BY <1>1, <1>2, <2>1
  <2>3. <<row, month>> \in LedgerRow \X (1..month)
    BY <1>1
  <2>4. ledger' \in [Tasks -> SUBSET (LedgerRow \X (1..month))]
    BY <1>1, <1>2, <2>1, <2>3
  <2>5. \A r \in ledger[t] : r[1] # row
    <3> SUFFICES ASSUME NEW r \in ledger[t], r[1] = row PROVE FALSE
      OBVIOUS
    <3>1. r \in LedgerRow \X (1..month)
      BY <1>1
    <3>2. r = <<row, r[2]>> /\ r[2] \in 1..month
      BY <3>1
    <3>3. r[2] \in Months
      BY <1>1, <3>2, MonthsAssumption DEF Months
    <3> QED
      BY <1>4, <3>2, <3>3
  <2>6. ASSUME NEW u \in Tasks, NEW r \in ledger'[u], NEW s \in ledger'[u], r[1] = s[1]
        PROVE  r = s
    <3>1. CASE u # t
      BY <2>2, <2>6, <3>1 DEF AdmTypeOK
    <3>2. CASE u = t /\ r \in ledger[t] /\ s \in ledger[t]
      BY <2>6, <3>2 DEF AdmTypeOK
    <3>3. CASE u = t /\ (r = <<row, month>> \/ s = <<row, month>>)
      BY <2>2, <2>5, <2>6, <3>3
    <3> QED
      BY <2>2, <3>1, <3>2, <3>3
  <2> QED
    BY <2>2, <2>4, <2>6
<1> QED
  BY <1>3, <1>4

-----------------------------------------------------------------------------
THEOREM InitIInv == AdmInit => IInv
<1> SUFFICES ASSUME AdmInit PROVE IInv
  OBVIOUS
<1>1. AdmTypeOK
  BY MonthsAssumption
  DEF AdmInit, AdmTypeOK, IdleCreate, CreateType, Months, Phase, Outcome
<1>2. FreshBlank /\ RunningHolds /\ KeyNamesTask
  BY DEF AdmInit, FreshBlank, RunningHolds, KeyNamesTask
<1>3. AnswersStand /\ CountGuards
  BY DEF AdmInit, AnswersStand, CountGuards, Counted, IdleCreate
<1>4. QuotaHolds
  <2>1. ASSUME NEW m \in Months PROVE OnTime(m) = {}
    BY DEF AdmInit, OnTime, Rows
  <2> QED
    BY <2>1, FS_EmptySet, QuotaAssumption DEF QuotaHolds
<1> QED
  BY <1>1, <1>2, <1>3, <1>4 DEF IInv

(* A step of one call that touches nothing else. *)
LEMMA CallMoves ==
    ASSUME IInv, NEW c \in Calls, NEW next \in CreateType,
           create' = [create EXCEPT ![c] = next],
           UNCHANGED <<month, phase, input, ledger, keyTask, late>>,
           next.pc # "idle" => next.key \in Keys /\ next.month <= month,
           next.task # NoTask =>
               /\ next.key \in Keys
               /\ keyTask[next.key] = next.task
               /\ next.outcome = "OK" => input[next.task] = next.payload,
           next.pc \in {"asset", "insert"} /\ ~next.overlapped /\ next.month = month =>
               Cardinality(OnTime(month)) < Quota
    PROVE  IInv'
<1> USE DEF IInv
<1>1. /\ create' \in [Calls -> CreateType]
      /\ create'[c] = next
      /\ \A d \in Calls \ {c} : create'[d] = create[d]
  BY DEF AdmTypeOK
<1>2. AdmTypeOK'
  BY <1>1 DEF AdmTypeOK, Months
<1>3. FreshBlank' /\ RunningHolds' /\ KeyNamesTask'
  BY DEF FreshBlank, RunningHolds, KeyNamesTask, Rows, Months
<1>4. AnswersStand'
  BY <1>1 DEF AnswersStand
<1>5. OnTime(month)' = OnTime(month)
  BY DEF OnTime, Charged, Rows
<1>6. CountGuards'
  BY <1>1, <1>5 DEF CountGuards, Counted
<1>7. QuotaHolds'
  BY OnTimeUnchanged DEF QuotaHolds, Months
<1> QED
  BY <1>2, <1>3, <1>4, <1>6, <1>7

LEMMA StepRequest ==
    ASSUME IInv, NEW c \in Calls, NEW k \in Keys, NEW p \in Payloads, Request(c, k, p)
    PROVE  IInv'
<1> DEFINE next == [pc |-> "key", key |-> k, payload |-> p, month |-> 0, overlapped |-> FALSE,
                    outcome |-> "none", task |-> NoTask]
<1>1. next \in CreateType
  <2>1. 0 \in 0..LastMonth
    BY MonthsAssumption
  <2> QED
    BY <2>1 DEF CreateType, Outcome
<1>2. /\ create' = [create EXCEPT ![c] = next]
      /\ UNCHANGED <<month, phase, input, ledger, keyTask, late>>
  BY DEF Request
<1>3. 0 <= month
  BY DEF IInv, AdmTypeOK, Months
<1> QED
  BY <1>1, <1>2, <1>3, CallMoves

LEMMA StepAnswer ==
    ASSUME IInv, NEW c \in Calls, NEW outcome \in Outcome, NEW t \in Tasks \cup {NoTask},
           create[c].pc # "idle",
           Answer(c, outcome, t),
           UNCHANGED <<month, phase, input, ledger, keyTask, late>>,
           t # NoTask => /\ keyTask[create[c].key] = t
                         /\ outcome = "OK" => input[t] = create[c].payload
    PROVE  IInv'
<1> DEFINE next == [create[c] EXCEPT !.pc = "done", !.outcome = outcome, !.task = t]
<1>1. create[c] \in CreateType /\ create[c].key \in Keys /\ create[c].month <= month
  BY DEF IInv, AdmTypeOK
<1>2. /\ next \in CreateType /\ next.pc = "done" /\ next.key = create[c].key
      /\ next.month = create[c].month /\ next.task = t /\ next.outcome = outcome
      /\ next.payload = create[c].payload
  BY <1>1 DEF CreateType
<1>3. create' = [create EXCEPT ![c] = next]
  BY DEF Answer
<1> HIDE DEF next
<1> QED
  BY <1>1, <1>2, <1>3, CallMoves

LEMMA StepFindKey ==
    ASSUME IInv, NEW c \in Calls, FindKey(c)
    PROVE  IInv'
<1> DEFINE t == keyTask[create[c].key]
<1>1. /\ create[c].pc = "key" /\ create[c] \in CreateType /\ create[c].key \in Keys
      /\ create[c].month <= month
      /\ UNCHANGED <<month, phase, input, ledger, keyTask, late>>
  BY DEF FindKey, IInv, AdmTypeOK
<1>2. CASE t = NoTask
  <2> DEFINE next == [create[c] EXCEPT !.pc = "quota"]
  <2>1. create' = [create EXCEPT ![c] = next]
    BY <1>1, <1>2 DEF FindKey
  <2>2. /\ next \in CreateType /\ next.pc = "quota" /\ next.key = create[c].key
        /\ next.month = create[c].month /\ next.task = create[c].task
        /\ next.outcome = create[c].outcome /\ next.payload = create[c].payload
    BY <1>1 DEF CreateType
  <2>3. create[c].task # NoTask => FALSE
    BY <1>1, <1>2 DEF IInv, AnswersStand
  <2> HIDE DEF next
  <2> QED
    BY <1>1, <2>1, <2>2, <2>3, CallMoves
<1>3. CASE t # NoTask
  <2>1. PICK u \in Tasks : u = t
    BY <1>1, <1>3 DEF IInv, AdmTypeOK
  <2>2. CASE input[u] = create[c].payload
    <3>1. Answer(c, "OK", u) /\ "OK" \in Outcome
      BY <1>3, <2>1, <2>2 DEF FindKey, Outcome
    <3> QED
      BY <1>1, <2>1, <2>2, <3>1, StepAnswer
  <2>3. CASE input[u] # create[c].payload
    <3>1. Answer(c, "CONFLICT", u) /\ "CONFLICT" \in Outcome
      BY <1>3, <2>1, <2>3 DEF FindKey, Outcome
    <3> QED
      BY <1>1, <2>1, <2>3, <3>1, StepAnswer
  <2> QED
    BY <2>2, <2>3
<1> QED
  BY <1>2, <1>3

(* The count before the inserts. *)
LEMMA StepCheckQuota ==
    ASSUME IInv, NEW c \in Calls, CheckQuota(c)
    PROVE  IInv'
<1>1. /\ create[c].pc = "quota" /\ create[c] \in CreateType /\ create[c].key \in Keys
      /\ month \in Months
      /\ UNCHANGED <<month, phase, input, ledger, keyTask, late>>
  BY DEF CheckQuota, IInv, AdmTypeOK
<1>2. CASE Exceeded(Used(month))
  <2>1. Answer(c, "QUOTA", NoTask) /\ "QUOTA" \in Outcome
    BY <1>2 DEF CheckQuota, Outcome
  <2> QED
    BY <1>1, <2>1, StepAnswer
<1>3. CASE ~Exceeded(Used(month))
  <2> DEFINE next == [create[c] EXCEPT !.pc = "asset", !.month = month]
  <2>1. create' = [create EXCEPT ![c] = next]
    BY <1>3 DEF CheckQuota
  <2>2. /\ next \in CreateType /\ next.pc = "asset" /\ next.key = create[c].key
        /\ next.month = month /\ next.task = create[c].task
        /\ next.outcome = create[c].outcome /\ next.payload = create[c].payload
    <3>1. month \in 0..LastMonth
      BY <1>1, MonthsAssumption DEF Months
    <3> QED
      BY <1>1, <3>1 DEF CreateType
  <2>3. Cardinality(OnTime(month)) < Quota
    BY <1>3, OnTimeFinite, QuotaAssumption DEF Exceeded
  <2>4. next.task # NoTask =>
            /\ keyTask[next.key] = next.task
            /\ next.outcome = "OK" => input[next.task] = next.payload
    BY <2>2 DEF IInv, AnswersStand
  <2>5. month <= month
    BY <1>1 DEF Months
  <2> HIDE DEF next
  <2> QED
    BY <1>1, <2>1, <2>2, <2>3, <2>4, <2>5, CallMoves
<1> QED
  BY <1>2, <1>3

LEMMA StepCheckAsset ==
    ASSUME IInv, NEW c \in Calls, CheckAsset(c)
    PROVE  IInv'
<1>1. /\ create[c].pc = "asset" /\ create[c] \in CreateType /\ create[c].key \in Keys
      /\ create[c].month <= month
      /\ UNCHANGED <<month, phase, input, ledger, keyTask, late>>
  BY DEF CheckAsset, IInv, AdmTypeOK
<1>2. CASE Answer(c, "ASSET", NoTask)
  BY <1>1, <1>2, StepAnswer DEF Outcome
<1>3. CASE create' = [create EXCEPT ![c].pc = "insert"]
  <2> DEFINE next == [create[c] EXCEPT !.pc = "insert"]
  <2>1. create' = [create EXCEPT ![c] = next]
    BY <1>3
  <2>2. /\ next \in CreateType /\ next.pc = "insert" /\ next.key = create[c].key
        /\ next.month = create[c].month /\ next.task = create[c].task
        /\ next.outcome = create[c].outcome /\ next.payload = create[c].payload
        /\ next.overlapped = create[c].overlapped
    BY <1>1 DEF CreateType
  <2>3. ~create[c].overlapped /\ create[c].month = month => Cardinality(OnTime(month)) < Quota
    BY <1>1 DEF IInv, CountGuards, Counted
  <2>4. next.task # NoTask =>
            /\ keyTask[next.key] = next.task
            /\ next.outcome = "OK" => input[next.task] = next.payload
    BY <2>2 DEF IInv, AnswersStand
  <2> HIDE DEF next
  <2> QED
    BY <1>1, <2>1, <2>2, <2>3, <2>4, CallMoves
<1> QED
  BY <1>2, <1>3 DEF CheckAsset

LEMMA StepFail ==
    ASSUME IInv, NEW c \in Calls, Fail(c)
    PROVE  IInv'
<1>1. "ERROR" \in Outcome
  BY DEF Outcome
<1> QED
  BY <1>1, StepAnswer DEF Fail

-----------------------------------------------------------------------------
(* The insert: guarded by its count, or late.                              *)

LEMMA StepInsert ==
    ASSUME IInv, NEW c \in Calls, NEW t \in Tasks, Insert(c, t)
    PROVE  IInv'
<1> DEFINE k == create[c].key
           mine == [create[c] EXCEPT !.pc = "done", !.outcome = "OK", !.task = t]
           inTime == ~create[c].overlapped /\ create[c].month = month
<1>1. /\ create[c].pc = "insert" /\ phase[t] = "none" /\ keyTask[k] = NoTask
      /\ phase' = [phase EXCEPT ![t] = "running"]
      /\ input' = [input EXCEPT ![t] = create[c].payload]
      /\ keyTask' = [keyTask EXCEPT ![k] = t]
      /\ AppendLedger(t, Held)
      /\ late' = IF inTime THEN late ELSE late \cup {t}
      /\ month' = month
  BY DEF Insert, KeyIsFree
<1>2. /\ AdmTypeOK /\ create[c] \in CreateType /\ k \in Keys /\ t # NoTask
      /\ ledger[t] = {} /\ month \in Months
  BY <1>1, TasksAssumption DEF IInv, AdmTypeOK, FreshBlank
<1>3. /\ ledger' \in [Tasks -> SUBSET (LedgerRow \X (1..month))]
      /\ \A u \in Tasks : \A r, s \in ledger'[u] : r[1] = s[1] => r = s
      /\ \A u \in Tasks \ {t} : ledger'[u] = ledger[u]
      /\ ledger'[t] \subseteq {<<Held, month>>}
  <2>1. Held \in LedgerRow
    BY DEF LedgerRow
  <2> QED
    BY <1>1, <1>2, <2>1, RowAppended
<1>4. create' = [d \in Calls |-> IF d = c THEN mine
                               ELSE [create[d] EXCEPT !.overlapped = @ \/ Counted(d)]]
  BY DEF Insert
<1>5. /\ mine \in CreateType /\ mine.pc = "done" /\ mine.task = t /\ mine.outcome = "OK"
      /\ mine.key = k /\ mine.payload = create[c].payload /\ mine.month = create[c].month
  BY <1>2 DEF CreateType, Outcome
<1> HIDE DEF mine
<1>6. ASSUME NEW d \in Calls \ {c}
      PROVE  /\ create'[d] \in CreateType
             /\ create'[d].pc = create[d].pc /\ create'[d].key = create[d].key
             /\ create'[d].month = create[d].month /\ create'[d].payload = create[d].payload
             /\ create'[d].task = create[d].task /\ create'[d].outcome = create[d].outcome
             /\ Counted(d) => create'[d].overlapped
  <2>1. create[d] \in CreateType /\ Counted(d) \in BOOLEAN
    BY <1>2 DEF AdmTypeOK, Counted
  <2>2. create'[d] = [create[d] EXCEPT !.overlapped = create[d].overlapped \/ Counted(d)]
    BY <1>4
  <2> QED
    BY <2>1, <2>2 DEF CreateType
<1>7. AdmTypeOK'
  <2>1. create' \in [Calls -> CreateType]
    BY <1>4, <1>5, <1>6
  <2>2. \A d \in Calls : create'[d].pc # "idle" => create'[d].key \in Keys /\ create'[d].month <= month
    <3>1. create'[c] = mine
      BY <1>4
    <3> QED
      BY <1>1, <1>2, <1>5, <1>6, <3>1 DEF AdmTypeOK
  <2>3. /\ phase' \in [Tasks -> Phase] /\ keyTask' \in [Keys -> Tasks \cup {NoTask}]
        /\ late' \subseteq Tasks
    BY <1>1, <1>2 DEF AdmTypeOK, Phase
  <2>4. input' \in [Tasks -> Payloads \cup {"none"}]
    BY <1>1, <1>2 DEF AdmTypeOK, CreateType
  <2> QED
    BY <1>1, <1>2, <1>3, <2>1, <2>2, <2>3, <2>4 DEF AdmTypeOK, Months
<1>8. FreshBlank'
  BY <1>1, <1>2, <1>3 DEF IInv, FreshBlank, AdmTypeOK
<1>9. RunningHolds'
  <2> SUFFICES ASSUME NEW u \in Tasks \ late', phase'[u] = "running", NEW m \in Months
               PROVE  Rows(u, m)' \cap Released = {}
    BY DEF RunningHolds, Months, Released
  <2>1. CASE u = t
    BY <1>3, <2>1 DEF Rows, Released, Held, ReleasedCancel, ReleasedFailure
  <2>2. CASE u # t
    <3>1. phase[u] = "running" /\ u \notin late /\ Rows(u, m)' = Rows(u, m)
      BY <1>1, <1>2, <1>3, <2>2 DEF AdmTypeOK, Rows
    <3> QED
      BY <3>1 DEF IInv, RunningHolds
  <2> QED
    BY <2>1, <2>2
<1>10. KeyNamesTask'
  BY <1>1, <1>2 DEF IInv, KeyNamesTask, AdmTypeOK
<1>11. AnswersStand'
  <2> SUFFICES ASSUME NEW d \in Calls, create'[d].task # NoTask
               PROVE  /\ create'[d].key \in Keys
                      /\ keyTask'[create'[d].key] = create'[d].task
                      /\ create'[d].outcome = "OK" => input'[create'[d].task] = create'[d].payload
    BY DEF AnswersStand
  <2>1. CASE d = c
    <3>1. create'[d] = mine
      BY <1>4, <2>1
    <3> QED
      BY <1>1, <1>2, <1>5, <3>1 DEF AdmTypeOK
  <2>2. CASE d # c
    <3>1. /\ create[d].task # NoTask /\ create[d].key \in Keys
          /\ keyTask[create[d].key] = create[d].task
          /\ create[d].outcome = "OK" => input[create[d].task] = create[d].payload
      BY <1>6, <2>2 DEF IInv, AnswersStand
    <3>2. create[d].key # k /\ create[d].task # t
      BY <1>1, <1>2, <3>1 DEF IInv, KeyNamesTask
    <3>3. keyTask'[create[d].key] = create[d].task
      BY <1>1, <1>2, <3>1, <3>2 DEF AdmTypeOK
    <3>4. create[d].task \in Tasks /\ input'[create[d].task] = input[create[d].task]
      BY <1>1, <1>2, <3>1, <3>2 DEF AdmTypeOK
    <3> QED
      BY <1>6, <2>2, <3>1, <3>3, <3>4
  <2> QED
    BY <2>1, <2>2
<1>12. CountGuards'
  BY <1>4, <1>5, <1>6 DEF CountGuards, Counted
<1>13. ASSUME NEW m \in Months PROVE OnTime(m)' \subseteq OnTime(m) \cup {t}
  BY <1>1, <1>3 DEF OnTime, Charged, Rows
<1>14. QuotaHolds'
  <2> SUFFICES ASSUME NEW m \in Months PROVE Cardinality(OnTime(m)') <= Quota
    BY DEF QuotaHolds, Months
  <2>1. /\ IsFiniteSet(OnTime(m)) /\ Cardinality(OnTime(m)) \in Nat
        /\ Cardinality(OnTime(m)) <= Quota
    BY OnTimeFinite DEF IInv, QuotaHolds
  <2>2. CASE inTime /\ m = month
    <3>1. Cardinality(OnTime(m)) < Quota
      BY <1>1, <2>2 DEF IInv, CountGuards, Counted
    <3>2. /\ IsFiniteSet(OnTime(m) \cup {t})
          /\ Cardinality(OnTime(m) \cup {t}) <= Cardinality(OnTime(m)) + 1
          /\ Cardinality(OnTime(m) \cup {t}) \in Nat
      <4>1. /\ IsFiniteSet(OnTime(m) \cup {t})
            /\ Cardinality(OnTime(m) \cup {t}) =
                   IF t \in OnTime(m) THEN Cardinality(OnTime(m)) ELSE Cardinality(OnTime(m)) + 1
        BY <2>1, FS_AddElement
      <4> QED
        BY <2>1, <4>1
    <3>3. OnTime(m)' \in SUBSET (OnTime(m) \cup {t})
      BY <1>13
    <3>4. /\ Cardinality(OnTime(m)') <= Cardinality(OnTime(m) \cup {t})
          /\ Cardinality(OnTime(m)') \in Nat
      BY <3>2, <3>3, FS_Subset, FS_CardinalityType
    <3> QED
      BY <2>1, <3>1, <3>2, <3>4, QuotaAssumption
  <2>3. CASE ~(inTime /\ m = month)
    <3>1. t \notin OnTime(m)'
      BY <1>1, <1>3, <2>3 DEF OnTime, Rows
    <3>2. OnTime(m)' \in SUBSET OnTime(m)
      BY <1>13, <3>1
    <3>3. /\ Cardinality(OnTime(m)') <= Cardinality(OnTime(m))
          /\ Cardinality(OnTime(m)') \in Nat
      BY <2>1, <3>2, FS_Subset, FS_CardinalityType
    <3> QED
      BY <2>1, <3>3, QuotaAssumption
  <2> QED
    BY <2>2, <2>3
<1> QED
  BY <1>7, <1>8, <1>9, <1>10, <1>11, <1>12, <1>14 DEF IInv

-----------------------------------------------------------------------------
(* The pipeline, the user and the calendar.                                *)

LEMMA StepEnd ==
    ASSUME IInv, NEW t \in Tasks, NEW outcome \in DOMAIN EndRow, End(t, outcome)
    PROVE  IInv'
<1> DEFINE row == EndRow[outcome]
<1>1. /\ phase[t] = "running"
      /\ phase' = [phase EXCEPT ![t] = outcome]
      /\ AppendLedger(t, row)
      /\ UNCHANGED <<month, input, keyTask, create, late>>
  BY DEF End
<1>2. /\ outcome \in {"succeeded", "failed", "canceled"}
      /\ row \in LedgerRow /\ row # Held
  BY DEF EndRow, LedgerRow, Held, Committed, ReleasedFailure, ReleasedCancel
<1> HIDE DEF row
<1>3. /\ ledger' \in [Tasks -> SUBSET (LedgerRow \X (1..month))]
      /\ \A u \in Tasks : \A r, s \in ledger'[u] : r[1] = s[1] => r = s
      /\ \A u \in Tasks \ {t} : ledger'[u] = ledger[u]
      /\ ledger[t] \subseteq ledger'[t]
      /\ ledger'[t] \subseteq ledger[t] \cup {<<row, month>>}
  BY <1>1, <1>2, RowAppended DEF IInv
<1>4. AdmTypeOK'
  <2>1. phase' \in [Tasks -> Phase]
    BY <1>1, <1>2 DEF IInv, AdmTypeOK, Phase
  <2> QED
    BY <1>1, <1>3, <2>1 DEF IInv, AdmTypeOK, Months
<1>5. phase[t] # "none" /\ phase'[t] # "none" /\ phase'[t] # "running"
      /\ \A u \in Tasks \ {t} : phase'[u] = phase[u]
  BY <1>1, <1>2 DEF IInv, AdmTypeOK
<1>6. FreshBlank'
  BY <1>3, <1>5 DEF IInv, FreshBlank
<1>7. RunningHolds'
  BY <1>1, <1>3, <1>5 DEF IInv, RunningHolds, Rows, Months, Released
<1>8. KeyNamesTask'
  BY <1>1, <1>5 DEF IInv, KeyNamesTask, AdmTypeOK
<1>9. AnswersStand'
  BY <1>1 DEF IInv, AnswersStand
<1>10. ASSUME NEW m \in Months PROVE OnTime(m)' \subseteq OnTime(m)
  <2> SUFFICES ASSUME NEW u \in Tasks \ late, Held \in Rows(u, m)', Charged(u, m)'
               PROVE  Held \in Rows(u, m) /\ Charged(u, m)
    BY <1>1 DEF OnTime
  <2>1. CASE u # t
    BY <1>3, <2>1 DEF Charged, Rows
  <2>2. CASE u = t
    <3>1. Held \in Rows(u, m)
      BY <1>2, <1>3, <2>2 DEF Rows
    <3>2. Rows(u, m) \cap Released = {}
      BY <1>1, <2>2 DEF IInv, RunningHolds
    <3> QED
      BY <3>1, <3>2 DEF Charged
  <2> QED
    BY <2>1, <2>2
<1>11. QuotaHolds' /\ \A m \in Months : Cardinality(OnTime(m)') <= Cardinality(OnTime(m))
  BY <1>10, OnTimeShrinks DEF IInv
<1>12. CountGuards'
  <2>1. month \in Months /\ month' = month /\ create' = create
    BY <1>1 DEF IInv, AdmTypeOK
  <2>2. Cardinality(OnTime(month)') <= Cardinality(OnTime(month))
    BY <1>11, <2>1
  <2>3. Cardinality(OnTime(month)') \in Nat /\ Cardinality(OnTime(month)) \in Nat
    <3>1. OnTime(month)' \in SUBSET OnTime(month)
      BY <1>10, <2>1
    <3> QED
      BY <3>1, OnTimeFinite, FS_Subset, FS_CardinalityType
  <2> QED
    BY <2>1, <2>2, <2>3, QuotaAssumption DEF IInv, CountGuards, Counted
<1> QED
  BY <1>4, <1>6, <1>7, <1>8, <1>9, <1>11, <1>12 DEF IInv

LEMMA StepRetry ==
    ASSUME IInv, NEW t \in Tasks, Retry(t)
    PROVE  IInv'
<1>1. /\ phase[t] = "failed"
      /\ phase' = [phase EXCEPT ![t] = "running"]
      /\ late' = late \cup {t}
      /\ UNCHANGED <<month, input, ledger, keyTask, create>>
  BY DEF Retry
<1>2. AdmTypeOK'
  BY <1>1 DEF IInv, AdmTypeOK, Phase, Months
<1>3. FreshBlank' /\ RunningHolds' /\ KeyNamesTask'
  BY <1>1 DEF IInv, AdmTypeOK, FreshBlank, RunningHolds, KeyNamesTask, Rows, Months, Released
<1>4. AnswersStand'
  BY <1>1 DEF IInv, AnswersStand
<1>5. ASSUME NEW m \in Months PROVE OnTime(m)' \subseteq OnTime(m)
  BY <1>1 DEF OnTime, Charged, Rows
<1>6. QuotaHolds' /\ \A m \in Months : Cardinality(OnTime(m)') <= Cardinality(OnTime(m))
  BY <1>5, OnTimeShrinks DEF IInv
<1>7. CountGuards'
  <2>1. month \in Months /\ month' = month /\ create' = create
    BY <1>1 DEF IInv, AdmTypeOK
  <2>2. Cardinality(OnTime(month)') <= Cardinality(OnTime(month))
    BY <1>6, <2>1
  <2>3. Cardinality(OnTime(month)') \in Nat /\ Cardinality(OnTime(month)) \in Nat
    <3>1. OnTime(month)' \in SUBSET OnTime(month)
      BY <1>5, <2>1
    <3> QED
      BY <3>1, OnTimeFinite, FS_Subset, FS_CardinalityType
  <2> QED
    BY <2>1, <2>2, <2>3, QuotaAssumption DEF IInv, CountGuards, Counted
<1> QED
  BY <1>2, <1>3, <1>4, <1>6, <1>7 DEF IInv

(* A count made in an earlier month guards nothing any more. *)
LEMMA StepNextMonth ==
    ASSUME IInv, NextMonth
    PROVE  IInv'
<1>1. /\ month < LastMonth /\ month' = month + 1 /\ month \in Nat /\ 1 <= month
      /\ UNCHANGED <<phase, input, ledger, keyTask, create, late>>
  BY MonthsAssumption DEF NextMonth, IInv, AdmTypeOK, Months
<1>2. AdmTypeOK'
  <2>1. month' \in Months
    BY <1>1, MonthsAssumption DEF Months
  <2>2. ledger' \in [Tasks -> SUBSET (LedgerRow \X (1..month'))]
    <3>1. 1..month \subseteq 1..month'
      BY <1>1
    <3>2. LedgerRow \X (1..month) \subseteq LedgerRow \X (1..month')
      BY <3>1
    <3> QED
      BY <1>1, <3>2 DEF IInv, AdmTypeOK
  <2>3. \A c \in Calls : create'[c].pc # "idle" => create'[c].key \in Keys /\ create'[c].month <= month'
    <3> SUFFICES ASSUME NEW c \in Calls, create[c].pc # "idle"
                 PROVE  create[c].key \in Keys /\ create[c].month <= month + 1
      BY <1>1
    <3>1. create[c].key \in Keys /\ create[c].month <= month /\ create[c].month \in Nat
      BY MonthsAssumption DEF IInv, AdmTypeOK, CreateType
    <3> QED
      BY <1>1, <3>1
  <2> QED
    BY <1>1, <2>1, <2>2, <2>3 DEF IInv, AdmTypeOK
<1>3. FreshBlank' /\ RunningHolds' /\ KeyNamesTask' /\ AnswersStand'
  BY <1>1 DEF IInv, FreshBlank, RunningHolds, KeyNamesTask, AnswersStand, Rows, Months, Released
<1>4. CountGuards'
  <2> SUFFICES ASSUME NEW c \in Calls, Counted(c), create[c].month = month + 1 PROVE FALSE
    BY <1>1 DEF CountGuards, Counted
  <2>1. create[c].month <= month
    BY DEF IInv, AdmTypeOK, Counted
  <2> QED
    BY <1>1, <2>1
<1>5. QuotaHolds'
  BY <1>1, OnTimeUnchanged DEF IInv, QuotaHolds, Months
<1> QED
  BY <1>2, <1>3, <1>4, <1>5 DEF IInv

-----------------------------------------------------------------------------
LEMMA NextIInv == IInv /\ [AdmNext]_admVars => IInv'
<1> SUFFICES ASSUME IInv, [AdmNext]_admVars PROVE IInv'
  OBVIOUS
<1>1. ASSUME NEW c \in Calls, CreateStep(c) PROVE IInv'
  BY <1>1, StepRequest, StepFindKey, StepCheckQuota, StepCheckAsset, StepInsert, StepFail
  DEF CreateStep
<1>2. ASSUME NEW t \in Tasks, TaskStep(t) PROVE IInv'
  BY <1>2, StepEnd, StepRetry DEF TaskStep
<1>3. CASE NextMonth
  BY <1>3, StepNextMonth
<1>4. CASE UNCHANGED admVars
  <2>1. UNCHANGED <<month, phase, input, ledger, keyTask, create, late>>
    BY <1>4 DEF admVars
  <2>2. AdmTypeOK' /\ FreshBlank' /\ RunningHolds' /\ KeyNamesTask' /\ AnswersStand'
    BY <2>1 DEF IInv, AdmTypeOK, FreshBlank, RunningHolds, KeyNamesTask, AnswersStand, Rows, Months, Released
  <2>3. QuotaHolds' /\ CountGuards'
    <3>1. \A m : OnTime(m)' = OnTime(m)
      BY <2>1, OnTimeUnchanged
    <3>2. OnTime(month)' = OnTime(month)
      BY <2>1 DEF OnTime, Charged, Rows
    <3> QED
      BY <2>1, <3>1, <3>2 DEF IInv, QuotaHolds, CountGuards, Counted, Months
  <2> QED
    BY <2>2, <2>3 DEF IInv
<1> QED
  BY <1>1, <1>2, <1>3, <1>4 DEF AdmNext

THEOREM Invariance == AdmSpec => []IInv
BY InitIInv, NextIInv, PTL DEF AdmSpec

(* The variables of TaskAdmission keep their types, a ledger row is there  *)
(* once.                                                                   *)
THEOREM AdmissionTypeCorrect == AdmSpec => []AdmTypeOK
BY Invariance, PTL DEF IInv

(* Whatever the quota and however many calls race, only overlapping,       *)
(* carried-over and retried tasks take a user over it.                     *)
THEOREM QuotaIsKept == AdmSpec => []QuotaHolds
BY Invariance, PTL DEF IInv

(* Calls with one key are told of one task. *)
THEOREM OneTaskPerKey == AdmSpec => []SameKeySameTask
<1>1. IInv => SameKeySameTask
  BY DEF IInv, AnswersStand, SameKeySameTask
<1> QED
  BY <1>1, Invariance, PTL

=============================================================================
