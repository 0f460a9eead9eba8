------------------------- MODULE TaskMemoryStoreProofs -------------------------
(***************************************************************************)
(* Proofs about TaskMemoryStore, for every value of its constants: what    *)
(* its operators make of the maps, what a step does, the inductive         *)
(* invariant, and the refinement of the task contract.                     *)
(***************************************************************************)
EXTENDS TaskMemoryStore, FiniteSetTheorems, TLAPS

-----------------------------------------------------------------------------
(* What the operators make of the maps. *)
Percent  == 0..100
StoreRow == [status : TaskStatus \cup {NoStatus}, version : Nat, progress : Percent]
ActedOp  == (TaskActionType \cup {"none"}) \X (MemTasks \cup {Stranger})
ActedRow == [op : ActedOp, outcome : {"none", "SUCCESS", "INVALID", "NOT_FOUND"}]
InputRow == [version : Nat, payload : Payloads \cup {0}]
EventRow == [type : EventType, task : MemTasks]

LEMMA MapsAre ==
    Maps = [task : [MemTasks -> StoreRow], made : [CreateKeys -> MemTasks \cup {Stranger}],
            acted : [ActionKeys -> ActedRow], input : [UploadKind -> [MemTasks -> InputRow]],
            ledger : [MemTasks -> [LedgerRow -> Nat]], events : Seq(EventRow)]
BY DEF Maps, StoreRow, Percent, ActedOp, ActedRow, InputRow, EventRow

MovedRow(r, to, progress) == [status |-> to, version |-> r.version + 1, progress |-> progress]
BookedRows(rows, booked)  == [r \in LedgerRow |-> IF r \in booked THEN rows[r] + 1 ELSE rows[r]]

LEMMA TransitionedIs ==
    ASSUME NEW m \in Maps, NEW t \in MemTasks, NEW to \in TaskStatus, NEW progress \in Percent
    PROVE  LET n == Transitioned(m, t, to, progress)
           IN  /\ n \in Maps
               /\ n.task = [m.task EXCEPT ![t] = MovedRow(m.task[t], to, progress)]
               /\ n.made = m.made /\ n.acted = m.acted /\ n.input = m.input /\ n.ledger = m.ledger
               /\ n.events = m.events
<1> DEFINE new == MovedRow(m.task[t], to, progress)
<1>1. m.task \in [MemTasks -> StoreRow] /\ m.task[t].version \in Nat
  BY MapsAre DEF StoreRow
<1>2. new \in StoreRow
  BY <1>1 DEF StoreRow, MovedRow
<1>3. Transitioned(m, t, to, progress) = [m EXCEPT !.task = [m.task EXCEPT ![t] = new]]
  BY DEF Transitioned, MovedRow
<1> HIDE DEF new
<1>4. [m.task EXCEPT ![t] = new] \in [MemTasks -> StoreRow]
  BY <1>1, <1>2
<1> QED
  BY <1>3, <1>4, MapsAre DEF new

LEMMA BookedIs ==
    ASSUME NEW m \in Maps, NEW t \in MemTasks, NEW booked
    PROVE  LET n == Booked(m, t, booked)
           IN  /\ n \in Maps
               /\ n.ledger = [m.ledger EXCEPT ![t] = BookedRows(m.ledger[t], booked)]
               /\ n.made = m.made /\ n.acted = m.acted /\ n.input = m.input /\ n.task = m.task
               /\ n.events = m.events
<1> DEFINE new == BookedRows(m.ledger[t], booked)
<1>1. m.ledger \in [MemTasks -> [LedgerRow -> Nat]] /\ m.ledger[t] \in [LedgerRow -> Nat]
  BY MapsAre
<1>2. new \in [LedgerRow -> Nat]
  BY <1>1 DEF BookedRows
<1>3. Booked(m, t, booked) = [m EXCEPT !.ledger = [m.ledger EXCEPT ![t] = new]]
  BY DEF Booked, BookedRows
<1> HIDE DEF new
<1>4. [m.ledger EXCEPT ![t] = new] \in [MemTasks -> [LedgerRow -> Nat]]
  BY <1>1, <1>2
<1> QED
  BY <1>3, <1>4, MapsAre DEF new

LEMMA AnnouncedIs ==
    ASSUME NEW m \in Maps, NEW t \in MemTasks, NEW type \in EventType \cup {NoEventType}
    PROVE  LET n == Announced(m, t, type)
           IN  /\ n \in Maps
               /\ type # NoEventType => n.events = Append(m.events, [type |-> type, task |-> t])
               /\ type = NoEventType => n.events = m.events
               /\ n.made = m.made /\ n.acted = m.acted /\ n.input = m.input /\ n.task = m.task
               /\ n.ledger = m.ledger
<1>1. CASE type = NoEventType
  BY <1>1 DEF Announced
<1>2. CASE type # NoEventType
  <2> DEFINE new == Append(m.events, [type |-> type, task |-> t])
  <2>1. [type |-> type, task |-> t] \in EventRow /\ m.events \in Seq(EventRow)
    BY <1>2, MapsAre DEF EventRow
  <2>2. new \in Seq(EventRow)
    BY <2>1
  <2>3. Announced(m, t, type) = [m EXCEPT !.events = new]
    BY <1>2 DEF Announced
  <2> HIDE DEF new
  <2> QED
    BY <1>2, <2>2, <2>3, MapsAre DEF new
<1> QED
  BY <1>1, <1>2

LEMMA PostTyped ==
    ASSUME NEW from, NEW to
    PROVE  PostTransitionEvent(from, to) \in EventType \cup {NoEventType}
<1>1. PostTransitionEvent(from, to) \in {"task.succeeded", "task.canceled", "task.retried", NoEventType}
  BY Zenon DEF PostTransitionEvent
<1> QED
  BY <1>1 DEF EventType, TriggerEvent, NoticeEvent

EventsAfter(m, n, t, type) ==
    /\ type # NoEventType => n.events = Append(m.events, [type |-> type, task |-> t])
    /\ type = NoEventType => n.events = m.events

LEMMA TransitedIs ==
    ASSUME NEW m \in Maps, NEW t \in MemTasks, NEW to \in TaskStatus, NEW progress \in Percent
    PROVE  LET n == Transited(m, t, to, progress)
           IN  /\ n \in Maps
               /\ n.task = [m.task EXCEPT ![t] = MovedRow(m.task[t], to, progress)]
               /\ n.ledger = [m.ledger EXCEPT ![t] = BookedRows(m.ledger[t], PostTransitionLedger(to))]
               /\ EventsAfter(m, n, t, PostTransitionEvent(m.task[t].status, to))
               /\ n.made = m.made /\ n.acted = m.acted /\ n.input = m.input
<1> DEFINE a == Transitioned(m, t, to, progress)
           b == Booked(a, t, PostTransitionLedger(to))
           type == PostTransitionEvent(m.task[t].status, to)
           n == Announced(b, t, type)
<1>1. /\ a \in Maps
      /\ a.task = [m.task EXCEPT ![t] = MovedRow(m.task[t], to, progress)]
      /\ a.made = m.made /\ a.acted = m.acted /\ a.input = m.input /\ a.ledger = m.ledger
      /\ a.events = m.events
  BY TransitionedIs
<1> HIDE DEF a
<1>2. /\ b \in Maps
      /\ b.ledger = [a.ledger EXCEPT ![t] = BookedRows(a.ledger[t], PostTransitionLedger(to))]
      /\ b.made = a.made /\ b.acted = a.acted /\ b.input = a.input /\ b.task = a.task /\ b.events = a.events
  BY <1>1, BookedIs
<1> HIDE DEF b
<1>3. type \in EventType \cup {NoEventType}
  BY PostTyped
<1> HIDE DEF type
<1>4. /\ n \in Maps
      /\ type # NoEventType => n.events = Append(b.events, [type |-> type, task |-> t])
      /\ type = NoEventType => n.events = b.events
      /\ n.made = b.made /\ n.acted = b.acted /\ n.input = b.input /\ n.task = b.task /\ n.ledger = b.ledger
  BY <1>2, <1>3, AnnouncedIs
<1>5. n = Transited(m, t, to, progress)
  BY DEF Transited, a, b, type
<1> HIDE DEF n
<1>6. n.ledger = [m.ledger EXCEPT ![t] = BookedRows(m.ledger[t], PostTransitionLedger(to))]
  BY <1>1, <1>2, <1>4
<1>7. EventsAfter(m, n, t, type)
  BY <1>1, <1>2, <1>4 DEF EventsAfter
<1> QED
  BY <1>1, <1>2, <1>4, <1>5, <1>6, <1>7 DEF type

(* A created task, and one that is seeded. *)
LEMMA CreatedIs ==
    ASSUME NEW m \in Maps, NEW t \in MemTasks, NEW k \in CreateKeys
    PROVE  LET n == Announced(Booked([m EXCEPT !.task[t] = [status |-> "QUEUED", version |-> 1, progress |-> 0],
                                               !.made[k] = t], t, {Held}), t, "task.created")
           IN  /\ n \in Maps
               /\ n.task = [m.task EXCEPT ![t] = [status |-> "QUEUED", version |-> 1, progress |-> 0]]
               /\ n.ledger = [m.ledger EXCEPT ![t] = BookedRows(m.ledger[t], {Held})]
               /\ n.events = Append(m.events, [type |-> "task.created", task |-> t])
               /\ n.made = [m.made EXCEPT ![k] = t] /\ n.acted = m.acted /\ n.input = m.input
<1> DEFINE new == [status |-> "QUEUED", version |-> 1, progress |-> 0]
           a == [m EXCEPT !.task[t] = new, !.made[k] = t]
           b == Booked(a, t, {Held})
           n == Announced(b, t, "task.created")
<1>1. /\ a \in Maps /\ a.task = [m.task EXCEPT ![t] = new] /\ a.made = [m.made EXCEPT ![k] = t]
      /\ a.acted = m.acted /\ a.input = m.input /\ a.ledger = m.ledger /\ a.events = m.events
  <2>1. new \in StoreRow
    BY DEF StoreRow, TaskStatus, Percent
  <2> HIDE DEF new
  <2>2. /\ [m.task EXCEPT ![t] = new] \in [MemTasks -> StoreRow]
        /\ [m.made EXCEPT ![k] = t] \in [CreateKeys -> MemTasks \cup {Stranger}]
    BY <2>1, MapsAre
  <2>3. a = [[m EXCEPT !.task = [m.task EXCEPT ![t] = new]] EXCEPT !.made = [m.made EXCEPT ![k] = t]]
    BY MapsAre
  <2> QED
    BY <2>2, <2>3, MapsAre
<1> HIDE DEF a, new
<1>h. PICK held : held = {Held}
  OBVIOUS
<1>2. /\ b \in Maps
      /\ b.ledger = [a.ledger EXCEPT ![t] = BookedRows(a.ledger[t], held)]
      /\ b.made = a.made /\ b.acted = a.acted /\ b.input = a.input /\ b.task = a.task /\ b.events = a.events
  <2>1. b = Booked(a, t, held)
    BY <1>h
  <2> HIDE DEF b
  <2> QED
    BY <1>1, <2>1, BookedIs
<1> HIDE DEF b
<1>3. "task.created" \in EventType \cup {NoEventType} /\ "task.created" # NoEventType
  BY DEF EventType, TriggerEvent, NoEventType
<1>4. /\ n \in Maps /\ n.events = Append(b.events, [type |-> "task.created", task |-> t])
      /\ n.made = b.made /\ n.acted = b.acted /\ n.input = b.input /\ n.task = b.task /\ n.ledger = b.ledger
  BY <1>2, <1>3, AnnouncedIs
<1> HIDE DEF n
<1>5. n.ledger = [m.ledger EXCEPT ![t] = BookedRows(m.ledger[t], {Held})]
  BY <1>1, <1>2, <1>4, <1>h
<1> QED
  BY <1>1, <1>2, <1>4, <1>5 DEF n, b, a, new

LEMMA SeededIs ==
    ASSUME NEW m \in Maps, NEW t \in MemTasks
    PROVE  LET n == [m EXCEPT !.task[t] = [status |-> "FAILED", version |-> 1, progress |-> 100]]
           IN  /\ n \in Maps
               /\ n.task = [m.task EXCEPT ![t] = [status |-> "FAILED", version |-> 1, progress |-> 100]]
               /\ n.made = m.made /\ n.acted = m.acted /\ n.input = m.input /\ n.ledger = m.ledger
               /\ n.events = m.events
<1> DEFINE new == [status |-> "FAILED", version |-> 1, progress |-> 100]
<1>1. new \in StoreRow
  BY DEF StoreRow, TaskStatus, Percent
<1> HIDE DEF new
<1>2. [m.task EXCEPT ![t] = new] \in [MemTasks -> StoreRow]
  BY <1>1, MapsAre
<1>3. [m EXCEPT !.task[t] = new] = [m EXCEPT !.task = [m.task EXCEPT ![t] = new]]
  OBVIOUS
<1> QED
  BY <1>2, <1>3, MapsAre DEF new

LEMMA RememberedIs ==
    ASSUME NEW m \in Maps, NEW k \in ActionKeys, NEW op \in ActedOp,
           NEW outcome, outcome \in {"SUCCESS", "INVALID", "NOT_FOUND"}
    PROVE  LET n == Remembered(m, k, op, outcome)
           IN  /\ n \in Maps
               /\ n.acted = [m.acted EXCEPT ![k] = [op |-> op, outcome |-> outcome]]
               /\ n.made = m.made /\ n.task = m.task /\ n.input = m.input /\ n.ledger = m.ledger
               /\ n.events = m.events
<1> DEFINE new == [op |-> op, outcome |-> outcome]
<1>1. new \in ActedRow
  BY DEF ActedRow
<1>2. Remembered(m, k, op, outcome) = [m EXCEPT !.acted = [m.acted EXCEPT ![k] = new]]
  BY DEF Remembered
<1> HIDE DEF new
<1>3. [m.acted EXCEPT ![k] = new] \in [ActionKeys -> ActedRow]
  BY <1>1, MapsAre
<1> QED
  BY <1>2, <1>3, MapsAre DEF new

(* An upload: the input, and what it makes of a task that has not ended. *)
StoredInput(kind, t, p, version) ==
    [version |-> (IF mem.input[kind][t] = NoInput THEN version ELSE mem.input[kind][t].version) + 1,
     payload |-> p]

TouchedMaps(m, n, t) ==
    \/ n.task = m.task /\ n.events = m.events
    \/ /\ \E new \in StoreRow :
             /\ n.task = [m.task EXCEPT ![t] = new]
             /\ \/ new.status = m.task[t].status
                \/ m.task[t].status = "QUEUED" /\ new.status = "PREPROCESSING"
       /\ n.events = Append(m.events, [type |-> "task.masked", task |-> t])

LEMMA UploadedIs ==
    ASSUME mem \in Maps, NEW kind \in UploadKind, NEW t \in MemTasks, NEW p \in Payloads, NEW version \in Nat
    PROVE  LET n == Uploaded(kind, t, p, version)
           IN  /\ n \in Maps
               /\ n.input = [mem.input EXCEPT ![kind] = [mem.input[kind] EXCEPT ![t] = StoredInput(kind, t, p, version)]]
               /\ n.made = mem.made /\ n.acted = mem.acted /\ n.ledger = mem.ledger
               /\ TouchedMaps(mem, n, t)
<1> DEFINE file  == StoredInput(kind, t, p, version)
           files == [mem.input EXCEPT ![kind] = [mem.input[kind] EXCEPT ![t] = file]]
           a     == [mem EXCEPT !.input[kind][t] =
                        [version |-> (IF @ = NoInput THEN version ELSE @.version) + 1, payload |-> p]]
           st    == mem.task[t].status
           level == UploadProgress[kind]
           moved == IF st = "QUEUED" THEN Transitioned(a, t, "PREPROCESSING", 15)
                    ELSE [a EXCEPT !.task[t].version = @ + 1, !.task[t].progress = RaiseProgress(@, level)]
           n     == Uploaded(kind, t, p, version)
<1>1. /\ mem.input \in [UploadKind -> [MemTasks -> InputRow]] /\ mem.input[kind][t].version \in Nat
      /\ mem.task \in [MemTasks -> StoreRow] /\ mem.task[t] \in StoreRow
  BY MapsAre DEF InputRow
<1>2. file \in InputRow
  BY <1>1 DEF StoredInput, InputRow
<1>3. a = [mem EXCEPT !.input = files]
  BY DEF StoredInput
<1>4. n = IF isTerminalTaskStatus(st) THEN a ELSE Announced(moved, t, "task.masked")
  BY DEF Uploaded
<1>l. level \in Percent
  BY DEF UploadProgress, UploadKind, Percent
<1> HIDE DEF file, a, n, level
<1>5. files \in [UploadKind -> [MemTasks -> InputRow]]
  BY <1>1, <1>2
<1> HIDE DEF files
<1>6. /\ a \in Maps /\ a.input = files /\ a.made = mem.made /\ a.acted = mem.acted /\ a.ledger = mem.ledger
      /\ a.task = mem.task /\ a.events = mem.events
  BY <1>3, <1>5, MapsAre
<1>7. /\ moved \in Maps /\ moved.input = files /\ moved.made = mem.made /\ moved.acted = mem.acted
      /\ moved.ledger = mem.ledger /\ moved.events = mem.events
      /\ \E new \in StoreRow :
            /\ moved.task = [mem.task EXCEPT ![t] = new]
            /\ new.status = st \/ (st = "QUEUED" /\ new.status = "PREPROCESSING")
  <2>1. CASE st = "QUEUED"
    <3>1. "PREPROCESSING" \in TaskStatus /\ 15 \in Percent
      BY DEF TaskStatus, Percent
    <3>2. PICK to \in TaskStatus, progress \in Percent : to = "PREPROCESSING" /\ progress = 15
      BY <3>1
    <3>3. moved = Transitioned(a, t, to, progress)
      BY <2>1, <3>2
    <3> HIDE DEF moved
    <3>4. /\ moved \in Maps /\ moved.task = [a.task EXCEPT ![t] = MovedRow(a.task[t], to, progress)]
          /\ moved.made = a.made /\ moved.acted = a.acted /\ moved.input = a.input /\ moved.ledger = a.ledger
          /\ moved.events = a.events
      BY <1>6, <3>3, TransitionedIs
    <3>5. MovedRow(a.task[t], to, progress) \in StoreRow /\ MovedRow(a.task[t], to, progress).status = to
      BY <1>1, <1>6 DEF MovedRow, StoreRow
    <3> QED
      BY <1>6, <2>1, <3>2, <3>4, <3>5
  <2>2. CASE st # "QUEUED"
    <3> DEFINE old == a.task[t]
               new == [old EXCEPT !.version = old.version + 1, !.progress = RaiseProgress(old.progress, level)]
    <3>1. old \in StoreRow /\ old.status = st /\ old.version + 1 \in Nat
      BY <1>1, <1>6 DEF StoreRow
    <3>2. RaiseProgress(old.progress, level) \in Percent
      BY <1>l, <3>1 DEF RaiseProgress, StoreRow
    <3>3. new \in StoreRow /\ new.status = st
      BY <3>1, <3>2 DEF StoreRow
    <3>4. moved = [a EXCEPT !.task = [a.task EXCEPT ![t] = new]]
      <4>1. moved = [a EXCEPT !.task[t].version = @ + 1, !.task[t].progress = RaiseProgress(@, level)]
        BY <2>2
      <4>2. a.task \in [MemTasks -> StoreRow]
        BY <1>1, <1>6
      <4> QED
        BY <1>6, <3>1, <4>1, <4>2, MapsAre DEF StoreRow
    <3> HIDE DEF new, moved
    <3>5. [a.task EXCEPT ![t] = new] \in [MemTasks -> StoreRow]
      BY <1>1, <1>6, <3>3
    <3>6. /\ moved \in Maps /\ moved.task = [a.task EXCEPT ![t] = new]
          /\ moved.made = a.made /\ moved.acted = a.acted /\ moved.input = a.input /\ moved.ledger = a.ledger
          /\ moved.events = a.events
      BY <1>6, <3>4, <3>5, MapsAre
    <3> QED
      BY <1>6, <3>3, <3>6
  <2> QED
    BY <2>1, <2>2
<1> HIDE DEF moved
<1>8. CASE isTerminalTaskStatus(st)
  BY <1>4, <1>6, <1>8 DEF TouchedMaps, files, file, n
<1>9. CASE ~isTerminalTaskStatus(st)
  <2>1. "task.masked" \in EventType \cup {NoEventType} /\ "task.masked" # NoEventType
    BY DEF EventType, TriggerEvent, NoEventType
  <2>2. /\ n \in Maps /\ n.events = Append(moved.events, [type |-> "task.masked", task |-> t])
        /\ n.made = moved.made /\ n.acted = moved.acted /\ n.input = moved.input /\ n.task = moved.task
        /\ n.ledger = moved.ledger
    BY <1>4, <1>7, <1>9, <2>1, AnnouncedIs
  <2>3. TouchedMaps(mem, n, t)
    BY <1>7, <2>2 DEF TouchedMaps
  <2> QED
    BY <1>7, <2>2, <2>3 DEF files, file, n
<1> QED
  BY <1>8, <1>9

-----------------------------------------------------------------------------
(* What a step makes of the maps, and what it tells.                       *)

Made(m, n, t) ==
    /\ ~Exists(m, t) /\ Cardinality(UsedBy(m)) < Quota
    /\ n.task = [m.task EXCEPT ![t] = [status |-> "QUEUED", version |-> 1, progress |-> 0]]
    /\ n.ledger = [m.ledger EXCEPT ![t] = BookedRows(m.ledger[t], {Held})]
    /\ n.events = Append(m.events, [type |-> "task.created", task |-> t])

Seeded(m, n, t) ==
    /\ seeding /\ ~Exists(m, t)
    /\ n.task = [m.task EXCEPT ![t] = [status |-> "FAILED", version |-> 1, progress |-> 100]]
    /\ n.ledger = m.ledger /\ n.events = m.events

Shifted(m, n, t, to) ==
    /\ m.task[t].status \in TaskStatus /\ canTransit(m.task[t].status, to)
    /\ to = "FAILED" => seeding
    /\ \E progress \in Percent : n.task = [m.task EXCEPT ![t] = MovedRow(m.task[t], to, progress)]
    /\ n.ledger = [m.ledger EXCEPT ![t] = BookedRows(m.ledger[t], PostTransitionLedger(to))]
    /\ EventsAfter(m, n, t, PostTransitionEvent(m.task[t].status, to))

Touched(m, n, t) == Exists(m, t) /\ TouchedMaps(m, n, t) /\ n.ledger = m.ledger

Effect(m, n) ==
    \/ n.task = m.task /\ n.ledger = m.ledger /\ n.events = m.events
    \/ \E t \in MemTasks :
          Made(m, n, t) \/ Seeded(m, n, t) \/ Touched(m, n, t) \/ \E to \in TaskStatus : Shifted(m, n, t, to)

Remembers(m, n) ==
    /\ \A k \in CreateKeys : m.made[k] # Stranger => n.made[k] = m.made[k]
    /\ \A k \in ActionKeys : m.acted[k] # NoMemRow => n.acted[k] = m.acted[k]
    /\ \A kind \in UploadKind, t \in MemTasks : n.input[kind][t].version >= m.input[kind][t].version

Advanced(m, n) ==
    n \in Maps /\ Len(n.events) <= Cardinality(MemEventId) /\ Remembers(m, n) /\ Effect(m, n)

(* What was told is remembered. *)
Honest(m, a) ==
    /\ a.op = "create" => a.key \in CreateKeys /\ a.outcome # Stranger /\ m.made[a.key] = a.outcome
    /\ a.op \in TaskActionType =>
          a.key \in ActionKeys /\ m.acted[a.key] = [op |-> <<a.op, a.subject>>, outcome |-> a.outcome]
    /\ a.op \in UploadKind =>
          /\ a.subject \in MemTasks /\ a.key[2] \in Nat /\ a.outcome = a.key[2] + 1
          /\ a.outcome <= m.input[a.op][a.subject].version

Newer(m, a) == a.op \in UploadKind => a.outcome > m.input[a.op][a.subject].version

MemStep ==
    /\ disk' = mem' /\ UNCHANGED seeding
    /\ mem' = mem \/ Advanced(mem, mem')
    /\ \/ told' = told
       \/ \E a : told' = told \cup {a} /\ Honest(mem', a) /\ Newer(mem, a)

LEMMA TransactionIs ==
    ASSUME disk = mem, NEW after, NEW answers, RunInTransaction(after, answers)
    PROVE  /\ disk' = mem' /\ UNCHANGED seeding
           /\ \/ mem' = mem /\ told' = told
              \/ /\ mem' = after /\ Len(after.events) <= Cardinality(MemEventId)
                 /\ told' = told \/ told' = told \cup answers
BY DEF RunInTransaction, Restored, Answered

LEMMA AnswerIs ==
    ASSUME disk = mem, NEW answers, JustAnswer(answers)
    PROVE  disk' = mem' /\ UNCHANGED <<seeding, mem>> /\ told' = told \cup answers
BY DEF JustAnswer, Answered

LEMMA OpsApart ==
    /\ "create" \notin TaskActionType /\ "create" \notin UploadKind /\ TaskActionType \cap UploadKind = {}
BY DEF TaskActionType, UploadKind, UploadProgress

LEMMA CreateStep ==
    ASSUME mem \in Maps, disk = mem, NEW k \in CreateKeys, CreateTaskInMemory(k)
    PROVE  MemStep
<1>1. CASE mem.made[k] # Stranger /\ JustAnswer(Replied("create", k, "task", mem.made[k]))
  <2> DEFINE a == [op |-> "create", key |-> k, subject |-> "task", outcome |-> mem.made[k]]
  <2>1. told' = told \cup {a} /\ disk' = mem' /\ UNCHANGED <<seeding, mem>>
    BY <1>1, AnswerIs DEF Replied
  <2>2. Honest(mem, a) /\ Newer(mem, a)
    BY <1>1, OpsApart DEF Honest, Newer
  <2> HIDE DEF a
  <2> QED
    BY <2>1, <2>2 DEF MemStep
<1>2. ASSUME mem.made[k] = Stranger, Cardinality(ChargedFor(mem)) < Quota,
             NEW t \in MemTasks, ~Exists(mem, t),
             RunInTransaction(
                      Announced(Booked([mem EXCEPT !.task[t] = [status |-> "QUEUED", version |-> 1, progress |-> 0],
                                                   !.made[k] = t], t, {Held}), t, "task.created"),
                      Replied("create", k, "task", t))
      PROVE  MemStep
  <2> DEFINE n == Announced(Booked([mem EXCEPT !.task[t] = [status |-> "QUEUED", version |-> 1, progress |-> 0],
                                                   !.made[k] = t], t, {Held}), t, "task.created")
             a == [op |-> "create", key |-> k, subject |-> "task", outcome |-> t]
  <2>1. /\ n \in Maps
        /\ n.task = [mem.task EXCEPT ![t] = [status |-> "QUEUED", version |-> 1, progress |-> 0]]
        /\ n.ledger = [mem.ledger EXCEPT ![t] = BookedRows(mem.ledger[t], {Held})]
        /\ n.events = Append(mem.events, [type |-> "task.created", task |-> t])
        /\ n.made = [mem.made EXCEPT ![k] = t] /\ n.acted = mem.acted /\ n.input = mem.input
    BY CreatedIs
  <2>2. RunInTransaction(n, {a})
    BY <1>2 DEF Replied
  <2> HIDE DEF n
  <2>3. Effect(mem, n)
    BY <1>2, <2>1 DEF Effect, Made, ChargedFor
  <2>4. Remembers(mem, n)
    <3>1. mem.made \in [CreateKeys -> MemTasks \cup {Stranger}] /\ mem.input \in [UploadKind -> [MemTasks -> InputRow]]
      BY MapsAre
    <3> QED
      BY <1>2, <2>1, <3>1 DEF Remembers, InputRow
  <2>5. Honest(n, a) /\ Newer(mem, a)
    <3>1. n.made[k] = t /\ t # Stranger
      BY <2>1, MapsAre, MemoryAssumption
    <3> QED
      BY <3>1, OpsApart DEF Honest, Newer
  <2> HIDE DEF a
  <2>6. \/ mem' = mem /\ told' = told
        \/ mem' = n /\ Len(n.events) <= Cardinality(MemEventId) /\ (told' = told \/ told' = told \cup {a})
    BY <2>2, TransactionIs
  <2> QED
    BY <2>1, <2>2, <2>3, <2>4, <2>5, <2>6, TransactionIs DEF MemStep, Advanced
<1> QED
  BY <1>1, <1>2 DEF CreateTaskInMemory

(* A transition, whoever asks for it. *)
LEMMA ShiftStep ==
    ASSUME mem \in Maps, disk = mem, NEW t \in MemTasks, NEW to \in TaskStatus, NEW progress \in Percent,
           mem.task[t].status \in TaskStatus, canTransit(mem.task[t].status, to), to = "FAILED" => seeding,
           RunInTransaction(Transited(mem, t, to, progress), {})
    PROVE  MemStep
<1> DEFINE n == Transited(mem, t, to, progress)
<1>1. /\ n \in Maps
      /\ n.task = [mem.task EXCEPT ![t] = MovedRow(mem.task[t], to, progress)]
      /\ n.ledger = [mem.ledger EXCEPT ![t] = BookedRows(mem.ledger[t], PostTransitionLedger(to))]
      /\ EventsAfter(mem, n, t, PostTransitionEvent(mem.task[t].status, to))
      /\ n.made = mem.made /\ n.acted = mem.acted /\ n.input = mem.input
  BY TransitedIs
<1> HIDE DEF n
<1>2. Effect(mem, n)
  BY <1>1 DEF Effect, Shifted
<1>3. Remembers(mem, n)
  <2>1. mem.input \in [UploadKind -> [MemTasks -> InputRow]]
    BY MapsAre
  <2> QED
    BY <1>1, <2>1 DEF Remembers, InputRow
<1>4. RunInTransaction(n, {})
  BY DEF n
<1>5. /\ disk' = mem' /\ UNCHANGED seeding /\ told' = told
      /\ mem' = mem \/ (mem' = n /\ Len(n.events) <= Cardinality(MemEventId))
  <2>1. told \cup {} = told
    OBVIOUS
  <2> QED
    BY <1>4, <2>1, TransactionIs
<1> QED
  BY <1>1, <1>2, <1>3, <1>5 DEF MemStep, Advanced

LEMMA AdvanceStep ==
    ASSUME mem \in Maps, disk = mem, NEW t \in MemTasks, Exists(mem, t), Advance(mem, t) # NoStatus,
           RunInTransaction(AdvancedBySimulation(t), {})
    PROVE  MemStep
<1> DEFINE st == mem.task[t].status
           to == Advance(mem, t)
           progress == SimulationProgress[st]
<1>a. st \in {"QUEUED", "PREPROCESSING", "DETECTING", "INPAINTING", "PACKAGING"} /\ to = StepTarget[st]
  BY DEF Advance, SimulationAdvance, SimulationProgress
<1>b. progress \in Percent
  BY <1>a DEF SimulationProgress, Percent
<1>c. st \in TaskStatus /\ to \in TaskStatus /\ to # "FAILED"
  BY <1>a DEF StepTarget, TaskStatus
<1>d. canTransit(st, to)
  BY <1>a DEF StepTarget, canTransit, STATUS_TRANSITION_MAP
<1>1. /\ st \in TaskStatus /\ to \in TaskStatus /\ progress \in Percent /\ canTransit(st, to) /\ to # "FAILED"
  BY <1>b, <1>c, <1>d
<1>2. RunInTransaction(Transited(mem, t, to, progress), {})
  BY DEF AdvancedBySimulation
<1> HIDE DEF to, progress
<1> QED
  BY <1>1, <1>2, ShiftStep

LEMMA SeedStep ==
    ASSUME mem \in Maps, disk = mem, NEW t \in MemTasks, SeedFailedTask(t)
    PROVE  MemStep
<1> DEFINE n == [mem EXCEPT !.task[t] = [status |-> "FAILED", version |-> 1, progress |-> 100]]
<1>1. /\ n \in Maps
      /\ n.task = [mem.task EXCEPT ![t] = [status |-> "FAILED", version |-> 1, progress |-> 100]]
      /\ n.made = mem.made /\ n.acted = mem.acted /\ n.input = mem.input /\ n.ledger = mem.ledger
      /\ n.events = mem.events
  BY SeededIs
<1>2. seeding /\ ~Exists(mem, t) /\ RunInTransaction(n, {})
  BY DEF SeedFailedTask
<1> HIDE DEF n
<1>3. Effect(mem, n)
  BY <1>1, <1>2 DEF Effect, Seeded
<1>4. Remembers(mem, n)
  <2>1. mem.input \in [UploadKind -> [MemTasks -> InputRow]]
    BY MapsAre
  <2> QED
    BY <1>1, <2>1 DEF Remembers, InputRow
<1>5. /\ disk' = mem' /\ UNCHANGED seeding /\ told' = told
      /\ mem' = mem \/ (mem' = n /\ Len(n.events) <= Cardinality(MemEventId))
  <2>1. told \cup {} = told
    OBVIOUS
  <2> QED
    BY <1>2, <2>1, TransactionIs
<1> QED
  BY <1>1, <1>3, <1>4, <1>5 DEF MemStep, Advanced

LEMMA ActionStep ==
    ASSUME mem \in Maps, disk = mem, NEW k \in ActionKeys, NEW action \in TaskActionType,
           NEW t \in MemTasks \cup {Stranger}, ApplyTaskAction(k, action, t)
    PROVE  MemStep
<1> DEFINE op  == <<action, t>>
           row == mem.acted[k]
           st  == IF t = Stranger THEN NoStatus ELSE mem.task[t].status
           say(outcome) == [op |-> action, key |-> k, subject |-> t, outcome |-> outcome]
           n(m, outcome) == Remembered(m, k, op, outcome)
<1>0. row \in ActedRow /\ mem.task \in [MemTasks -> StoreRow] /\ mem.acted \in [ActionKeys -> ActedRow]
      /\ mem.input \in [UploadKind -> [MemTasks -> InputRow]] /\ op \in ActedOp
  BY MapsAre DEF ActedOp
<1>a. ASSUME NEW m, NEW outcome, m.acted[k] = [op |-> op, outcome |-> outcome]
      PROVE  Honest(m, say(outcome)) /\ Newer(mem, say(outcome))
  BY <1>a, OpsApart DEF Honest, Newer
<1>1. CASE row # NoMemRow /\ row.op = op /\ JustAnswer(Replied(action, k, t, row.outcome))
  <2>1. told' = told \cup {say(row.outcome)} /\ disk' = mem' /\ UNCHANGED <<seeding, mem>>
    BY <1>1, AnswerIs DEF Replied
  <2>2. mem.acted[k] = [op |-> op, outcome |-> row.outcome]
    BY <1>0, <1>1 DEF ActedRow
  <2>3. Honest(mem, say(row.outcome)) /\ Newer(mem, say(row.outcome))
    BY <1>a, <2>2
  <2> HIDE DEF say
  <2> QED
    BY <2>1, <2>3 DEF MemStep
<1>2. CASE JustAnswer({})
  BY <1>2, AnswerIs DEF MemStep
<1>3. ASSUME row = NoMemRow, NEW outcome \in {"INVALID", "NOT_FOUND"},
             RunInTransaction(n(mem, outcome), {say(outcome)})
      PROVE  MemStep
  <2> DEFINE x == n(mem, outcome)
  <2>1. /\ x \in Maps
        /\ x.acted = [mem.acted EXCEPT ![k] = [op |-> op, outcome |-> outcome]]
        /\ x.made = mem.made /\ x.task = mem.task /\ x.input = mem.input /\ x.ledger = mem.ledger
        /\ x.events = mem.events
    <3> HIDE DEF op
    <3> QED
      BY <1>0, RememberedIs
  <2> HIDE DEF n
  <2>2. Honest(x, say(outcome)) /\ Newer(mem, say(outcome))
    BY <1>0, <1>a, <2>1
  <2>3. Remembers(mem, x)
    BY <1>0, <1>3, <2>1 DEF Remembers, InputRow
  <2>4. Effect(mem, x)
    BY <2>1 DEF Effect
  <2> HIDE DEF say
  <2>5. /\ disk' = mem' /\ UNCHANGED seeding
        /\ \/ mem' = mem /\ told' = told
           \/ mem' = x /\ Len(x.events) <= Cardinality(MemEventId) /\ (told' = told \/ told' = told \cup {say(outcome)})
    BY <1>3, TransactionIs
  <2> HIDE DEF x
  <2> QED
    BY <2>1, <2>2, <2>3, <2>4, <2>5 DEF MemStep, Advanced
<1>4. ASSUME row = NoMemRow, t # Stranger, ActionAllowed(action, st),
             RunInTransaction(n(Transited(mem, t, ActionTarget(action), 0), "SUCCESS"), {say("SUCCESS")})
      PROVE  MemStep
  <2> DEFINE to == ActionTarget(action)
             m  == Transited(mem, t, to, 0)
             x  == n(m, "SUCCESS")
  <2>1. /\ st \in TaskStatus /\ to \in TaskStatus /\ canTransit(st, to) /\ to # "FAILED"
        /\ t \in MemTasks /\ st = mem.task[t].status
    BY <1>4 DEF ActionAllowed, ActionTarget, CANCELABLE_STATUS, TaskStatus, canTransit, STATUS_TRANSITION_MAP
  <2>2. PICK progress \in Percent : progress = 0
    BY DEF Percent
  <2> HIDE DEF to
  <2>3. m = Transited(mem, t, to, progress)
    BY <2>2
  <2> HIDE DEF m
  <2>4. /\ m \in Maps
        /\ m.task = [mem.task EXCEPT ![t] = MovedRow(mem.task[t], to, progress)]
        /\ m.ledger = [mem.ledger EXCEPT ![t] = BookedRows(mem.ledger[t], PostTransitionLedger(to))]
        /\ EventsAfter(mem, m, t, PostTransitionEvent(mem.task[t].status, to))
        /\ m.made = mem.made /\ m.acted = mem.acted /\ m.input = mem.input
    BY <2>1, <2>3, TransitedIs
  <2>5. /\ x \in Maps
        /\ x.acted = [m.acted EXCEPT ![k] = [op |-> op, outcome |-> "SUCCESS"]]
        /\ x.made = m.made /\ x.task = m.task /\ x.input = m.input /\ x.ledger = m.ledger
        /\ x.events = m.events
    <3>1. PICK outcome : outcome = "SUCCESS"
      OBVIOUS
    <3> HIDE DEF op
    <3>2. x = Remembered(m, k, op, outcome)
      BY <3>1
    <3> HIDE DEF x
    <3> QED
      BY <1>0, <2>4, <3>1, <3>2, RememberedIs
  <2>6. RunInTransaction(x, {say("SUCCESS")})
    BY <1>4 DEF m, to
  <2> HIDE DEF n, x
  <2>7. Honest(x, say("SUCCESS")) /\ Newer(mem, say("SUCCESS"))
    <3>1. x.acted[k] = [op |-> op, outcome |-> "SUCCESS"]
      <4>1. m.acted = mem.acted /\ mem.acted \in [ActionKeys -> ActedRow]
        BY <1>0, <2>4
      <4> HIDE DEF op
      <4> QED
        BY <4>1, <2>5
    <3> HIDE DEF op, say
    <3> QED
      BY <3>1, <1>a
  <2>8. Remembers(mem, x)
    BY <1>0, <1>4, <2>4, <2>5 DEF Remembers, InputRow
  <2>9. Effect(mem, x)
    <3>1. EventsAfter(mem, x, t, PostTransitionEvent(mem.task[t].status, to))
      BY <2>4, <2>5 DEF EventsAfter
    <3>2. Shifted(mem, x, t, to)
      BY <2>1, <2>4, <2>5, <3>1 DEF Shifted
    <3> QED
      BY <2>1, <3>2 DEF Effect
  <2> HIDE DEF say
  <2>10. /\ disk' = mem' /\ UNCHANGED seeding
         /\ \/ mem' = mem /\ told' = told
            \/ mem' = x /\ Len(x.events) <= Cardinality(MemEventId) /\ (told' = told \/ told' = told \cup {say("SUCCESS")})
    BY <2>6, TransactionIs
  <2> QED
    BY <2>5, <2>7, <2>8, <2>9, <2>10 DEF MemStep, Advanced
<1>5. \/ row # NoMemRow /\ row.op = op /\ JustAnswer(Replied(action, k, t, row.outcome))
      \/ JustAnswer({})
      \/ row = NoMemRow /\ \E outcome \in {"INVALID", "NOT_FOUND"} : RunInTransaction(n(mem, outcome), {say(outcome)})
      \/ /\ row = NoMemRow /\ t # Stranger /\ ActionAllowed(action, st)
         /\ RunInTransaction(n(Transited(mem, t, ActionTarget(action), 0), "SUCCESS"), {say("SUCCESS")})
  BY DEF ApplyTaskAction, Replied
<1> HIDE DEF row, st, say, n
<1> QED
  BY <1>1, <1>2, <1>3, <1>4, <1>5

LEMMA UploadStepIs ==
    ASSUME mem \in Maps, disk = mem, NEW kind \in UploadKind, NEW t \in MemTasks, NEW p \in Payloads,
           NEW version \in Nat, NEW declared, UploadInMemory(kind, t, p, version, declared)
    PROVE  MemStep
<1> DEFINE n == Uploaded(kind, t, p, version)
           file == StoredInput(kind, t, p, version)
           a == [op |-> kind, key |-> <<p, version>>, subject |-> t, outcome |-> n.input[kind][t].version]
<1>0. mem.input \in [UploadKind -> [MemTasks -> InputRow]]
  BY MapsAre
<1>1. CASE JustAnswer({})
  BY <1>1, AnswerIs DEF MemStep
<1>2. CASE FromCurrentVersion(kind, t, version) /\ RunInTransaction(n, {a})
  <2>1. /\ n \in Maps
        /\ n.input = [mem.input EXCEPT ![kind] = [mem.input[kind] EXCEPT ![t] = file]]
        /\ n.made = mem.made /\ n.acted = mem.acted /\ n.ledger = mem.ledger
        /\ TouchedMaps(mem, n, t)
    BY UploadedIs
  <2> HIDE DEF n
  <2>2. n.input[kind][t] = file
    BY <1>0, <2>1
  <2>3. /\ file.version = version + 1 /\ file.version > mem.input[kind][t].version
        /\ mem.input[kind][t].version \in Nat
    <3>1. mem.input[kind][t].version \in Nat
      BY <1>0 DEF InputRow
    <3>2. CASE mem.input[kind][t] = NoInput
      BY <3>2 DEF NoInput, StoredInput
    <3>3. CASE mem.input[kind][t] # NoInput
      BY <1>2, <3>1, <3>3 DEF FromCurrentVersion, StoredInput
    <3> QED
      BY <3>1, <3>2, <3>3
  <2>4. Honest(n, a) /\ Newer(mem, a)
    <3>1. a.op = kind /\ a.subject = t /\ a.outcome = version + 1 /\ a.key[2] = version
      BY <2>2, <2>3
    <3> HIDE DEF a
    <3> QED
      BY <2>2, <2>3, <3>1, OpsApart DEF Honest, Newer
  <2>5. Remembers(mem, n)
    <3>1. ASSUME NEW kd \in UploadKind, NEW s \in MemTasks
          PROVE  n.input[kd][s].version >= mem.input[kd][s].version
      <4>1. n.input[kd][s] = (IF kd = kind /\ s = t THEN file ELSE mem.input[kd][s])
        BY <1>0, <2>1
      <4>2. mem.input[kd][s].version \in Nat
        BY <1>0 DEF InputRow
      <4> QED
        BY <2>3, <4>1, <4>2
    <3> QED
      BY <2>1, <3>1 DEF Remembers
  <2>6. Effect(mem, n)
    <3>1. Exists(mem, t)
      BY DEF UploadInMemory
    <3> QED
      BY <2>1, <3>1 DEF Effect, Touched
  <2> HIDE DEF a
  <2>7. /\ disk' = mem' /\ UNCHANGED seeding
        /\ \/ mem' = mem /\ told' = told
           \/ mem' = n /\ Len(n.events) <= Cardinality(MemEventId) /\ (told' = told \/ told' = told \cup {a})
    BY <1>2, TransactionIs
  <2> QED
    BY <2>1, <2>4, <2>5, <2>6, <2>7 DEF MemStep, Advanced
<1> QED
  BY <1>1, <1>2 DEF UploadInMemory, Replied

(* What a listing has still to advance can be advanced. *)
TodoAdvances == \A t \in todo : Advance(mem, t) # NoStatus

LEMMA MemNextIs ==
    ASSUME MemTypeOK, disk = mem, TodoAdvances, [MemNext]_memVars
    PROVE  MemStep
<1>0. mem \in Maps /\ mem.task \in [MemTasks -> StoreRow]
  BY MapsAre DEF MemTypeOK
<1>1. ASSUME NEW k \in CreateKeys, CreateTaskInMemory(k) \/ QuotaExceeded(k) PROVE MemStep
  BY <1>0, <1>1, CreateStep, AnswerIs DEF QuotaExceeded, MemStep
<1>2. ASSUME NEW k \in ActionKeys, NEW action \in TaskActionType, NEW t \in MemTasks \cup {Stranger},
             ApplyTaskAction(k, action, t)
      PROVE  MemStep
  BY <1>0, <1>2, ActionStep
<1>3. ASSUME NEW t \in MemTasks, GetInMemory(t) PROVE MemStep
  BY <1>0, <1>3, AdvanceStep DEF GetInMemory
<1>4. ASSUME NEW t \in MemTasks, ListNext(t) PROVE MemStep
  <2>1. Advance(mem, t) # NoStatus
    BY <1>4 DEF ListNext, TodoAdvances
  <2>2. Exists(mem, t)
    BY <2>1 DEF Exists, Advance, SimulationAdvance, SimulationProgress, NoStatus
  <2> QED
    BY <1>0, <1>4, <2>1, <2>2, AdvanceStep DEF ListNext
<1>5. ASSUME NEW t \in MemTasks, SeedFailedTask(t) PROVE MemStep
  BY <1>0, <1>5, SeedStep
<1>6. CASE ListByUserInMemory
  BY <1>6 DEF ListByUserInMemory, MemStep
<1>7. ASSUME NEW kind \in UploadKind, NEW t \in MemTasks, NEW p \in Payloads,
             NEW version \in 0..Cardinality(Payloads), NEW declared \in {"IMAGE", "VIDEO"},
             UploadInMemory(kind, t, p, version, declared)
      PROVE  MemStep
  <2>1. version \in Nat
    BY MemoryAssumption, FS_CardinalityType
  <2> QED
    BY <1>0, <1>7, <2>1, UploadStepIs
<1>8. ASSUME NEW t \in MemTasks, NEW to \in TaskStatus, AdvanceTaskStatus(t, to) PROVE MemStep
  <2>1. mem.task[t].status \in TaskStatus /\ mem.task[t].progress \in Percent
    BY <1>0, <1>8 DEF AdvanceTaskStatus, Exists, StoreRow
  <2> QED
    BY <1>0, <1>8, <2>1, ShiftStep DEF AdvanceTaskStatus
<1>9. CASE RestartInMemory
  BY <1>9 DEF RestartInMemory, Revived, MemStep
<1>10. CASE UNCHANGED memVars
  BY <1>10 DEF memVars, MemStep
<1> QED
  BY <1>1, <1>2, <1>3, <1>4, <1>5, <1>6, <1>7, <1>8, <1>9, <1>10 DEF MemNext

LEMMA FaultCounted ==
    ASSUME memFaults \in 0..MaxMemFaults, NEW happens, Fault(happens)
    PROVE  memFaults' \in 0..MaxMemFaults
BY MemoryAssumption DEF Fault

LEMMA RunCounted ==
    ASSUME memFaults \in 0..MaxMemFaults, NEW after, NEW answers,
           RunInTransaction(after, answers) \/ JustAnswer(answers)
    PROVE  memFaults' \in 0..MaxMemFaults
BY FaultCounted DEF RunInTransaction, JustAnswer, Answered

(* What is left of a listing, and the faults counted. *)
LEMMA RestTyped ==
    ASSUME MemTypeOK, [MemNext]_memVars
    PROVE  todo' \subseteq MemTasks /\ memFaults' \in 0..MaxMemFaults
<1>0. memFaults \in 0..MaxMemFaults /\ todo \subseteq MemTasks
  BY DEF MemTypeOK
<1>1. ASSUME NEW k \in CreateKeys, CreateTaskInMemory(k) \/ QuotaExceeded(k)
      PROVE  todo' = todo /\ memFaults' \in 0..MaxMemFaults
  <2>1. todo' = todo
    BY <1>1 DEF CreateTaskInMemory, QuotaExceeded, JustAnswer
  <2>2. \E after, answers : RunInTransaction(after, answers) \/ JustAnswer(answers)
    BY <1>1 DEF CreateTaskInMemory, QuotaExceeded
  <2> QED
    BY <1>0, <2>1, <2>2, RunCounted
<1>2. ASSUME NEW k \in ActionKeys, NEW action \in TaskActionType, NEW t \in MemTasks \cup {Stranger},
             ApplyTaskAction(k, action, t)
      PROVE  todo' = todo /\ memFaults' \in 0..MaxMemFaults
  <2>1. todo' = todo
    BY <1>2 DEF ApplyTaskAction, JustAnswer
  <2>2. \E after, answers : RunInTransaction(after, answers) \/ JustAnswer(answers)
    BY <1>2, Zenon DEF ApplyTaskAction
  <2> QED
    BY <1>0, <2>1, <2>2, RunCounted
<1>3. ASSUME NEW t \in MemTasks, GetInMemory(t) \/ SeedFailedTask(t)
      PROVE  todo' = todo /\ memFaults' \in 0..MaxMemFaults
  BY <1>0, <1>3, RunCounted DEF GetInMemory, SeedFailedTask
<1>4. ASSUME NEW t \in MemTasks, ListNext(t)
      PROVE  todo' \subseteq todo /\ memFaults' \in 0..MaxMemFaults
  BY <1>0, <1>4, RunCounted DEF ListNext
<1>5. CASE ListByUserInMemory
  BY <1>0, <1>5 DEF ListByUserInMemory
<1>6. ASSUME NEW kind \in UploadKind, NEW t \in MemTasks, NEW p \in Payloads,
             NEW version \in 0..Cardinality(Payloads), NEW declared \in {"IMAGE", "VIDEO"},
             UploadInMemory(kind, t, p, version, declared)
      PROVE  todo' = todo /\ memFaults' \in 0..MaxMemFaults
  <2>1. todo' = todo
    BY <1>6 DEF UploadInMemory, JustAnswer
  <2>2. \E after, answers : RunInTransaction(after, answers) \/ JustAnswer(answers)
    BY <1>6 DEF UploadInMemory
  <2> QED
    BY <1>0, <2>1, <2>2, RunCounted
<1>7. ASSUME NEW t \in MemTasks, NEW to \in TaskStatus, AdvanceTaskStatus(t, to)
      PROVE  todo' = todo /\ memFaults' \in 0..MaxMemFaults
  BY <1>0, <1>7, RunCounted DEF AdvanceTaskStatus
<1>8. CASE RestartInMemory
  BY <1>0, <1>8, FaultCounted DEF RestartInMemory
<1>9. CASE UNCHANGED memVars
  BY <1>0, <1>9 DEF memVars
<1> QED
  BY <1>0, <1>1, <1>2, <1>3, <1>4, <1>5, <1>6, <1>7, <1>8, <1>9 DEF MemNext

LEMMA TodoStep ==
    ASSUME MemTypeOK, disk = mem, TodoAdvances, [MemNext]_memVars
    PROVE  TodoAdvances'
<1>0. mem \in Maps /\ mem.task \in [MemTasks -> StoreRow] /\ todo \subseteq MemTasks
  BY MapsAre DEF MemTypeOK
<1>1. CASE todo' = {}
  BY <1>1 DEF TodoAdvances
<1>2. ASSUME NEW t \in MemTasks, ListNext(t) PROVE TodoAdvances'
  <2> DEFINE to == Advance(mem, t)
             progress == SimulationProgress[mem.task[t].status]
             n == AdvancedBySimulation(t)
  <2>1. CASE mem' = mem
    BY <1>2, <2>1 DEF ListNext, TodoAdvances, Advance, Given
  <2>2. CASE mem' # mem
    <3>1. to # NoStatus /\ todo' = todo \ {t}
      BY <1>2, <2>2 DEF ListNext, TodoAdvances
    <3>2. to \in TaskStatus /\ progress \in Percent
      BY <3>1 DEF Advance, SimulationAdvance, SimulationProgress, StepTarget, TaskStatus, Percent
    <3>3. n = Transited(mem, t, to, progress)
      BY DEF AdvancedBySimulation
    <3>4. RunInTransaction(n, {})
      BY <1>2 DEF ListNext
    <3> HIDE DEF n, to, progress
    <3>a. PICK to1 \in TaskStatus, progress1 \in Percent : n = Transited(mem, t, to1, progress1)
      BY <3>2, <3>3
    <3>5. n.task = [mem.task EXCEPT ![t] = MovedRow(mem.task[t], to1, progress1)] /\ n.input = mem.input
      <4>1. mem \in Maps
        BY <1>0
      <4>2. /\ n \in Maps
            /\ n.task = [mem.task EXCEPT ![t] = MovedRow(mem.task[t], to1, progress1)]
            /\ n.ledger = [mem.ledger EXCEPT ![t] = BookedRows(mem.ledger[t], PostTransitionLedger(to1))]
            /\ EventsAfter(mem, n, t, PostTransitionEvent(mem.task[t].status, to1))
            /\ n.made = mem.made /\ n.acted = mem.acted /\ n.input = mem.input
        BY <4>1, <3>a, TransitedIs
      <4> QED
        BY <4>2
    <3>6. mem' = n
      BY <2>2, <3>4 DEF RunInTransaction, Restored
    <3>7. ASSUME NEW s \in todo' PROVE Advance(mem, s)' # NoStatus
      <4>1. s \in MemTasks /\ s # t /\ mem'.task[s] = mem.task[s] /\ mem'.input = mem.input
        BY <1>0, <3>1, <3>5, <3>6
      <4>2. Advance(mem', s) = Advance(mem, s)
        BY <4>1 DEF Advance, Given
      <4>3. Advance(mem, s) # NoStatus
        BY <3>1 DEF TodoAdvances
      <4> QED
        BY <4>2, <4>3 DEF Advance, Given
    <3> QED
      BY <3>7 DEF TodoAdvances, Advance, Given
  <2> QED
    BY <2>1, <2>2
<1>3. CASE ListByUserInMemory
  BY <1>3 DEF ListByUserInMemory, TodoAdvances, Advance, Given
<1>4. CASE UNCHANGED memVars
  BY <1>4 DEF memVars, TodoAdvances, Advance, Given
<1>5. \/ todo' = {} \/ ListByUserInMemory \/ UNCHANGED memVars
      \/ \E t \in MemTasks : ListNext(t)
  <2>1. ASSUME NEW k \in CreateKeys, CreateTaskInMemory(k) \/ QuotaExceeded(k) PROVE todo' = {}
    BY <2>1 DEF CreateTaskInMemory, QuotaExceeded, JustAnswer, Between
  <2>2. ASSUME NEW k \in ActionKeys, NEW action \in TaskActionType, NEW t \in MemTasks \cup {Stranger},
               ApplyTaskAction(k, action, t)
        PROVE  todo' = {}
    BY <2>2 DEF ApplyTaskAction, JustAnswer, Between
  <2>3. ASSUME NEW t \in MemTasks, GetInMemory(t) \/ SeedFailedTask(t) PROVE todo' = {}
    BY <2>3 DEF GetInMemory, SeedFailedTask, Between
  <2>4. ASSUME NEW kind \in UploadKind, NEW t \in MemTasks, NEW p \in Payloads,
               NEW version \in 0..Cardinality(Payloads), NEW declared \in {"IMAGE", "VIDEO"},
               UploadInMemory(kind, t, p, version, declared)
        PROVE  todo' = {}
    BY <2>4 DEF UploadInMemory, JustAnswer, Between
  <2>5. ASSUME NEW t \in MemTasks, NEW to \in TaskStatus, AdvanceTaskStatus(t, to) PROVE todo' = {}
    BY <2>5 DEF AdvanceTaskStatus, Between
  <2>6. CASE RestartInMemory
    BY <2>6 DEF RestartInMemory
  <2> QED
    BY <2>1, <2>2, <2>3, <2>4, <2>5, <2>6 DEF MemNext
<1> QED
  BY <1>1, <1>2, <1>3, <1>4, <1>5

-----------------------------------------------------------------------------
(* The ledger is settled with the status.                                  *)

Settles(st, rows) ==
    /\ rows[Held] \in {0, 1} /\ (st = NoStatus => rows[Held] = 0)
    /\ rows[Committed] = (IF st = "SUCCEEDED" THEN 1 ELSE 0)
    /\ rows[ReleasedCancel] = (IF st = "CANCELED" THEN 1 ELSE 0)
    /\ rows[ReleasedFailure] = 0

MapsSettled == \A t \in MemTasks : Settles(mem.task[t].status, mem.ledger[t])

(* Without the entry points of tests, a task that is there was held. *)
AllHeld == ~seeding => \A t \in MemTasks : Exists(mem, t) => mem.ledger[t][Held] = 1

QuotaKept == ~seeding => IsFiniteSet(UsedBy(mem)) /\ Cardinality(UsedBy(mem)) <= Quota

LEMMA RowsApart ==
    /\ Held # Committed /\ Held # ReleasedCancel /\ Committed # ReleasedCancel
    /\ Held # ReleasedFailure /\ Committed # ReleasedFailure /\ ReleasedCancel # ReleasedFailure
    /\ LedgerRow = {Held, Committed, ReleasedCancel, ReleasedFailure}
BY DEF Held, Committed, ReleasedCancel, ReleasedFailure, LedgerRow

LEMMA UnitsSettled ==
    ASSUME NEW st, NEW rows, Settles(st, rows)
    PROVE  /\ rows[Held] = 1 => (Units(rows) > 0 <=> st # "CANCELED")
           /\ \A r \in LedgerRow : rows[r] <= 1
BY RowsApart DEF Settles, Units

(* What the transitions the code allows add. *)
LEMMA ShiftSettles ==
    ASSUME NEW from \in TaskStatus, NEW to \in TaskStatus, canTransit(from, to),
           NEW rows \in [LedgerRow -> Nat], Settles(from, rows)
    PROVE  /\ Settles(to, BookedRows(rows, PostTransitionLedger(to)))
           /\ BookedRows(rows, PostTransitionLedger(to))[Held] = rows[Held]
           /\ from \notin {"SUCCEEDED", "CANCELED"} /\ to # NoStatus
<1> DEFINE n == BookedRows(rows, PostTransitionLedger(to))
<1>1. from \notin {"SUCCEEDED", "CANCELED"} /\ to # NoStatus
  BY DEF canTransit, STATUS_TRANSITION_MAP, TaskStatus, NoStatus
<1>2. /\ Committed \in PostTransitionLedger(to) <=> to = "SUCCEEDED"
      /\ ReleasedCancel \in PostTransitionLedger(to) <=> to = "CANCELED"
      /\ Held \notin PostTransitionLedger(to) /\ ReleasedFailure \notin PostTransitionLedger(to)
  BY RowsApart DEF PostTransitionLedger
<1>3. \A r \in LedgerRow : n[r] = IF r \in PostTransitionLedger(to) THEN rows[r] + 1 ELSE rows[r]
  BY DEF BookedRows
<1>4. Held \in LedgerRow /\ Committed \in LedgerRow /\ ReleasedCancel \in LedgerRow /\ ReleasedFailure \in LedgerRow
  BY RowsApart
<1> HIDE DEF n
<1>5. Settles(to, n) /\ n[Held] = rows[Held]
  BY <1>1, <1>2, <1>3, <1>4 DEF Settles
<1> QED
  BY <1>1, <1>5 DEF n

(* A step settles the one task it changes. *)
TaskStep(m, n, t) ==
    /\ \A s \in MemTasks : s # t => n.task[s] = m.task[s] /\ n.ledger[s] = m.ledger[s]
    /\ Settles(n.task[t].status, n.ledger[t])
    /\ Exists(m, t) => Exists(n, t) /\ n.ledger[t][Held] = m.ledger[t][Held]
                       /\ (m.task[t].status = "CANCELED" => n.task[t].status = "CANCELED")
    /\ ~Exists(m, t) => seeding \/ (n.ledger[t][Held] = 1 /\ Cardinality(UsedBy(m)) < Quota)

LEMMA EffectIs ==
    ASSUME mem \in Maps, MapsSettled, NEW n \in Maps, Effect(mem, n)
    PROVE  (n.task = mem.task /\ n.ledger = mem.ledger) \/ \E t \in MemTasks : TaskStep(mem, n, t)
<1>0. /\ mem.task \in [MemTasks -> StoreRow] /\ mem.ledger \in [MemTasks -> [LedgerRow -> Nat]]
      /\ n.task \in [MemTasks -> StoreRow] /\ n.ledger \in [MemTasks -> [LedgerRow -> Nat]]
  BY MapsAre
<1>1. ASSUME NEW t \in MemTasks, Made(mem, n, t) PROVE TaskStep(mem, n, t)
  <2> DEFINE new == BookedRows(mem.ledger[t], {Held})
  <2>1. Settles(NoStatus, mem.ledger[t]) /\ mem.ledger[t] \in [LedgerRow -> Nat]
    BY <1>0, <1>1 DEF Made, Exists, MapsSettled
  <2>2. \A r \in LedgerRow : new[r] = IF r = Held THEN mem.ledger[t][r] + 1 ELSE mem.ledger[t][r]
    BY DEF BookedRows
  <2> HIDE DEF new
  <2>3. Settles("QUEUED", new) /\ new[Held] = 1
    BY <2>1, <2>2, RowsApart DEF Settles, NoStatus
  <2>4. /\ n.task[t].status = "QUEUED" /\ n.ledger[t] = new
        /\ \A s \in MemTasks : s # t => n.task[s] = mem.task[s] /\ n.ledger[s] = mem.ledger[s]
    BY <1>0, <1>1 DEF Made, new
  <2> QED
    BY <1>1, <2>3, <2>4 DEF TaskStep, Made, Exists
<1>2. ASSUME NEW t \in MemTasks, Seeded(mem, n, t) PROVE TaskStep(mem, n, t)
  <2>1. Settles(NoStatus, mem.ledger[t])
    BY <1>0, <1>2 DEF Seeded, Exists, MapsSettled
  <2>2. Settles("FAILED", mem.ledger[t])
    BY <2>1 DEF Settles, NoStatus
  <2>3. /\ n.task[t].status = "FAILED" /\ n.ledger[t] = mem.ledger[t]
        /\ \A s \in MemTasks : s # t => n.task[s] = mem.task[s] /\ n.ledger[s] = mem.ledger[s]
    BY <1>0, <1>2 DEF Seeded
  <2> QED
    BY <1>2, <2>2, <2>3 DEF TaskStep, Seeded
<1>3. ASSUME NEW t \in MemTasks, Touched(mem, n, t) PROVE TaskStep(mem, n, t)
  <2>1. /\ n.task[t].status = mem.task[t].status
           \/ (mem.task[t].status = "QUEUED" /\ n.task[t].status = "PREPROCESSING")
        /\ \A s \in MemTasks : s # t => n.task[s] = mem.task[s]
        /\ n.ledger = mem.ledger /\ Exists(mem, t)
    BY <1>0, <1>3 DEF Touched, TouchedMaps
  <2>2. Settles(mem.task[t].status, mem.ledger[t])
    BY DEF MapsSettled
  <2> QED
    BY <2>1, <2>2 DEF TaskStep, Settles, Exists, NoStatus
<1>4. ASSUME NEW t \in MemTasks, NEW to \in TaskStatus, Shifted(mem, n, t, to) PROVE TaskStep(mem, n, t)
  <2>1. PICK progress \in Percent : n.task = [mem.task EXCEPT ![t] = MovedRow(mem.task[t], to, progress)]
    BY <1>4 DEF Shifted
  <2>2. /\ n.task[t].status = to /\ n.ledger[t] = BookedRows(mem.ledger[t], PostTransitionLedger(to))
        /\ \A s \in MemTasks : s # t => n.task[s] = mem.task[s] /\ n.ledger[s] = mem.ledger[s]
    BY <1>0, <1>4, <2>1 DEF Shifted, MovedRow
  <2>3. /\ Settles(to, n.ledger[t]) /\ n.ledger[t][Held] = mem.ledger[t][Held]
        /\ mem.task[t].status \notin {"SUCCEEDED", "CANCELED"} /\ to # NoStatus
        /\ mem.task[t].status # NoStatus
    <3>1. /\ mem.task[t].status \in TaskStatus /\ canTransit(mem.task[t].status, to)
          /\ Settles(mem.task[t].status, mem.ledger[t]) /\ mem.ledger[t] \in [LedgerRow -> Nat]
      BY <1>0, <1>4 DEF Shifted, MapsSettled
    <3>2. mem.task[t].status # NoStatus
      BY <3>1 DEF TaskStatus, NoStatus
    <3> QED
      BY <2>2, <3>1, <3>2, ShiftSettles
  <2> QED
    BY <2>2, <2>3 DEF TaskStep, Exists
<1> QED
  BY <1>1, <1>2, <1>3, <1>4 DEF Effect

LEMMA SettledStep ==
    ASSUME MemTypeOK, mem' \in Maps, MapsSettled, AllHeld, QuotaKept, MemStep
    PROVE  MapsSettled' /\ AllHeld' /\ QuotaKept'
<1>1. CASE mem'.task = mem.task /\ mem'.ledger = mem.ledger
  <2>1. UsedBy(mem') = UsedBy(mem) /\ seeding' = seeding
    BY <1>1 DEF UsedBy, MemStep
  <2> QED
    BY <1>1, <2>1 DEF MapsSettled, AllHeld, QuotaKept, Exists, UsedBy
<1>2. ASSUME NEW t \in MemTasks, TaskStep(mem, mem', t) PROVE MapsSettled' /\ AllHeld' /\ QuotaKept'
  <2>0. UNCHANGED seeding
    BY DEF MemStep
  <2>1. MapsSettled'
    BY <1>2 DEF TaskStep, MapsSettled
  <2>2. AllHeld'
    BY <1>2, <2>0 DEF TaskStep, AllHeld, Exists
  <2>3. ASSUME ~seeding PROVE IsFiniteSet(UsedBy(mem')) /\ Cardinality(UsedBy(mem')) <= Quota
    <3>0. IsFiniteSet(UsedBy(mem)) /\ Cardinality(UsedBy(mem)) <= Quota /\ Cardinality(UsedBy(mem)) \in Nat
          /\ Quota \in Nat
      BY <2>3, FS_CardinalityType, MemoryAssumption DEF QuotaKept
    <3>1. \A s \in MemTasks : s # t => (s \in UsedBy(mem') <=> s \in UsedBy(mem))
      BY <1>2 DEF TaskStep, UsedBy
    <3>2. CASE Exists(mem, t)
      <4>1. t \in UsedBy(mem') => t \in UsedBy(mem)
        <5>1. mem.ledger[t][Held] = 1 /\ mem'.ledger[t][Held] = 1
          BY <1>2, <2>3, <3>2 DEF TaskStep, AllHeld
        <5>2. /\ Units(mem.ledger[t]) > 0 <=> mem.task[t].status # "CANCELED"
              /\ Units(mem'.ledger[t]) > 0 <=> mem'.task[t].status # "CANCELED"
          BY <1>2, <5>1, UnitsSettled DEF TaskStep, MapsSettled
        <5> QED
          BY <1>2, <3>2, <5>2 DEF TaskStep, UsedBy
      <4>2. UsedBy(mem') \subseteq UsedBy(mem)
        BY <3>1, <4>1 DEF UsedBy
      <4>3. IsFiniteSet(UsedBy(mem')) /\ Cardinality(UsedBy(mem')) <= Cardinality(UsedBy(mem))
        BY <3>0, <4>2, FS_Subset
      <4>4. Cardinality(UsedBy(mem')) \in Nat
        BY <4>3, FS_CardinalityType
      <4> QED
        BY <3>0, <4>3, <4>4
    <3>3. CASE ~Exists(mem, t)
      <4>1. UsedBy(mem') \subseteq UsedBy(mem) \cup {t}
        BY <3>1 DEF UsedBy
      <4>2. /\ IsFiniteSet(UsedBy(mem) \cup {t})
            /\ Cardinality(UsedBy(mem) \cup {t}) \in {Cardinality(UsedBy(mem)), Cardinality(UsedBy(mem)) + 1}
        BY <3>0, FS_AddElement
      <4>3. IsFiniteSet(UsedBy(mem')) /\ Cardinality(UsedBy(mem')) <= Cardinality(UsedBy(mem) \cup {t})
        BY <4>1, <4>2, FS_Subset
      <4>4. Cardinality(UsedBy(mem')) \in Nat
        BY <4>3, FS_CardinalityType
      <4>5. Cardinality(UsedBy(mem)) < Quota
        BY <1>2, <2>3, <3>3 DEF TaskStep
      <4> QED
        BY <3>0, <4>2, <4>3, <4>4, <4>5
    <3> QED
      BY <3>2, <3>3
  <2>4. QuotaKept'
    BY <2>0, <2>3 DEF QuotaKept, UsedBy
  <2> QED
    BY <2>1, <2>2, <2>4
<1>3. mem' = mem \/ Effect(mem, mem')
  BY DEF MemStep, Advanced
<1> QED
  BY <1>1, <1>2, <1>3, EffectIs DEF MemTypeOK

-----------------------------------------------------------------------------
(* What was told stays true.                                               *)

ToldHonest == \A a \in told : Honest(mem, a)

(* No two uploads of one file were given one version. *)
UploadsApart ==
    \A a, b \in told :
        a.op \in UploadKind /\ a.op = b.op /\ a.subject = b.subject /\ a.outcome = b.outcome => a = b

LEMMA HonestStays ==
    ASSUME mem \in Maps, mem' \in Maps, Remembers(mem, mem'), NEW a, Honest(mem, a)
    PROVE  Honest(mem', a)
<1>1. ASSUME a.op = "create"
      PROVE  a.key \in CreateKeys /\ a.outcome # Stranger /\ mem'.made[a.key] = a.outcome
  BY <1>1 DEF Honest, Remembers
<1>2. ASSUME a.op \in TaskActionType
      PROVE  a.key \in ActionKeys /\ mem'.acted[a.key] = [op |-> <<a.op, a.subject>>, outcome |-> a.outcome]
  <2>1. a.key \in ActionKeys /\ mem.acted[a.key] = [op |-> <<a.op, a.subject>>, outcome |-> a.outcome]
    BY <1>2 DEF Honest
  <2>2. mem.acted[a.key].op[1] # "none"
    BY <1>2, <2>1 DEF TaskActionType
  <2>3. mem.acted[a.key] # NoMemRow
    BY <2>2 DEF NoMemRow
  <2> QED
    BY <2>1, <2>3 DEF Remembers
<1>3. ASSUME a.op \in UploadKind
      PROVE  /\ a.subject \in MemTasks /\ a.key[2] \in Nat /\ a.outcome = a.key[2] + 1
             /\ a.outcome <= mem'.input[a.op][a.subject].version
  <2>1. /\ a.subject \in MemTasks /\ a.key[2] \in Nat /\ a.outcome = a.key[2] + 1
        /\ a.outcome <= mem.input[a.op][a.subject].version
    BY <1>3 DEF Honest
  <2>2. mem.input[a.op][a.subject].version \in Nat /\ mem'.input[a.op][a.subject].version \in Nat
    BY <1>3, <2>1, MapsAre DEF InputRow
  <2>3. mem'.input[a.op][a.subject].version >= mem.input[a.op][a.subject].version
    BY <1>3, <2>1 DEF Remembers
  <2> QED
    BY <2>1, <2>2, <2>3
<1> QED
  BY <1>1, <1>2, <1>3 DEF Honest

LEMMA ToldStep ==
    ASSUME mem \in Maps, mem' \in Maps, ToldHonest, UploadsApart, MemStep
    PROVE  ToldHonest' /\ UploadsApart'
<1>1. \A a \in told : Honest(mem', a)
  BY HonestStays DEF MemStep, Advanced, ToldHonest
<1>2. CASE told' = told
  BY <1>1, <1>2 DEF ToldHonest, UploadsApart
<1>3. ASSUME NEW new, told' = told \cup {new}, Honest(mem', new), Newer(mem, new)
      PROVE  ToldHonest' /\ UploadsApart'
  <2>1. \A a \in told' : Honest(mem', a)
    BY <1>1, <1>3
  <2>2. ASSUME NEW a \in told, a.op \in UploadKind, a.op = new.op, a.subject = new.subject
        PROVE  a.outcome # new.outcome
    <3>1. /\ a.subject \in MemTasks /\ a.outcome <= mem.input[a.op][a.subject].version /\ a.outcome \in Nat
      <4>1. Honest(mem, a)
        BY DEF ToldHonest
      <4>2. a.key[2] \in Nat /\ a.outcome = a.key[2] + 1 /\ a.subject \in MemTasks
            /\ a.outcome <= mem.input[a.op][a.subject].version
        BY <2>2, <4>1, Zenon DEF Honest
      <4> QED
        BY <4>2
    <3>2. new.outcome > mem.input[a.op][a.subject].version /\ new.outcome \in Nat
      BY <1>3, <2>2 DEF Newer, Honest
    <3>3. mem.input[a.op][a.subject].version \in Nat
      BY <2>2, <3>1, MapsAre DEF InputRow
    <3> QED
      BY <3>1, <3>2, <3>3
  <2>3. UploadsApart'
    BY <1>3, <2>2 DEF UploadsApart
  <2> QED
    BY <2>1, <2>3 DEF ToldHonest
<1> QED
  BY <1>2, <1>3 DEF MemStep

-----------------------------------------------------------------------------
MemInv ==
    /\ MemTypeOK /\ disk = mem /\ TodoAdvances
    /\ MapsSettled /\ AllHeld /\ QuotaKept
    /\ ToldHonest /\ UploadsApart

LEMMA EmptyIs ==
    /\ EmptyMaps \in Maps
    /\ \A t \in MemTasks : EmptyMaps.task[t].status = NoStatus /\ EmptyMaps.ledger[t] = [r \in LedgerRow |-> 0]
    /\ EmptyMaps.events = <<>>
<1> DEFINE task   == [t \in MemTasks |-> NoTask]
           made   == [k \in CreateKeys |-> Stranger]
           acted  == [k \in ActionKeys |-> NoMemRow]
           input  == [kind \in UploadKind |-> [t \in MemTasks |-> NoInput]]
           ledger == [t \in MemTasks |-> [r \in LedgerRow |-> 0]]
           ev     == <<>>
<1>1. NoTask \in StoreRow /\ NoMemRow \in ActedRow /\ NoInput \in InputRow /\ NoTask.status = NoStatus
  BY DEF NoTask, StoreRow, Percent, NoMemRow, ActedRow, ActedOp, NoInput, InputRow
<1>2. /\ task \in [MemTasks -> StoreRow] /\ made \in [CreateKeys -> MemTasks \cup {Stranger}]
      /\ acted \in [ActionKeys -> ActedRow] /\ input \in [UploadKind -> [MemTasks -> InputRow]]
      /\ ledger \in [MemTasks -> [LedgerRow -> Nat]] /\ ev \in Seq(EventRow)
  BY <1>1
<1>3. \A t \in MemTasks : task[t].status = NoStatus /\ ledger[t] = [r \in LedgerRow |-> 0]
  BY <1>1
<1>4. EmptyMaps = [task |-> task, made |-> made, acted |-> acted, input |-> input, ledger |-> ledger, events |-> ev]
  BY Zenon DEF EmptyMaps
<1> HIDE DEF task, made, acted, input, ledger, ev
<1>5. EmptyMaps \in Maps /\ EmptyMaps.task = task /\ EmptyMaps.ledger = ledger /\ EmptyMaps.events = ev
  BY <1>2, <1>4, MapsAre
<1> QED
  BY <1>3, <1>5 DEF ev

LEMMA MemInit_MemInv == MemInit => MemInv
<1> SUFFICES ASSUME MemInit PROVE MemInv
  OBVIOUS
<1>1. MemTypeOK /\ disk = mem /\ TodoAdvances
  BY EmptyIs, MemoryAssumption DEF MemInit, MemTypeOK, TodoAdvances
<1>2. MapsSettled
  BY EmptyIs, RowsApart DEF MemInit, MapsSettled, Settles, NoStatus
<1>3. AllHeld
  BY EmptyIs DEF MemInit, AllHeld, Exists
<1>4. QuotaKept
  <2>1. \A t \in MemTasks : ~(Units(mem.ledger[t]) > 0)
    BY EmptyIs, RowsApart DEF MemInit, Units
  <2>2. UsedBy(mem) = {}
    BY <2>1 DEF UsedBy
  <2> QED
    BY <2>2, FS_EmptySet, MemoryAssumption DEF QuotaKept
<1>5. ToldHonest /\ UploadsApart
  BY DEF MemInit, ToldHonest, UploadsApart
<1> QED
  BY <1>1, <1>2, <1>3, <1>4, <1>5 DEF MemInv

LEMMA MemInvNext == MemInv /\ [MemNext]_memVars => MemInv' /\ MemStep
<1> SUFFICES ASSUME MemInv, [MemNext]_memVars PROVE MemInv' /\ MemStep
  OBVIOUS
<1>1. MemStep
  BY MemNextIs DEF MemInv
<1>2. mem \in Maps /\ mem' \in Maps /\ disk' = mem' /\ UNCHANGED seeding
  BY <1>1 DEF MemStep, Advanced, MemInv, MemTypeOK
<1>3. MemTypeOK'
  BY <1>2, RestTyped DEF MemInv, MemTypeOK
<1>4. TodoAdvances'
  BY TodoStep DEF MemInv
<1>5. MapsSettled' /\ AllHeld' /\ QuotaKept'
  BY <1>1, <1>2, SettledStep DEF MemInv
<1>6. ToldHonest' /\ UploadsApart'
  BY <1>1, <1>2, ToldStep DEF MemInv
<1> QED
  BY <1>1, <1>2, <1>3, <1>4, <1>5, <1>6 DEF MemInv

(* The maps in memory, and what the file holds of them, keep their types. *)
THEOREM MemoryTypeCorrect == MemSpec => []MemTypeOK
<1>1. MemInv => MemTypeOK
  BY DEF MemInv
<1> QED
  BY <1>1, MemInit_MemInv, MemInvNext, PTL DEF MemSpec

(* A key that is repeated, after errors of the disk and restarts too, is   *)
(* answered as the first time.                                             *)
THEOREM MemoryKeysHonest == MemSpec => []KeysTellTheSame
<1>1. MemInv => KeysTellTheSame
  <2> SUFFICES ASSUME MemInv, NEW a \in told, NEW b \in told,
                      a.op = b.op, a.key = b.key, a.subject = b.subject,
                      a.op \in {"create"} \cup TaskActionType
               PROVE  a.outcome = b.outcome
    BY DEF KeysTellTheSame
  <2>1. Honest(mem, a) /\ Honest(mem, b)
    BY DEF MemInv, ToldHonest
  <2> QED
    BY <2>1 DEF Honest
<1> QED
  BY <1>1, MemInit_MemInv, MemInvNext, PTL DEF MemSpec

(* A task that was held for is paid for unless it was canceled, each row   *)
(* is booked once, and the user never pays for more than the quota.        *)
THEOREM MemoryChargesRight == MemSpec => []ChargedUnlessCanceled
<1>1. MemInv => ChargedUnlessCanceled
  <2> SUFFICES ASSUME MemInv PROVE ChargedUnlessCanceled
    OBVIOUS
  <2>1. ASSUME NEW t \in MemTasks, mem.ledger[t][Held] > 0
        PROVE  /\ t \in UsedBy(mem) <=> mem.task[t].status # "CANCELED"
               /\ \A row \in LedgerRow : mem.ledger[t][row] <= 1
    <3>1. Settles(mem.task[t].status, mem.ledger[t])
      BY DEF MemInv, MapsSettled
    <3>2. mem.ledger[t][Held] = 1
      BY <2>1, <3>1 DEF Settles
    <3> QED
      BY <3>1, <3>2, UnitsSettled DEF UsedBy
  <2> QED
    BY <2>1 DEF ChargedUnlessCanceled, MemInv, QuotaKept
<1> QED
  BY <1>1, MemInit_MemInv, MemInvNext, PTL DEF MemSpec

(* No accepted upload takes the place of one its author had not seen. *)
THEOREM MemoryKeepsUploads == MemSpec => []NoUploadLost
<1>1. MemInv => NoUploadLost
  <2> SUFFICES ASSUME MemInv, NEW kind \in UploadKind,
                      NEW a \in told, NEW b \in told, a.op = kind, b.op = kind
               PROVE  /\ a.subject = b.subject /\ (a.outcome = b.outcome \/ a.key[2] = b.key[2]) => a.key = b.key
                      /\ a.outcome <= mem.input[kind][a.subject].version
    BY DEF NoUploadLost
  <2>1. Honest(mem, a) /\ Honest(mem, b)
    BY DEF MemInv, ToldHonest
  <2>2. a.subject = b.subject /\ a.outcome = b.outcome => a = b
    BY DEF MemInv, UploadsApart
  <2> QED
    BY <2>1, <2>2 DEF Honest
<1> QED
  BY <1>1, MemInit_MemInv, MemInvNext, PTL DEF MemSpec

-----------------------------------------------------------------------------
(* The contract.                                                           *)

MemPhases  == [t \in MemTasks |-> MemPhase(mem.task[t].status)]
MemCharges == [t \in MemTasks |-> MemCharge(mem.ledger[t])]
MemNotices == [e \in MemEventId |-> MemNotice(e)]

LEMMA SettledCharge ==
    ASSUME NEW st, NEW rows, Settles(st, rows)
    PROVE  MemCharge(rows) = IF st = "SUCCEEDED" THEN "charged" ELSE IF st = "CANCELED" THEN "released"
                             ELSE IF rows[Held] = 1 THEN "reserved" ELSE "none"
BY DEF MemCharge, Settles

LEMMA PhaseIs ==
    /\ MemPhase(NoStatus) = "none" /\ MemPhase("SUCCEEDED") = "succeeded"
    /\ MemPhase("FAILED") = "failed" /\ MemPhase("CANCELED") = "canceled"
    /\ \A st : st \notin {NoStatus, "SUCCEEDED", "FAILED", "CANCELED"} => MemPhase(st) = "running"
<1>1. MemPhase(NoStatus) = "none"
  BY Zenon DEF MemPhase, NoStatus
<1>2. MemPhase("SUCCEEDED") = "succeeded"
  BY Zenon DEF MemPhase, NoStatus
<1>3. MemPhase("FAILED") = "failed"
  BY Zenon DEF MemPhase, NoStatus
<1>4. MemPhase("CANCELED") = "canceled"
  BY Zenon DEF MemPhase, NoStatus
<1>5. ASSUME NEW st, st \notin {NoStatus, "SUCCEEDED", "FAILED", "CANCELED"} PROVE MemPhase(st) = "running"
  BY <1>5, Zenon DEF MemPhase
<1> QED
  BY <1>1, <1>2, <1>3, <1>4, <1>5

LEMMA MemNoticeUnseen ==
    ASSUME MemTypeOK, NEW t \in MemTasks, NEW type \in EventType, type \notin NoticeEvent,
           mem'.events = Append(mem.events, [type |-> type, task |-> t])
    PROVE  MemNotices' = MemNotices
<1>0. Len(mem.events) \in Nat /\ Len(mem'.events) = Len(mem.events) + 1
      /\ mem'.events[Len(mem.events) + 1].type = type
      /\ \A e \in 1..Len(mem.events) : mem'.events[e] = mem.events[e]
  BY MapsAre DEF MemTypeOK
<1>1. MemEventId \subseteq Nat \ {0}
  BY MemoryAssumption, FS_CardinalityType
<1>2. ASSUME NEW e \in MemEventId PROVE MemNotice(e)' = MemNotice(e)
  <2>1. CASE e \in 1..Len(mem.events)
    BY <1>0, <1>1, <2>1 DEF MemNotice
  <2>2. CASE e = Len(mem.events) + 1
    BY <1>0, <1>1, <2>2 DEF MemNotice
  <2>3. CASE e > Len(mem.events) + 1
    BY <1>0, <1>1, <2>3 DEF MemNotice
  <2> QED
    BY <1>0, <1>1, <2>1, <2>2, <2>3
<1> QED
  BY <1>2 DEF MemNotices

LEMMA MemNoticePosted ==
    ASSUME MemTypeOK, NEW t \in MemTasks, NEW type \in {"task.succeeded", "task.canceled"},
           Len(mem'.events) <= Cardinality(MemEventId),
           mem'.events = Append(mem.events, [type |-> type, task |-> t])
    PROVE  \E e \in MemEventId :
              /\ MemNotices[e] = MemContract!Blank
              /\ MemNotices' = [MemNotices EXCEPT ![e] =
                    [outcome |-> IF type = "task.succeeded" THEN "succeeded" ELSE "canceled", task |-> t]]
<1> DEFINE new == [outcome |-> IF type = "task.succeeded" THEN "succeeded" ELSE "canceled", task |-> t]
<1>1. MemEventId = 1..Cardinality(MemEventId) /\ Cardinality(MemEventId) \in Nat
  BY MemoryAssumption, FS_CardinalityType
<1>2. Len(mem.events) \in Nat /\ Len(mem'.events) = Len(mem.events) + 1
  BY MapsAre DEF MemTypeOK
<1>3. PICK n \in MemEventId : n = Len(mem.events) + 1
  BY <1>1, <1>2
<1>4. /\ Len(mem'.events) = n /\ mem'.events[n].type = type /\ mem'.events[n].task = t
      /\ \A e \in 1..Len(mem.events) : mem'.events[e] = mem.events[e]
  BY <1>3, MapsAre DEF MemTypeOK
<1>5. MemNotices[n] = MemContract!Blank
  BY <1>2, <1>3 DEF MemNotices, MemNotice, MemContract!Blank
<1>6. MemNotice(n)' = new
  <2>1. ~(n > Len(mem'.events)) /\ mem'.events[n].type \in NoticeEvent
    BY <1>2, <1>3, <1>4 DEF NoticeEvent
  <2> QED
    BY <1>4, <2>1 DEF MemNotice
<1>7. ASSUME NEW e \in MemEventId, e # n PROVE MemNotice(e)' = MemNotice(e)
  <2>1. CASE e \in 1..Len(mem.events)
    BY <1>1, <1>2, <1>3, <1>4, <2>1 DEF MemNotice
  <2>2. CASE e > n
    BY <1>1, <1>2, <1>3, <1>4, <2>2 DEF MemNotice
  <2> QED
    BY <1>1, <1>2, <1>3, <1>7, <2>1, <2>2
<1> HIDE DEF new
<1>8. MemNotices' = [MemNotices EXCEPT ![n] = new]
  BY <1>6, <1>7 DEF MemNotices
<1> QED
  BY <1>5, <1>8 DEF new

LEMMA MemContractNext ==
    ASSUME MemInv, MemInv', MemStep
    PROVE  [seeding \/ MemContract!Next]_(MemContract!vars)
<1> SUFFICES ASSUME ~seeding PROVE [MemContract!Next]_(MemContract!vars)
  OBVIOUS
<1>0. /\ mem.task \in [MemTasks -> StoreRow] /\ mem.ledger \in [MemTasks -> [LedgerRow -> Nat]]
      /\ mem'.task \in [MemTasks -> StoreRow] /\ mem'.ledger \in [MemTasks -> [LedgerRow -> Nat]]
      /\ mem \in Maps /\ mem' \in Maps /\ MemTypeOK
  BY MapsAre DEF MemInv, MemTypeOK
<1>a. MemPhases' = MemPhases /\ MemCharges' = MemCharges /\ MemNotices' = MemNotices => UNCHANGED MemContract!vars
  BY DEF MemPhases, MemCharges, MemNotices, MemContract!vars
<1>b. ASSUME mem'.events = mem.events PROVE MemNotices' = MemNotices
  BY <1>b DEF MemNotices, MemNotice
<1>1. CASE mem'.task = mem.task /\ mem'.ledger = mem.ledger /\ mem'.events = mem.events
  BY <1>1, <1>a, <1>b DEF MemPhases, MemCharges
<1>2. ASSUME NEW t \in MemTasks, Made(mem, mem', t) PROVE MemContract!Start(t)
  <2>1. MemPhases[t] = "none" /\ MemPhases' = [MemPhases EXCEPT ![t] = "running"]
    <3>1. mem'.task[t].status = "QUEUED" /\ \A s \in MemTasks : s # t => mem'.task[s] = mem.task[s]
      BY <1>0, <1>2 DEF Made
    <3>2. MemPhase(mem.task[t].status) = "none" /\ MemPhase("QUEUED") = "running"
      BY <1>2, PhaseIs DEF Made, Exists, NoStatus
    <3> QED
      BY <3>1, <3>2 DEF MemPhases
  <2>2. MemCharges' = [MemCharges EXCEPT ![t] = "reserved"]
    <3>2. mem'.task[t].status = "QUEUED" /\ \A s \in MemTasks : s # t => mem'.ledger[s] = mem.ledger[s]
      BY <1>0, <1>2 DEF Made
    <3>3. Settles("QUEUED", mem'.ledger[t]) /\ mem'.ledger[t][Held] = 1
      BY <3>2 DEF MemInv, MapsSettled, AllHeld, Exists, MemStep, NoStatus
    <3>4. MemCharge(mem'.ledger[t]) = "reserved"
      BY <3>3, SettledCharge
    <3> QED
      BY <3>2, <3>4 DEF MemCharges
  <2>3. MemNotices' = MemNotices
    <3>1. "task.created" \in EventType /\ "task.created" \notin NoticeEvent
      BY DEF EventType, TriggerEvent, NoticeEvent
    <3> QED
      BY <1>0, <1>2, <3>1, MemNoticeUnseen DEF Made
  <2> QED
    BY <2>1, <2>2, <2>3 DEF MemContract!Start, MemPhases, MemCharges, MemNotices
<1>3. ASSUME NEW t \in MemTasks, Touched(mem, mem', t) PROVE UNCHANGED MemContract!vars
  <2>1. MemPhase("QUEUED") = "running" /\ MemPhase("PREPROCESSING") = "running"
    BY PhaseIs DEF NoStatus
  <2>2. \A s \in MemTasks : \/ mem'.task[s].status = mem.task[s].status
                            \/ mem.task[s].status = "QUEUED" /\ mem'.task[s].status = "PREPROCESSING"
    BY <1>0, <1>3 DEF Touched, TouchedMaps
  <2>3. MemPhases' = MemPhases
    BY <2>1, <2>2 DEF MemPhases
  <2>4. MemCharges' = MemCharges
    BY <1>3 DEF Touched, MemCharges
  <2>5. MemNotices' = MemNotices
    <3>1. "task.masked" \in EventType /\ "task.masked" \notin NoticeEvent
      BY DEF EventType, TriggerEvent, NoticeEvent
    <3>2. mem'.events = mem.events \/ mem'.events = Append(mem.events, [type |-> "task.masked", task |-> t])
      BY <1>3 DEF Touched, TouchedMaps
    <3> QED
      BY <1>0, <1>b, <3>1, <3>2, MemNoticeUnseen
  <2> QED
    BY <1>a, <2>3, <2>4, <2>5
<1>4. ASSUME NEW t \in MemTasks, NEW to \in TaskStatus, Shifted(mem, mem', t, to),
             Len(mem'.events) <= Cardinality(MemEventId)
      PROVE  [MemContract!Next]_(MemContract!vars)
  <2> DEFINE from == mem.task[t].status
             L    == mem'.ledger[t]
  <2>1. /\ from \in TaskStatus /\ canTransit(from, to) /\ to # "FAILED"
        /\ EventsAfter(mem, mem', t, PostTransitionEvent(from, to))
    BY <1>4 DEF Shifted
  <2>2. /\ mem'.task[t].status = to /\ L = BookedRows(mem.ledger[t], PostTransitionLedger(to))
        /\ \A s \in MemTasks : s # t => mem'.task[s] = mem.task[s] /\ mem'.ledger[s] = mem.ledger[s]
    BY <1>0, <1>4 DEF Shifted, MovedRow
  <2>3. Settles(from, mem.ledger[t]) /\ Settles(to, L)
    BY <2>2 DEF MemInv, MapsSettled
  <2>4. MemPhases' = [MemPhases EXCEPT ![t] = MemPhase(to)]
    BY <2>2 DEF MemPhases
  <2>5. MemCharges' = [MemCharges EXCEPT ![t] = MemCharge(L)]
    BY <2>2 DEF MemCharges
  <2>6. CASE to \notin {"SUCCEEDED", "CANCELED"}
    <3>1. MemPhase(to) = "running"
      BY <2>1, <2>6, PhaseIs DEF TaskStatus, NoStatus
    <3>2. PostTransitionLedger(to) = {}
      BY <2>6 DEF PostTransitionLedger
    <3>3. L = mem.ledger[t]
      BY <1>0, <2>2, <3>2 DEF BookedRows
    <3>4. MemCharges' = MemCharges
      BY <2>5, <3>3 DEF MemCharges
    <3>5. PostTransitionEvent(from, to) \in {"task.retried", NoEventType}
      BY <2>6, Zenon DEF PostTransitionEvent
    <3>6. MemNotices' = MemNotices
      <4>1. "task.retried" \in EventType /\ "task.retried" \notin NoticeEvent /\ "task.retried" # NoEventType
        BY DEF EventType, TriggerEvent, NoticeEvent, NoEventType
      <4> QED
        BY <1>0, <1>b, <2>1, <3>5, <4>1, MemNoticeUnseen DEF EventsAfter
    <3>7. CASE from = "FAILED"
      <4>1. MemPhases[t] = "failed"
        BY <3>7, PhaseIs DEF MemPhases
      <4>2. MemContract!Retry(t)
        BY <2>4, <3>1, <3>4, <3>6, <4>1 DEF MemContract!Retry, MemPhases, MemCharges, MemNotices
      <4> QED
        BY <4>2 DEF MemContract!Next
    <3>8. CASE from # "FAILED"
      <4>1. from \notin {"SUCCEEDED", "CANCELED", NoStatus}
        BY <2>1 DEF canTransit, STATUS_TRANSITION_MAP, TaskStatus, NoStatus
      <4>2. MemPhases[t] = "running"
        BY <3>8, <4>1, PhaseIs DEF MemPhases
      <4>3. MemPhases' = MemPhases
        BY <2>4, <3>1, <4>2 DEF MemPhases
      <4> QED
        BY <1>a, <3>4, <3>6, <4>3
    <3> QED
      BY <3>7, <3>8
  <2>7. CASE to \in {"SUCCEEDED", "CANCELED"}
    <3> DEFINE outcome == IF to = "SUCCEEDED" THEN "succeeded" ELSE "canceled"
               type    == IF to = "SUCCEEDED" THEN "task.succeeded" ELSE "task.canceled"
    <3>1. MemPhase(to) = outcome
      BY <2>7, PhaseIs
    <3>2. PostTransitionEvent(from, to) = type
      <4>1. PostTransitionEvent(from, "SUCCEEDED") = "task.succeeded"
        BY Zenon DEF PostTransitionEvent
      <4>2. PostTransitionEvent(from, "CANCELED") = "task.canceled"
        BY Zenon DEF PostTransitionEvent
      <4> QED
        BY <2>7, <4>1, <4>2
    <3>3. MemCharge(L) = IF outcome = "succeeded" THEN "charged" ELSE "released"
      BY <2>3, <2>7, SettledCharge
    <3>4. type \in {"task.succeeded", "task.canceled"} /\ type # NoEventType
          /\ outcome = (IF type = "task.succeeded" THEN "succeeded" ELSE "canceled")
      BY DEF NoEventType
    <3>5. mem'.events = Append(mem.events, [type |-> type, task |-> t])
      BY <2>1, <3>2, <3>4 DEF EventsAfter
    <3>6. outcome \in MemContract!Outcome
      BY DEF MemContract!Outcome
    <3>7. MemPhases[t] = "running"
      <4>1. from \notin {"SUCCEEDED", "CANCELED", "FAILED", NoStatus}
        BY <2>1, <2>7 DEF canTransit, STATUS_TRANSITION_MAP, TaskStatus, NoStatus
      <4> QED
        BY <4>1, PhaseIs DEF MemPhases
    <3> HIDE DEF type, outcome
    <3>8. \E e \in MemEventId : /\ MemNotices[e] = MemContract!Blank
                                /\ MemNotices' = [MemNotices EXCEPT ![e] = [outcome |-> outcome, task |-> t]]
      BY <1>0, <1>4, <3>4, <3>5, MemNoticePosted
    <3>9. MemContract!Post(t, outcome)
      BY <3>8 DEF MemContract!Post, MemNotices
    <3>10. MemContract!End(t, outcome)
      BY <2>4, <2>5, <3>1, <3>3, <3>7, <3>9 DEF MemContract!End, MemPhases, MemCharges
    <3> QED
      BY <3>6, <3>10 DEF MemContract!Next
  <2> QED
    BY <2>6, <2>7
<1>5. \/ mem'.task = mem.task /\ mem'.ledger = mem.ledger /\ mem'.events = mem.events
      \/ /\ Len(mem'.events) <= Cardinality(MemEventId)
         /\ \E t \in MemTasks :
               Made(mem, mem', t) \/ Touched(mem, mem', t) \/ \E to \in TaskStatus : Shifted(mem, mem', t, to)
  BY DEF MemStep, Advanced, Effect, Seeded
<1> QED
  BY <1>1, <1>2, <1>3, <1>4, <1>5, <1>a DEF MemContract!Next

(* Without a database, each operation is a step of the contract, or none,  *)
(* as long as no test fails a task.                                        *)
THEOREM MemoryDoesAsPromised == MemSpec => MemoryImplementsContract
<1>1. MemInit => MemContract!Init
  <2> SUFFICES ASSUME MemInit PROVE MemContract!Init
    OBVIOUS
  <2>1. \A t \in MemTasks : MemPhase(mem.task[t].status) = "none"
    BY EmptyIs, PhaseIs DEF MemInit
  <2>2. \A t \in MemTasks : MemCharge(mem.ledger[t]) = "none"
    BY EmptyIs, RowsApart DEF MemInit, MemCharge
  <2>3. \A e \in MemEventId : MemNotice(e) = MemContract!Blank
    <3>1. Len(mem.events) = 0 /\ \A e \in MemEventId : e > 0
      BY EmptyIs, MemoryAssumption, FS_CardinalityType DEF MemInit
    <3> QED
      BY <3>1 DEF MemNotice, MemContract!Blank
  <2> QED
    BY <2>1, <2>2, <2>3 DEF MemContract!Init
<1>2. MemInv /\ [MemNext]_memVars => MemInv' /\ [seeding \/ MemContract!Next]_(MemContract!vars)
  BY MemInvNext, MemContractNext
<1> QED
  BY <1>1, <1>2, MemInit_MemInv, PTL DEF MemSpec, MemoryImplementsContract
================================================================================
