------------------------ MODULE WebhookDeliveryProofs ------------------------
(* Proofs about WebhookDelivery, for every value of its constants. *)
EXTENDS WebhookDelivery, FiniteSetTheorems, TLAPS

-----------------------------------------------------------------------------
(* The inductive invariant.                                                *)

(* An attempt about to be recorded follows a failure that is recorded. *)
Follows(ep, ev, n) ==
    n = 1 \/ \E row \in RowsOf(ep, ev) : row.attempt = n - 1 /\ ~row.ok

(* What a worker or a call has read is in the table. *)
ReadsOf(w) ==
    /\ \A ep \in Endpoints :
        w.latest[ep].attempt # 0 =>
            Row(ep, w.event, w.latest[ep].attempt, w.latest[ep].ok) \in delivery
    /\ w.pc = "record" => Follows(w.target, w.event, w.attempt)

ReadsLast ==
    /\ \A c \in Callers : call[c].pc = "create" => call[c].row \in delivery /\ ~call[c].row.ok
    /\ \A d \in Dispatchers : ReadsOf(worker[d])

(* A steady endpoint of the event at hand waits for its turn or has had it. *)
Tried(w, ep) ==
    \/ \E row \in RowsOf(ep, w.event) : row.ok
    \/ w.results \cap {"FAILED_RETRYABLE", "DEFERRED"} # {}
    \/ /\ "FAILED_EXHAUSTED" \in w.results
       /\ \E row \in RowsOf(ep, w.event) : row.attempt > endpoint[ep].maxRetries

TurnOf(w) ==
    /\ \A e \in w.batch : outbox[e] # "NONE"
    /\ w.pc # "idle" => w.event \in w.batch
    /\ w.pc \in {"attempts", "send", "record"} =>
        \A ep \in steady[w.event] :
            /\ w.limit[ep] = endpoint[ep].maxRetries
            /\ ep \in w.todo \/ Tried(w, ep)

SteadyListens == \A e \in Events : \A ep \in steady[e] : outbox[e] # "NONE" /\ Listens(ep, e)

InTurn == SteadyListens /\ \A d \in Dispatchers : TurnOf(worker[d])

(* The inductive invariant behind LogLinear and SettledMeansTried: what    *)
(* the steps between two database calls rely on.                           *)
IInv == TypeOK /\ LogLinear /\ SettledMeansTried /\ ReadsLast /\ InTurn /\ IsFiniteSet(delivery)

-----------------------------------------------------------------------------
(* Types.                                                                  *)

(* The defaults of idle workers and calls are well typed. *)
LEMMA DefaultsTyped == IdleWorker \in WorkerType /\ IdleCall \in CallType
<1>1. AnyEvent \in Events /\ AnyEndpoint \in Endpoints
  BY EventsAssumption, EndpointsAssumption DEF AnyEvent, AnyEndpoint
<1>2. 0 \in 0..MaxRetries
  BY LimitsAssumption
<1>3. IdleWorker \in WorkerType
  BY <1>1, <1>2 DEF IdleWorker, WorkerType, WorkerPc, Result, NoAttempt
<1>4. IdleCall \in CallType
  BY <1>1 DEF IdleCall, CallType, Row, RowType
<1> QED
  BY <1>3, <1>4

(* The initial state is well typed. *)
LEMMA InitTyped == Init => TypeOK
  BY DefaultsTyped, LimitsAssumption
  DEF Init, TypeOK, NoEndpoint, EndpointStatus, EndpointType

(* What findMany returns first is an attempt of the table, or none. *)
LEMMA LatestRecorded ==
  ASSUME TypeOK, NEW ep \in Endpoints, NEW ev \in Events
  PROVE  /\ LatestAttempt(ep, ev) \in [attempt : Nat, ok : BOOLEAN]
         /\ LatestAttempt(ep, ev).attempt # 0 =>
              Row(ep, ev, LatestAttempt(ep, ev).attempt, LatestAttempt(ep, ev).ok) \in delivery
<1> DEFINE newest == {row \in RowsOf(ep, ev) :
                        \A other \in RowsOf(ep, ev) : other.attempt <= row.attempt}
           last   == CHOOSE row \in newest : TRUE
<1>1. CASE newest = {}
  BY <1>1 DEF LatestAttempt, NoAttempt
<1>2. CASE newest # {}
  <2>1. last \in delivery /\ last.endpoint = ep /\ last.event = ev
    BY <1>2 DEF RowsOf
  <2>2. LatestAttempt(ep, ev) = [attempt |-> last.attempt, ok |-> last.ok]
    BY <1>2 DEF LatestAttempt
  <2> HIDE DEF newest, last
  <2>3. last \in RowType
    BY <2>1 DEF TypeOK
  <2>4. Row(ep, ev, last.attempt, last.ok) = last
    BY <2>1, <2>3 DEF Row, RowType
  <2>5. last.attempt \in Nat /\ last.ok \in BOOLEAN
    BY <2>3 DEF RowType
  <2> QED
    BY <2>1, <2>2, <2>4, <2>5
<1> QED
  BY <1>1, <1>2

(* A dispatcher takes up an event of the batch it has read. *)
LEMMA NextEventTyped ==
  ASSUME TypeOK, NEW d \in Dispatchers, NEW batch \in SUBSET Events, NextEvent(d, batch)
  PROVE  worker' \in [Dispatchers -> WorkerType]
<1>1. PICK e \in batch : worker' = [worker EXCEPT ![d] = Started(batch, e)]
  BY DEF NextEvent
<1>2. Started(batch, e) \in WorkerType
  BY DefaultsTyped DEF Started, WorkerType, WorkerPc
<1> QED
  BY <1>1, <1>2 DEF TypeOK

(* Every step of a producer or of the API keeps the types. *)
LEMMA ApiTyped ==
  ASSUME TypeOK,
         \/ \E e \in Events : Announce(e)
         \/ \E ep \in Endpoints : createEndpoint(ep) \/ updateEndpoint(ep) \/ deleteEndpoint(ep)
         \/ \E ep \in Endpoints, e \in Tests : sendTestDelivery(ep, e)
         \/ \E c \in Callers : RetryRead(c) \/ RetryCreate(c)
  PROVE  TypeOK'
<1>1. CASE \E e \in Events : Announce(e)
  BY <1>1 DEF Announce, TypeOK
<1>2. ASSUME NEW ep \in Endpoints, NEW record \in EndpointType, SetEndpoint(ep, record)
      PROVE  TypeOK'
  <2>1. endpoint' \in [Endpoints -> EndpointType]
    BY <1>2 DEF SetEndpoint, TypeOK
  <2>2. steady' \in [Events -> SUBSET Endpoints] /\ edits' \in 0..MaxEdits
    BY <1>2, LimitsAssumption DEF SetEndpoint, TypeOK
  <2> QED
    BY <1>2, <2>1, <2>2 DEF SetEndpoint, TypeOK
<1>3. CASE \E ep \in Endpoints : createEndpoint(ep) \/ updateEndpoint(ep) \/ deleteEndpoint(ep)
  <2>1. ASSUME NEW ep \in Endpoints, createEndpoint(ep)
        PROVE  TypeOK'
    BY <2>1, <1>2 DEF createEndpoint, EndpointType, EndpointStatus
  <2>2. ASSUME NEW ep \in Endpoints, updateEndpoint(ep)
        PROVE  TypeOK'
    BY <2>2, <1>2 DEF updateEndpoint, EndpointType, EndpointStatus
  <2>3. ASSUME NEW ep \in Endpoints, deleteEndpoint(ep)
        PROVE  TypeOK'
    <3>1. [endpoint[ep] EXCEPT !.status = "DELETED"] \in EndpointType
      BY DEF TypeOK, EndpointType, EndpointStatus
    <3> QED
      BY <2>3, <3>1, <1>2 DEF deleteEndpoint
  <2> QED
    BY <1>3, <2>1, <2>2, <2>3
<1>4. CASE \E ep \in Endpoints, e \in Tests : sendTestDelivery(ep, e)
  <2>1. PICK ep \in Endpoints, e \in Tests : sendTestDelivery(ep, e)
    BY <1>4
  <2>2. \A ok \in BOOLEAN : Row(ep, e, 1, ok) \in RowType
    BY DEF Row, RowType
  <2>3. delivery' \subseteq RowType
    BY <2>1, <2>2 DEF sendTestDelivery, SimulatedOutcome, TypeOK
  <2> QED
    BY <2>1, <2>3 DEF sendTestDelivery, TypeOK
<1>5. CASE \E c \in Callers : RetryRead(c) \/ RetryCreate(c)
  <2>1. ASSUME NEW c \in Callers, RetryRead(c)
        PROVE  TypeOK'
    <3>1. PICK row \in delivery, ok \in BOOLEAN :
            call' = [call EXCEPT ![c] = [pc |-> "create", row |-> row, ok |-> ok]]
      BY <2>1 DEF RetryRead, SimulatedOutcome
    <3>2. [pc |-> "create", row |-> row, ok |-> ok] \in CallType
      BY DEF CallType, TypeOK
    <3>3. call' \in [Callers -> CallType]
      BY <3>1, <3>2 DEF TypeOK
    <3> QED
      BY <2>1, <3>3 DEF RetryRead, dbVars, TypeOK
  <2>2. ASSUME NEW c \in Callers, RetryCreate(c)
        PROVE  TypeOK'
    <3>1. Row(call[c].row.endpoint, call[c].row.event, call[c].row.attempt + 1, call[c].ok)
            \in RowType
      BY DEF TypeOK, CallType, RowType, Row
    <3>2. delivery' \subseteq RowType
      BY <2>2, <3>1 DEF RetryCreate, TypeOK
    <3>3. [IdleCall EXCEPT !.pc = "done"] \in CallType
      BY DefaultsTyped DEF CallType
    <3>4. call' \in [Callers -> CallType]
      BY <2>2, <3>3 DEF RetryCreate, TypeOK
    <3> QED
      BY <2>2, <3>2, <3>4 DEF RetryCreate, TypeOK
  <2> QED
    BY <1>5, <2>1, <2>2
<1> QED
  BY <1>1, <1>3, <1>4, <1>5

(* Every step of a dispatcher keeps the types. *)
LEMMA DispatcherTyped ==
  ASSUME TypeOK, NEW d \in Dispatchers, DispatcherStep(d) \/ LoseBatch(d)
  PROVE  TypeOK'
<1> USE DEF WorkerType
<1>0. worker[d] \in WorkerType
  BY DEF TypeOK
<1>1. CASE Poll(d)
  <2>1. worker' \in [Dispatchers -> WorkerType]
    <3>1. {e \in Pending : Cardinality({f \in Pending : f < e}) < BatchSize} \in SUBSET Events
      BY DEF Pending
    <3> QED
      BY <1>1, <3>1, NextEventTyped DEF Poll
  <2> QED
    BY <1>1, <2>1 DEF Poll, dbVars, TypeOK
<1>3. CASE ReadEndpoints(d)
  <2>1. [ep \in Endpoints |-> endpoint[ep].maxRetries] \in [Endpoints -> 0..MaxRetries]
    BY DEF TypeOK, EndpointType
  <2>2. worker' \in [Dispatchers -> WorkerType]
    BY <1>3, <2>1, <1>0 DEF ReadEndpoints, WorkerPc, TypeOK
  <2> QED
    BY <1>3, <2>2 DEF ReadEndpoints, dbVars, TypeOK
<1>4. CASE ReadAttempts(d)
  <2>1. [ep \in Endpoints |-> LatestAttempt(ep, worker[d].event)]
          \in [Endpoints -> [attempt : Nat, ok : BOOLEAN]]
    BY <1>0, LatestRecorded
  <2>2. worker' \in [Dispatchers -> WorkerType]
    BY <1>4, <2>1, <1>0 DEF ReadAttempts, WorkerPc, TypeOK
  <2> QED
    BY <1>4, <2>2 DEF ReadAttempts, dbVars, TypeOK
<1>5. CASE RecordAttempt(d)
  <2>1. Row(worker[d].target, worker[d].event, worker[d].attempt, worker[d].ok) \in RowType
    BY <1>0 DEF Row, RowType
  <2>2. delivery' \subseteq RowType
    BY <1>5, <2>1 DEF RecordAttempt, TypeOK
  <2>3. worker' \in [Dispatchers -> WorkerType]
    <3> DEFINE result ==
          IF ~Insertable(worker[d].target, worker[d].event, worker[d].attempt) THEN "DEFERRED"
          ELSE IF worker[d].ok THEN "SUCCESS" ELSE "FAILED_RETRYABLE"
               todo    == worker[d].todo \ {worker[d].target}
               results == worker[d].results \cup {result}
    <3>1. worker' = [worker EXCEPT ![d] =
            [worker[d] EXCEPT !.pc = "send", !.todo = todo, !.results = results,
                              !.target = AnyEndpoint, !.attempt = 1, !.ok = FALSE]]
      BY <1>5 DEF RecordAttempt
    <3>2. result \in Result
      BY DEF Result
    <3>3. todo \in SUBSET Endpoints /\ results \in SUBSET Result
      <4> HIDE DEF result
      <4> QED
        BY <1>0, <3>2
    <3>4. AnyEndpoint \in Endpoints
      BY EndpointsAssumption DEF AnyEndpoint
    <3> HIDE DEF todo, results
    <3> DEFINE sent == [worker[d] EXCEPT !.pc = "send", !.todo = todo, !.results = results]
    <3>5. sent \in WorkerType
      BY <1>0, <3>3 DEF WorkerPc
    <3>6. [worker[d] EXCEPT !.pc = "send", !.todo = todo, !.results = results,
                            !.target = AnyEndpoint, !.attempt = 1, !.ok = FALSE]
          = [sent EXCEPT !.target = AnyEndpoint, !.attempt = 1, !.ok = FALSE]
      BY <1>0
    <3> HIDE DEF sent
    <3>7. [sent EXCEPT !.target = AnyEndpoint, !.attempt = 1, !.ok = FALSE] \in WorkerType
      <4>1. 1 \in Nat \ {0} /\ FALSE \in BOOLEAN
        OBVIOUS
      <4>2. ASSUME NEW n \in Nat \ {0}, NEW b \in BOOLEAN
            PROVE  [sent EXCEPT !.target = AnyEndpoint, !.attempt = n, !.ok = b] \in WorkerType
        BY <3>4, <3>5
      <4> QED
        BY <4>1, <4>2
    <3> QED
      BY <3>1, <3>6, <3>7 DEF TypeOK
  <2> QED
    BY <1>5, <2>2, <2>3 DEF RecordAttempt, TypeOK
<1>6. CASE Settle(d)
  <2>1. outbox' \in [Events -> {"NONE", "PENDING", "PUBLISHED", "DEAD"}]
    BY <1>0, <1>6 DEF Settle, NextStatus, TypeOK
  <2>2. worker[d].batch \ {worker[d].event} \in SUBSET Events
    BY <1>0
  <2>3. worker' \in [Dispatchers -> WorkerType]
    BY <1>6, <2>2, NextEventTyped, DefaultsTyped DEF Settle, TypeOK
  <2> QED
    BY <1>6, <2>1, <2>3 DEF Settle, TypeOK
<1>7. ASSUME NEW ep \in Endpoints, PassOver(d, ep)
      PROVE  TypeOK'
  <2>1. PICK decision \in Result :
          worker' = [worker EXCEPT ![d].todo = @ \ {ep}, ![d].results = @ \cup {decision}]
    BY <1>7 DEF PassOver, DecisionFor, Decisions, Result
  <2>2. worker' \in [Dispatchers -> WorkerType]
    BY <1>0, <2>1, ZenonT(60) DEF TypeOK
  <2> QED
    BY <1>7, <2>2 DEF PassOver, dbVars, TypeOK
<1>8. ASSUME NEW ep \in Endpoints, Post(d, ep)
      PROVE  TypeOK'
  <2>1. worker[d].latest[ep].attempt + 1 \in Nat \ {0}
    BY <1>0
  <2>2. ASSUME NEW ok \in BOOLEAN
        PROVE  [worker[d] EXCEPT !.pc = "record", !.target = ep,
                  !.attempt = worker[d].latest[ep].attempt + 1, !.ok = ok] \in WorkerType
    BY <1>0, <2>1 DEF WorkerPc
  <2>3. PICK ok \in BOOLEAN : worker' = [worker EXCEPT ![d] =
          [worker[d] EXCEPT !.pc = "record", !.target = ep,
             !.attempt = worker[d].latest[ep].attempt + 1, !.ok = ok]]
    BY <1>8 DEF Post, TypeOK
  <2>4. worker' \in [Dispatchers -> WorkerType]
    BY <2>2, <2>3 DEF TypeOK
  <2> QED
    BY <1>8, <2>4 DEF Post, dbVars, TypeOK
<1>9. CASE LoseBatch(d)
  <2>1. worker' \in [Dispatchers -> WorkerType]
    BY <1>9, DefaultsTyped DEF LoseBatch, TypeOK
  <2>2. faults' \in 0..MaxFaults
    BY <1>9, LimitsAssumption DEF LoseBatch, TypeOK
  <2> QED
    BY <1>9, <2>1, <2>2 DEF LoseBatch, dbVars, TypeOK
<1> QED
  BY <1>1, <1>3, <1>4, <1>5, <1>6, <1>7, <1>8, <1>9 DEF DispatcherStep

(* TypeOK is kept by every step. *)
LEMMA StepTyped == TypeOK /\ [Next]_vars => TypeOK'
<1>1. CASE UNCHANGED vars
  BY <1>1 DEF vars, dbVars, TypeOK
<1>2. CASE Next
  BY <1>2, ApiTyped, DispatcherTyped DEF Next
<1> QED
  BY <1>1, <1>2

(* The tables, dispatchers and calls keep their types. *)
THEOREM DeliveryTypeCorrect == Spec => []TypeOK
<1> QED
  BY InitTyped, StepTyped, PTL DEF Spec

-----------------------------------------------------------------------------
(* The table of deliveries.                                                *)

(* A row may be added when its number is free and follows a failure.       *)
Extends(ep, ev, n, ok) ==
    /\ ep \in Endpoints /\ ev \in Events \cup Tests /\ n \in Nat \ {0} /\ ok \in BOOLEAN
    /\ ~Recorded(ep, ev, n)
    /\ Follows(ep, ev, n)
    /\ delivery' = delivery \cup {Row(ep, ev, n, ok)}

(* Whatever happens, the table stays as it is or gains one such row.       *)
LEMMA TableSteps ==
  ASSUME IInv, [Next]_vars
  PROVE  delivery' = delivery \/ \E ep, ev, n, ok : Extends(ep, ev, n, ok)
<1> USE DEF IInv
<1>1. ASSUME NEW ep \in Endpoints, NEW e \in Tests, sendTestDelivery(ep, e)
      PROVE  \E ok : Extends(ep, e, 1, ok)
  <2>1. PICK ok \in BOOLEAN : delivery' = delivery \cup {Row(ep, e, 1, ok)}
    BY <1>1 DEF sendTestDelivery, SimulatedOutcome
  <2>2. ~Recorded(ep, e, 1)
    BY <1>1 DEF sendTestDelivery, Recorded, RowsOf
  <2> QED
    BY <2>1, <2>2 DEF Extends, Follows
<1>2. ASSUME NEW c \in Callers, RetryCreate(c)
      PROVE  delivery' = delivery \/ \E ep, ev, n, ok : Extends(ep, ev, n, ok)
  <2> DEFINE row == call[c].row
             n   == row.attempt + 1
  <2>1. row \in delivery /\ ~row.ok /\ call[c].ok \in BOOLEAN
    BY <1>2 DEF RetryCreate, ReadsLast, TypeOK, CallType
  <2>2. row \in RowType
    BY <2>1 DEF TypeOK
  <2>3. Follows(row.endpoint, row.event, n)
    BY <2>1, <2>2 DEF Follows, RowsOf, RowType
  <2>4. CASE Recorded(row.endpoint, row.event, n)
    BY <1>2, <2>4 DEF RetryCreate
  <2>5. CASE ~Recorded(row.endpoint, row.event, n)
    <3>1. delivery' = delivery \cup {Row(row.endpoint, row.event, n, call[c].ok)}
      BY <1>2, <2>5 DEF RetryCreate
    <3> QED
      BY <2>1, <2>2, <2>3, <2>5, <3>1 DEF Extends, RowType
  <2> QED
    BY <2>4, <2>5
<1>3. ASSUME NEW d \in Dispatchers, RecordAttempt(d)
      PROVE  delivery' = delivery \/ \E ep, ev, n, ok : Extends(ep, ev, n, ok)
  <2> DEFINE w == worker[d]
  <2>1. w.target \in Endpoints /\ w.event \in Events /\ w.attempt \in Nat \ {0} /\ w.ok \in BOOLEAN
    BY DEF TypeOK, WorkerType
  <2>2. Follows(w.target, w.event, w.attempt)
    BY <1>3 DEF RecordAttempt, ReadsLast, ReadsOf
  <2> QED
    BY <1>3, <2>1, <2>2 DEF RecordAttempt, Insertable, Extends
<1>4. CASE UNCHANGED vars
  BY <1>4 DEF vars, dbVars
<1>5. ASSUME NEW d \in Dispatchers, DispatcherStep(d) \/ LoseBatch(d), ~RecordAttempt(d)
      PROVE  delivery' = delivery
  BY <1>5 DEF DispatcherStep, Poll, ReadEndpoints, ReadAttempts, Settle,
              PassOver, Post, LoseBatch, dbVars
<1>6. CASE Next
  BY <1>1, <1>2, <1>3, <1>5, <1>6
  DEF Next, Announce, createEndpoint, updateEndpoint, deleteEndpoint, SetEndpoint,
      RetryRead, dbVars
<1> QED
  BY <1>4, <1>6

(* The rows before one so added are failures with smaller numbers.         *)
LEMMA FailuresBefore ==
  ASSUME TypeOK, LogLinear, NEW ep, NEW ev, NEW n, NEW ok, Extends(ep, ev, n, ok),
         NEW row \in RowsOf(ep, ev)
  PROVE  row.attempt < n /\ ~row.ok
<1>1. /\ row \in delivery /\ row.endpoint = ep /\ row.event = ev
      /\ delivery \subseteq RowType /\ n \in Nat \ {0}
  BY DEF RowsOf, TypeOK, Extends
<1>2. row.attempt \in Nat \ {0} /\ row.attempt # n
  BY <1>1 DEF Extends, Recorded, RowsOf, RowType
<1>3. row.attempt < n
  BY <1>1, <1>2 DEF LogLinear, Extends, RowsOf, Recorded
<1>4. PICK last \in delivery : last.endpoint = ep /\ last.event = ev /\ last.attempt = n - 1 /\ ~last.ok
  BY <1>1, <1>2, <1>3 DEF Extends, Follows, RowsOf
<1>5. row.ok => last.attempt <= row.attempt
  BY <1>1, <1>4 DEF LogLinear, RowsOf
<1>6. row.attempt = n - 1 => row = last
  BY <1>1, <1>4 DEF LogLinear, RowsOf
<1> QED
  BY <1>1, <1>2, <1>3, <1>4, <1>5, <1>6

(* A row so added leaves the log linear and the table finite.              *)
LEMMA ExtendedLog ==
  ASSUME TypeOK, LogLinear, NEW ep, NEW ev, NEW n, NEW ok, Extends(ep, ev, n, ok)
  PROVE  LogLinear'
<1> DEFINE new == Row(ep, ev, n, ok)
<1>0. delivery \subseteq RowType /\ new \in RowType
  BY DEF TypeOK, Extends, Row, RowType
<1>1. /\ delivery' = delivery \cup {new}
      /\ new.endpoint = ep /\ new.event = ev /\ new.attempt = n /\ new.ok = ok
      /\ n \in Nat \ {0}
  BY DEF Extends, Row
<1>2. ASSUME NEW p, NEW e, NEW k, Recorded(p, e, k)
      PROVE  Recorded(p, e, k)'
  BY <1>1, <1>2 DEF Recorded, RowsOf
<1>3. Recorded(ep, ev, n)'
  BY <1>1 DEF Recorded, RowsOf
<1>4. ASSUME NEW row \in delivery, row.endpoint = ep, row.event = ev
      PROVE  row.attempt < n /\ ~row.ok
  BY <1>4, FailuresBefore DEF RowsOf
<1>5. \A k \in 1..n : Recorded(ep, ev, k)'
  <2>1. n # 1 => \A k \in 1..(n - 1) : Recorded(ep, ev, k)
    BY <1>1 DEF Extends, Follows, LogLinear, RowsOf
  <2> QED
    BY <1>1, <1>2, <1>3, <2>1
<1>6. ASSUME NEW row \in delivery', NEW k \in 1..row.attempt
      PROVE  Recorded(row.endpoint, row.event, k)'
  <2>1. CASE row = new
    BY <1>1, <1>5, <1>6, <2>1
  <2>2. CASE row \in delivery
    BY <1>2, <1>6, <2>2 DEF LogLinear
  <2> QED
    BY <1>1, <2>1, <2>2
<1>7. ASSUME NEW row \in delivery', NEW other \in delivery',
             other.endpoint = row.endpoint, other.event = row.event
      PROVE  /\ other.attempt = row.attempt => other = row
             /\ row.ok => other.attempt <= row.attempt
  <2>1. CASE row = new /\ other = new
    BY <1>1, <2>1
  <2>2. CASE row = new /\ other \in delivery
    BY <1>0, <1>1, <1>4, <1>7, <2>2 DEF RowType
  <2>3. CASE row \in delivery /\ other = new
    BY <1>0, <1>1, <1>4, <1>7, <2>3 DEF RowType
  <2>4. CASE row \in delivery /\ other \in delivery
    BY <1>7, <2>4 DEF LogLinear, RowsOf
  <2> QED
    BY <1>1, <2>1, <2>2, <2>3, <2>4
<1> QED
  BY <1>6, <1>7 DEF LogLinear, RowsOf

(* The table only grows, and stays finite. *)
LEMMA TableGrows ==
  ASSUME IInv, [Next]_vars
  PROVE  /\ delivery \subseteq delivery'
         /\ IsFiniteSet(delivery')
         /\ LogLinear'
<1>1. CASE delivery' = delivery
  BY <1>1 DEF IInv, LogLinear, RowsOf, Recorded
<1>2. ASSUME NEW ep, NEW ev, NEW n, NEW ok, Extends(ep, ev, n, ok)
      PROVE  delivery \subseteq delivery' /\ IsFiniteSet(delivery') /\ LogLinear'
  <2>1. LogLinear'
    BY <1>2, ExtendedLog DEF IInv
  <2>2. IsFiniteSet(delivery')
    BY <1>2, FS_AddElement DEF Extends, IInv
  <2> QED
    BY <1>2, <2>1, <2>2 DEF Extends
<1> QED
  BY <1>1, <1>2, TableSteps

-----------------------------------------------------------------------------
(* What has been read.                                                     *)

(* A worker that takes up an event has read nothing of it yet. *)
LEMMA StartedFields ==
  ASSUME NEW batch, NEW e
  PROVE  /\ Started(batch, e).pc = "endpoints"
         /\ Started(batch, e).batch = batch
         /\ Started(batch, e).event = e
         /\ Started(batch, e).latest = [ep \in Endpoints |-> NoAttempt]
  BY DEF Started, IdleWorker

(* Between two events a worker is idle or has taken up the next one. *)
LEMMA Afresh ==
  ASSUME TypeOK, NEW d \in Dispatchers, Poll(d) \/ Settle(d) \/ LoseBatch(d)
  PROVE  \/ worker'[d] = IdleWorker
         \/ \E batch \in SUBSET (Pending \cup worker[d].batch) : \E e \in batch :
                worker'[d] = Started(batch, e)
<1>0. ASSUME NEW batch \in SUBSET (Pending \cup worker[d].batch), NextEvent(d, batch)
      PROVE  \E e \in batch : worker'[d] = Started(batch, e)
  BY <1>0 DEF NextEvent, TypeOK
<1>1. CASE Poll(d)
  <2> DEFINE batch == {e \in Pending : Cardinality({f \in Pending : f < e}) < BatchSize}
  <2>1. NextEvent(d, batch)
    BY <1>1 DEF Poll
  <2>2. batch \in SUBSET (Pending \cup worker[d].batch)
    OBVIOUS
  <2> HIDE DEF batch
  <2> QED
    BY <1>0, <2>1, <2>2
<1>2. CASE Settle(d)
  <2> DEFINE rest == worker[d].batch \ {worker[d].event}
  <2>1. worker' = [worker EXCEPT ![d] = IdleWorker] \/ NextEvent(d, rest)
    BY <1>2 DEF Settle
  <2>2. rest \in SUBSET (Pending \cup worker[d].batch)
    OBVIOUS
  <2> HIDE DEF rest
  <2> QED
    BY <1>0, <2>1, <2>2 DEF TypeOK
<1>3. CASE LoseBatch(d)
  BY <1>3 DEF LoseBatch, TypeOK
<1> QED
  BY <1>1, <1>2, <1>3

(* After a recorded failure its successor may be attempted. *)
LEMMA FollowsNext ==
  ASSUME NEW ep, NEW ev, NEW n \in Nat, n = 0 \/ Row(ep, ev, n, FALSE) \in delivery'
  PROVE  Follows(ep, ev, n + 1)'
<1>1. CASE n = 0
  BY <1>1 DEF Follows
<1>2. CASE Row(ep, ev, n, FALSE) \in delivery'
  <2>1. Row(ep, ev, n, FALSE) \in RowsOf(ep, ev)'
    BY <1>2 DEF RowsOf, Row
  <2>2. Row(ep, ev, n, FALSE).attempt = (n + 1) - 1 /\ ~Row(ep, ev, n, FALSE).ok
    BY DEF Row
  <2> QED
    BY <2>1, <2>2 DEF Follows
<1> QED
  BY <1>1, <1>2

(* Every step leaves what is read in the table, and what is read now is there. *)
LEMMA ReadsStep ==
  ASSUME IInv, [Next]_vars
  PROVE  ReadsLast'
<1> USE DEF IInv
<1>0. delivery \subseteq delivery'
  BY TableGrows
<1>1. ASSUME NEW c \in Callers, call'[c].pc = "create"
      PROVE  call'[c].row \in delivery' /\ ~call'[c].row.ok
  <2>1. CASE call'[c] = call[c]
    BY <1>0, <1>1, <2>1 DEF ReadsLast
  <2>2. CASE RetryRead(c)
    BY <1>0, <1>1, <2>2 DEF RetryRead, RetryableRow, TypeOK
  <2>3. CASE RetryCreate(c)
    BY <1>1, <2>3 DEF RetryCreate, IdleCall, TypeOK
  <2>4. ASSUME NEW x \in Callers, x # c, RetryRead(x) \/ RetryCreate(x)
        PROVE  call'[c] = call[c]
    BY <2>4 DEF RetryRead, RetryCreate, TypeOK
  <2>5. ASSUME NEW d \in Dispatchers, DispatcherStep(d) \/ LoseBatch(d)
        PROVE  call'[c] = call[c]
    BY <2>5 DEF DispatcherStep, Poll, ReadEndpoints, ReadAttempts, Settle,
                PassOver, Post, RecordAttempt, LoseBatch
  <2> QED
    BY <2>1, <2>2, <2>3, <2>4, <2>5
    DEF Next, Announce, createEndpoint, updateEndpoint, deleteEndpoint, SetEndpoint,
        sendTestDelivery, vars
<1>2. ASSUME NEW w, ReadsOf(w)
      PROVE  ReadsOf(w)'
  BY <1>0, <1>2 DEF ReadsOf, Follows, RowsOf
<1>3. ASSUME NEW d \in Dispatchers, worker'[d] = worker[d]
      PROVE  ReadsOf(worker[d])'
  BY <1>2, <1>3 DEF ReadsLast, ReadsOf, Follows, RowsOf
<1>4. ASSUME NEW d \in Dispatchers, DispatcherStep(d) \/ LoseBatch(d)
      PROVE  ReadsOf(worker[d])'
  <2>0. worker[d] \in WorkerType /\ ReadsOf(worker[d])
    BY DEF TypeOK, ReadsLast
  <2>1. ASSUME worker'[d].latest = [ep \in Endpoints |-> NoAttempt], worker'[d].pc # "record"
        PROVE  ReadsOf(worker[d])'
    BY <2>1 DEF ReadsOf, NoAttempt
  <2>2. ASSUME worker'[d].latest = worker[d].latest, worker'[d].event = worker[d].event,
               worker'[d].pc # "record"
        PROVE  ReadsOf(worker[d])'
    BY <1>0, <2>0, <2>2 DEF ReadsOf
  <2>3. CASE Poll(d) \/ Settle(d) \/ LoseBatch(d)
    <3>1. worker'[d].latest = [ep \in Endpoints |-> NoAttempt] /\ worker'[d].pc # "record"
      <4>1. CASE worker'[d] = IdleWorker
        BY <4>1 DEF IdleWorker
      <4>2. ASSUME NEW batch, NEW e, worker'[d] = Started(batch, e)
            PROVE  worker'[d].latest = [ep \in Endpoints |-> NoAttempt] /\ worker'[d].pc # "record"
        BY <4>2, StartedFields
      <4> QED
        BY <2>3, <4>1, <4>2, Afresh
    <3> QED
      BY <2>1, <3>1
  <2>4. CASE ReadEndpoints(d)
    <3>1. /\ worker'[d].latest = worker[d].latest
          /\ worker'[d].event = worker[d].event
          /\ worker'[d].pc = "attempts"
      BY <2>0, <2>4 DEF ReadEndpoints, TypeOK, WorkerType
    <3> QED
      BY <2>2, <3>1
  <2>5. CASE RecordAttempt(d)
    BY <2>0, <2>2, <2>5 DEF RecordAttempt, TypeOK, WorkerType
  <2>6. CASE \E ep \in Endpoints : PassOver(d, ep)
    BY <2>0, <2>2, <2>6 DEF PassOver, TypeOK, WorkerType
  <2>7. CASE ReadAttempts(d)
    <3>1. \A ep \in Endpoints : LatestAttempt(ep, worker[d].event).attempt # 0 =>
            Row(ep, worker[d].event, LatestAttempt(ep, worker[d].event).attempt,
                LatestAttempt(ep, worker[d].event).ok) \in delivery'
      BY <1>0, <2>0, LatestRecorded DEF WorkerType
    <3>2. /\ worker'[d].latest = [ep \in Endpoints |-> LatestAttempt(ep, worker[d].event)]
          /\ worker'[d].event = worker[d].event
          /\ worker'[d].pc = "send"
      BY <2>0, <2>7 DEF ReadAttempts, TypeOK, WorkerType
    <3> QED
      BY <3>1, <3>2 DEF ReadsOf
  <2>8. ASSUME NEW ep \in Endpoints, Post(d, ep)
        PROVE  ReadsOf(worker[d])'
    <3> DEFINE last == worker[d].latest[ep]
    <3>1. /\ worker'[d].latest = worker[d].latest
          /\ worker'[d].event = worker[d].event
          /\ worker'[d].target = ep
          /\ worker'[d].attempt = last.attempt + 1
      BY <2>0, <2>8 DEF Post, TypeOK, WorkerType
    <3>2. last.attempt = 0 \/ ~last.ok
      BY <2>8 DEF Post, DecisionFor, Decisions
    <3>3. last.attempt \in Nat /\ last.ok \in BOOLEAN
      BY <2>0 DEF WorkerType
    <3>4. last.attempt # 0 => Row(ep, worker[d].event, last.attempt, last.ok) \in delivery'
      BY <1>0, <2>0 DEF ReadsOf
    <3>5. PICK ev, n : ev = worker[d].event /\ n = last.attempt
      OBVIOUS
    <3>6. n \in Nat /\ (n = 0 \/ Row(ep, ev, n, FALSE) \in delivery')
      BY <3>2, <3>3, <3>4, <3>5
    <3>7. Follows(ep, ev, n + 1)'
      BY <3>6, FollowsNext
    <3>8. worker'[d].event = ev /\ worker'[d].target = ep /\ worker'[d].attempt = n + 1
      BY <3>1, <3>5
    <3>9. Follows(worker[d].target, worker[d].event, worker[d].attempt)'
      BY <3>7, <3>8 DEF Follows, RowsOf
    <3> QED
      BY <1>0, <2>0, <3>1, <3>9 DEF ReadsOf
  <2> QED
    BY <1>4, <2>3, <2>4, <2>5, <2>6, <2>7, <2>8 DEF DispatcherStep
<1>5. ASSUME NEW d \in Dispatchers
      PROVE  ReadsOf(worker[d])'
  <2>1. worker'[d] = worker[d] \/ DispatcherStep(d) \/ LoseBatch(d)
    <3>1. ASSUME NEW x \in Dispatchers, x # d, DispatcherStep(x) \/ LoseBatch(x)
          PROVE  worker'[d] = worker[d]
      BY <3>1 DEF DispatcherStep, Poll, ReadEndpoints, ReadAttempts, Settle,
                  NextEvent, PassOver, Post, RecordAttempt, LoseBatch, TypeOK
    <3> QED
      BY <3>1 DEF Next, Announce, createEndpoint, updateEndpoint, deleteEndpoint,
                  SetEndpoint, sendTestDelivery, RetryRead, RetryCreate, vars
  <2> QED
    BY <1>3, <1>4, <2>1
<1> QED
  BY <1>1, <1>5 DEF ReadsLast

-----------------------------------------------------------------------------
(* The events.                                                             *)

(* Once announced, an event stays announced; its steady endpoints only     *)
(* become fewer, and stay what they are.                                   *)
Undisturbed(e) ==
    /\ outbox'[e] # "NONE"
    /\ steady'[e] \subseteq steady[e]
    /\ \A ep \in steady'[e] : endpoint'[ep] = endpoint[ep]

LEMMA SteadyUndisturbed ==
  ASSUME TypeOK, [Next]_vars, NEW e \in Events, outbox[e] # "NONE"
  PROVE  Undisturbed(e)
<1>1. ASSUME NEW x \in Events, Announce(x)
      PROVE  Undisturbed(e)
  BY <1>1 DEF Announce, Undisturbed, TypeOK
<1>2. ASSUME NEW ep \in Endpoints, NEW record, SetEndpoint(ep, record)
      PROVE  Undisturbed(e)
  BY <1>2 DEF SetEndpoint, Undisturbed, TypeOK
<1>3. ASSUME UNCHANGED <<outbox, steady, endpoint>>
      PROVE  Undisturbed(e)
  BY <1>3 DEF Undisturbed
<1>4. ASSUME NEW d \in Dispatchers, Settle(d)
      PROVE  Undisturbed(e)
  <2>1. outbox'[e] # "NONE"
    BY <1>4 DEF Settle, NextStatus, TypeOK
  <2> QED
    BY <1>4, <2>1 DEF Settle, Undisturbed
<1>5. ASSUME NEW d \in Dispatchers, DispatcherStep(d) \/ LoseBatch(d), ~Settle(d)
      PROVE  UNCHANGED <<outbox, steady, endpoint>>
  BY <1>5 DEF DispatcherStep, Poll, ReadEndpoints, ReadAttempts,
              PassOver, Post, RecordAttempt, LoseBatch, dbVars
<1>6. CASE \E ep \in Endpoints : createEndpoint(ep) \/ updateEndpoint(ep) \/ deleteEndpoint(ep)
  BY <1>2, <1>6 DEF createEndpoint, updateEndpoint, deleteEndpoint
<1>7. CASE \/ \E ep \in Endpoints, x \in Tests : sendTestDelivery(ep, x)
           \/ \E c \in Callers : RetryRead(c) \/ RetryCreate(c)
           \/ UNCHANGED vars
  BY <1>3, <1>7 DEF sendTestDelivery, RetryRead, RetryCreate, vars, dbVars
<1> QED
  BY <1>1, <1>3, <1>4, <1>5, <1>6, <1>7 DEF Next

(* A steady endpoint has been listening since its event was announced. *)
LEMMA SteadyStep ==
  ASSUME TypeOK, SteadyListens, [Next]_vars
  PROVE  SteadyListens'
<1> SUFFICES ASSUME NEW e \in Events, NEW ep \in steady'[e]
             PROVE  outbox'[e] # "NONE" /\ Listens(ep, e)'
  BY DEF SteadyListens
<1>1. CASE outbox[e] # "NONE"
  <2>1. outbox'[e] # "NONE" /\ ep \in steady[e] /\ endpoint'[ep] = endpoint[ep]
    BY <1>1, SteadyUndisturbed DEF Undisturbed
  <2> QED
    BY <2>1 DEF SteadyListens, Listens
<1>2. CASE outbox[e] = "NONE"
  <2>1. steady[e] = {}
    BY <1>2 DEF SteadyListens
  <2>2. CASE Announce(e)
    BY <2>2 DEF Announce, Listens, TypeOK
  <2>3. ASSUME NEW x \in Events, x # e, Announce(x)
        PROVE  steady'[e] = {}
    BY <2>1, <2>3 DEF Announce, TypeOK
  <2>4. ASSUME NEW p \in Endpoints, createEndpoint(p) \/ updateEndpoint(p) \/ deleteEndpoint(p)
        PROVE  steady'[e] = {}
    BY <2>1, <2>4 DEF createEndpoint, updateEndpoint, deleteEndpoint, SetEndpoint
  <2>5. ASSUME NEW d \in Dispatchers, DispatcherStep(d) \/ LoseBatch(d)
        PROVE  steady' = steady
    BY <2>5 DEF DispatcherStep, Poll, ReadEndpoints, ReadAttempts, Settle,
                PassOver, Post, RecordAttempt, LoseBatch
  <2> QED
    BY <2>1, <2>2, <2>3, <2>4, <2>5
    DEF Next, sendTestDelivery, RetryRead, RetryCreate, vars
<1> QED
  BY <1>1, <1>2

(* What has been tried stays tried. *)
LEMMA TriedKept ==
  ASSUME delivery \subseteq delivery', NEW ep, endpoint'[ep] = endpoint[ep],
         NEW v, NEW w, Tried(v, ep), v.event = w.event, v.results \subseteq w.results
  PROVE  Tried(w, ep)'
<1>1. \A row \in RowsOf(ep, v.event) : row \in RowsOf(ep, w.event)'
  BY DEF RowsOf
<1> QED
  BY <1>1 DEF Tried

(* A worker that does nothing keeps its place. *)
LEMMA OthersTurn ==
  ASSUME IInv, [Next]_vars, NEW w \in WorkerType, TurnOf(w)
  PROVE  TurnOf(w)'
<1>0. delivery \subseteq delivery'
  BY TableGrows
<1>1. \A e \in w.batch : e \in Events /\ Undisturbed(e)
  BY SteadyUndisturbed DEF TurnOf, WorkerType, IInv
<1>2. \A e \in w.batch : outbox'[e] # "NONE"
  BY <1>1 DEF Undisturbed
<1>3. ASSUME w.pc \in {"attempts", "send", "record"}, NEW ep \in steady'[w.event]
      PROVE  w.limit[ep] = endpoint'[ep].maxRetries /\ (ep \in w.todo \/ Tried(w, ep)')
  <2>1. Undisturbed(w.event)
    BY <1>1, <1>3 DEF TurnOf
  <2>2. ep \in steady[w.event] /\ endpoint'[ep] = endpoint[ep]
    BY <1>3, <2>1 DEF Undisturbed
  <2>3. w.limit[ep] = endpoint[ep].maxRetries /\ (ep \in w.todo \/ Tried(w, ep))
    BY <1>3, <2>2 DEF TurnOf
  <2> QED
    BY <1>0, <2>2, <2>3, TriedKept
<1> QED
  BY <1>2, <1>3 DEF TurnOf

(* A worker that goes on serves the endpoints of its event in turn. *)
LEMMA OwnTurn ==
  ASSUME IInv, [Next]_vars, NEW d \in Dispatchers, DispatcherStep(d) \/ LoseBatch(d)
  PROVE  TurnOf(worker[d])'
<1>0. PICK v, u : v = worker[d] /\ u = worker'[d]
  OBVIOUS
<1> SUFFICES TurnOf(u)'
  BY <1>0 DEF TurnOf, Tried, RowsOf
<1>1. v \in WorkerType /\ TurnOf(v) /\ ReadsOf(v) /\ worker \in [Dispatchers -> WorkerType]
  BY <1>0 DEF IInv, TypeOK, InTurn, ReadsLast
<1>2. TurnOf(v)'
  BY <1>1, OthersTurn
<1>3. delivery \subseteq delivery'
  BY TableGrows
<1>4. CASE Poll(d) \/ Settle(d) \/ LoseBatch(d)
  <2>1. CASE u = IdleWorker
    BY <2>1 DEF TurnOf, IdleWorker
  <2>2. ASSUME NEW batch \in SUBSET (Pending \cup v.batch), NEW e \in batch, u = Started(batch, e)
        PROVE  TurnOf(u)'
    <3>1. ASSUME NEW x \in batch
          PROVE  outbox'[x] # "NONE"
      <4>1. x \in Events /\ outbox[x] # "NONE"
        BY <1>1 DEF Pending, TurnOf, WorkerType
      <4> QED
        BY <4>1, SteadyUndisturbed DEF Undisturbed, IInv
    <3> QED
      BY <2>2, <3>1, StartedFields DEF TurnOf
  <2> QED
    BY <1>0, <1>4, <2>1, <2>2, Afresh DEF IInv
<1>6. CASE ReadEndpoints(d)
  <2>1. /\ u.batch = v.batch /\ u.event = v.event /\ v.pc = "endpoints"
        /\ u.todo = {ep \in Endpoints : Listens(ep, v.event)}
        /\ u.limit = [ep \in Endpoints |-> endpoint[ep].maxRetries]
    BY <1>0, <1>1, <1>6 DEF ReadEndpoints, WorkerType
  <2>2. steady' = steady /\ endpoint' = endpoint /\ v.event \in Events
    BY <1>1, <1>6 DEF ReadEndpoints, dbVars, WorkerType
  <2>3. ASSUME NEW ep \in steady'[u.event]
        PROVE  u.limit[ep] = endpoint'[ep].maxRetries /\ ep \in u.todo
    <3>1. ep \in Endpoints /\ Listens(ep, v.event)
      BY <2>1, <2>2, <2>3 DEF IInv, TypeOK, InTurn, SteadyListens
    <3> QED
      BY <2>1, <2>2, <3>1
  <2> QED
    BY <1>2, <2>1, <2>3 DEF TurnOf
<1>7. CASE ReadAttempts(d) \/ \E ep \in Endpoints : Post(d, ep)
  <2>1. /\ u.batch = v.batch /\ u.event = v.event /\ u.todo = v.todo
        /\ u.limit = v.limit /\ u.results = v.results /\ v.pc \in {"attempts", "send"}
    <3>1. CASE ReadAttempts(d)
      BY <1>0, <1>1, <3>1 DEF ReadAttempts, WorkerType
    <3>2. CASE \E ep \in Endpoints : Post(d, ep)
      BY <1>0, <1>1, <3>2 DEF Post, WorkerType
    <3> QED
      BY <1>7, <3>1, <3>2
  <2> QED
    BY <1>2, <2>1 DEF TurnOf, Tried
<1>8. ASSUME NEW ep \in Endpoints, NEW result,
             u.batch = v.batch, u.event = v.event, u.limit = v.limit,
             u.todo = v.todo \ {ep}, u.results = v.results \cup {result},
             v.pc \in {"send", "record"},
             ep \in steady'[v.event] => Tried(u, ep)'
      PROVE  TurnOf(u)'
  <2>1. ASSUME NEW p \in steady'[u.event]
        PROVE  u.limit[p] = endpoint'[p].maxRetries /\ (p \in u.todo \/ Tried(u, p)')
    <3>1. v.limit[p] = endpoint'[p].maxRetries /\ (p \in v.todo \/ Tried(v, p)')
      BY <1>2, <1>8, <2>1 DEF TurnOf
    <3>2. Tried(v, p)' => Tried(u, p)'
      BY <1>8 DEF Tried
    <3> QED
      BY <1>8, <2>1, <3>1, <3>2
  <2> QED
    BY <1>2, <1>8, <2>1 DEF TurnOf
<1>9. ASSUME NEW ep \in Endpoints, PassOver(d, ep)
      PROVE  TurnOf(u)'
  <2>1. PICK result \in Decisions(v.latest[ep], v.limit[ep]) \ {"ATTEMPT"} :
          worker' = [worker EXCEPT ![d].todo = @ \ {ep}, ![d].results = @ \cup {result}]
    BY <1>0, <1>9 DEF PassOver, DecisionFor
  <2>2. /\ u.batch = v.batch /\ u.event = v.event /\ u.limit = v.limit /\ v.pc = "send"
        /\ u.todo = v.todo \ {ep} /\ u.results = v.results \cup {result}
    BY <1>0, <1>1, <1>9, <2>1 DEF PassOver, WorkerType
  <2>3. ASSUME ep \in steady'[v.event]
        PROVE  Tried(u, ep)'
    <3> DEFINE last == v.latest[ep]
               row == Row(ep, v.event, last.attempt, last.ok)
    <3>1. last.attempt \in Nat /\ last.ok \in BOOLEAN /\ v.limit[ep] \in Nat
      BY <1>1 DEF WorkerType
    <3>2. v.limit[ep] = endpoint'[ep].maxRetries
      BY <1>2, <2>2, <2>3 DEF TurnOf
    <3>3. last.attempt # 0
      BY <2>1 DEF Decisions
    <3>4. row \in RowsOf(ep, u.event)' /\ row.attempt = last.attempt /\ row.ok = last.ok
      BY <1>1, <1>3, <2>2, <3>3 DEF ReadsOf, RowsOf, Row
    <3>5. CASE last.ok
      BY <3>4, <3>5 DEF Tried
    <3>6. CASE ~last.ok /\ last.attempt >= v.limit[ep] + 1
      <4>1. result = "FAILED_EXHAUSTED"
        BY <2>1, <3>3, <3>6 DEF Decisions
      <4>2. last.attempt > endpoint'[ep].maxRetries
        BY <3>1, <3>2, <3>6
      <4> QED
        BY <2>2, <3>4, <4>1, <4>2 DEF Tried
    <3>7. CASE ~last.ok /\ ~(last.attempt >= v.limit[ep] + 1)
      <4>1. result = "DEFERRED"
        BY <2>1, <3>3, <3>7 DEF Decisions
      <4> QED
        BY <2>2, <4>1 DEF Tried
    <3> QED
      BY <3>5, <3>6, <3>7
  <2> QED
    BY <1>8, <2>2, <2>3
<1>10. CASE RecordAttempt(d)
  <2> DEFINE ep == v.target
             result == IF ~Insertable(v.target, v.event, v.attempt) THEN "DEFERRED"
                       ELSE IF v.ok THEN "SUCCESS" ELSE "FAILED_RETRYABLE"
  <2>1. /\ u.batch = v.batch /\ u.event = v.event /\ u.limit = v.limit /\ v.pc = "record"
        /\ u.todo = v.todo \ {ep} /\ u.results = v.results \cup {result} /\ ep \in Endpoints
    BY <1>0, <1>1, <1>10 DEF RecordAttempt, WorkerType
  <2>2. Tried(u, ep)'
    <3>1. CASE result \in {"DEFERRED", "FAILED_RETRYABLE"}
      <4> HIDE DEF result
      <4> QED
        BY <2>1, <3>1 DEF Tried
    <3>2. CASE Insertable(v.target, v.event, v.attempt) /\ v.ok
      <4>1. Row(ep, v.event, v.attempt, v.ok) \in delivery'
        BY <1>0, <1>10, <3>2 DEF RecordAttempt
      <4>2. Row(ep, v.event, v.attempt, v.ok) \in RowsOf(ep, u.event)'
        BY <2>1, <4>1 DEF RowsOf, Row
      <4>3. Row(ep, v.event, v.attempt, v.ok).ok
        BY <3>2 DEF Row
      <4> QED
        BY <4>2, <4>3 DEF Tried
    <3> QED
      BY <3>1, <3>2
  <2> HIDE DEF ep, result
  <2> QED
    BY <1>8, <2>1, <2>2
<1> QED
  BY <1>4, <1>6, <1>7, <1>9, <1>10 DEF DispatcherStep

(* Whoever works on whatever, all keep their place. *)
LEMMA TurnStep ==
  ASSUME IInv, [Next]_vars
  PROVE  InTurn'
<1>1. SteadyListens'
  BY SteadyStep DEF IInv, InTurn
<1>2. ASSUME NEW d \in Dispatchers, worker'[d] = worker[d]
      PROVE  TurnOf(worker[d])'
  <2>1. PICK w : w = worker[d]
    OBVIOUS
  <2>2. TurnOf(w)'
    BY <2>1, OthersTurn DEF IInv, InTurn, TypeOK
  <2> QED
    BY <1>2, <2>1, <2>2 DEF TurnOf, Tried, RowsOf
<1>3. ASSUME NEW d \in Dispatchers, worker'[d] # worker[d]
      PROVE  DispatcherStep(d) \/ LoseBatch(d)
  <2>1. ASSUME NEW x \in Dispatchers, x # d, DispatcherStep(x) \/ LoseBatch(x)
        PROVE  worker'[d] = worker[d]
    BY <2>1 DEF DispatcherStep, Poll, ReadEndpoints, ReadAttempts, Settle,
                NextEvent, PassOver, Post, RecordAttempt, LoseBatch, IInv, TypeOK
  <2> QED
    BY <1>3, <2>1 DEF Next, Announce, createEndpoint, updateEndpoint, deleteEndpoint,
                SetEndpoint, sendTestDelivery, RetryRead, RetryCreate, vars
<1> QED
  BY <1>1, <1>2, <1>3, OwnTurn DEF InTurn

(* An event is settled when all its steady endpoints have been tried. *)
LEMMA SettledStep ==
  ASSUME IInv, [Next]_vars
  PROVE  SettledMeansTried'
<1> SUFFICES ASSUME NEW e \in Events, NEW ep \in steady'[e]
             PROVE  /\ outbox'[e] = "PUBLISHED" => \E row \in RowsOf(ep, e)' : row.ok
                    /\ outbox'[e] = "DEAD" => \E row \in RowsOf(ep, e)' :
                            row.ok \/ row.attempt > endpoint'[ep].maxRetries
  BY DEF SettledMeansTried
<1>0. RowsOf(ep, e) \subseteq RowsOf(ep, e)'
  BY TableGrows DEF RowsOf
<1>1. CASE outbox'[e] = outbox[e]
  <2>1. CASE outbox[e] = "NONE"
    BY <1>1, <2>1
  <2>2. CASE outbox[e] # "NONE"
    <3>1. ep \in steady[e] /\ endpoint'[ep] = endpoint[ep]
      BY <2>2, SteadyUndisturbed DEF Undisturbed, IInv
    <3> QED
      BY <1>0, <1>1, <3>1 DEF IInv, SettledMeansTried
  <2> QED
    BY <2>1, <2>2
<1>2. ASSUME NEW d \in Dispatchers, Settle(d), worker[d].event = e
      PROVE  /\ outbox'[e] = "PUBLISHED" => \E row \in RowsOf(ep, e)' : row.ok
             /\ outbox'[e] = "DEAD" => \E row \in RowsOf(ep, e)' :
                    row.ok \/ row.attempt > endpoint'[ep].maxRetries
  <2>1. outbox'[e] = NextStatus(worker[d].results)
    BY <1>2 DEF Settle, IInv, TypeOK
  <2>2. ep \in steady[e] /\ endpoint' = endpoint /\ worker[d].todo = {} /\ worker[d].pc = "send"
    BY <1>2 DEF Settle
  <2>3. Tried(worker[d], ep)
    BY <1>2, <2>2 DEF IInv, InTurn, TurnOf
  <2> QED
    BY <1>0, <1>2, <2>1, <2>2, <2>3 DEF NextStatus, Tried
<1>3. ASSUME NEW x \in Events, Announce(x)
      PROVE  outbox'[e] = outbox[e] \/ outbox'[e] = "PENDING"
  BY <1>3 DEF Announce, IInv, TypeOK
<1>4. ASSUME NEW d \in Dispatchers, Settle(d), worker[d].event # e
      PROVE  outbox'[e] = outbox[e]
  BY <1>4 DEF Settle, IInv, TypeOK
<1>5. ASSUME NEW d \in Dispatchers, DispatcherStep(d) \/ LoseBatch(d), ~Settle(d)
      PROVE  outbox' = outbox
  BY <1>5 DEF DispatcherStep, Poll, ReadEndpoints, ReadAttempts,
              PassOver, Post, RecordAttempt, LoseBatch, dbVars
<1>6. CASE \/ \E p \in Endpoints : createEndpoint(p) \/ updateEndpoint(p) \/ deleteEndpoint(p)
           \/ \E p \in Endpoints, x \in Tests : sendTestDelivery(p, x)
           \/ \E c \in Callers : RetryRead(c) \/ RetryCreate(c)
           \/ UNCHANGED vars
  BY <1>1, <1>6 DEF createEndpoint, updateEndpoint, deleteEndpoint, SetEndpoint,
                    sendTestDelivery, RetryRead, RetryCreate, vars, dbVars
<1> QED
  BY <1>1, <1>2, <1>3, <1>4, <1>5, <1>6 DEF Next

(* The invariant holds at the start ... *)
LEMMA InitInv == Init => IInv
<1> SUFFICES ASSUME Init
             PROVE  IInv
  OBVIOUS
<1>1. TypeOK
  BY InitTyped
<1>2. LogLinear /\ IsFiniteSet(delivery)
  BY FS_EmptySet DEF Init, LogLinear
<1>3. SettledMeansTried /\ SteadyListens
  BY DEF Init, SettledMeansTried, SteadyListens
<1>4. ReadsLast
  BY DEF Init, ReadsLast, ReadsOf, IdleWorker, IdleCall, NoAttempt
<1>5. \A d \in Dispatchers : TurnOf(worker[d])
  BY DEF Init, TurnOf, IdleWorker
<1> QED
  BY <1>1, <1>2, <1>3, <1>4, <1>5 DEF IInv, InTurn

(* ... and every step keeps it. *)
LEMMA StepInv == IInv /\ [Next]_vars => IInv'
<1> SUFFICES ASSUME IInv, [Next]_vars
             PROVE  IInv'
  OBVIOUS
<1>1. TypeOK'
  BY StepTyped DEF IInv
<1>2. LogLinear' /\ IsFiniteSet(delivery)'
  BY TableGrows
<1> QED
  BY <1>1, <1>2, ReadsStep, TurnStep, SettledStep DEF IInv

LEMMA Invariance == Spec => []IInv
<1> QED
  BY InitInv, StepInv, PTL DEF Spec

(* However many dispatchers and manual retries race: the attempts of an    *)
(* endpoint at an event are numbered 1, 2, ... and end with the success.   *)
THEOREM LogIsLinear == Spec => []LogLinear
<1>1. IInv => LogLinear
  BY DEF IInv
<1> QED
  BY <1>1, Invariance, PTL

(* No dispatcher, however stale its reads, settles an event over a steady  *)
(* endpoint that is owed an attempt.                                       *)
THEOREM SettledIsTried == Spec => []SettledMeansTried
<1>1. IInv => SettledMeansTried
  BY DEF IInv
<1> QED
  BY <1>1, Invariance, PTL
-----------------------------------------------------------------------------
(* Refinement.                                                             *)

Pairs == Endpoints \X (Events \cup Tests)

(* A row added for one pair leaves the rows of the others as they are.     *)
LEMMA RowsAdded ==
  ASSUME TypeOK, NEW ep, NEW ev, NEW n, NEW ok, Extends(ep, ev, n, ok), NEW p \in Pairs
  PROVE  RowsOf(p[1], p[2])' = IF p = <<ep, ev>>
                               THEN RowsOf(p[1], p[2]) \cup {Row(ep, ev, n, ok)}
                               ELSE RowsOf(p[1], p[2])
<1>1. p = <<p[1], p[2]>>
  BY DEF Pairs
<1>2. p = <<ep, ev>> <=> p[1] = ep /\ p[2] = ev
  BY <1>1
<1>3. delivery' = delivery \cup {Row(ep, ev, n, ok)}
  BY DEF Extends
<1> QED
  BY <1>2, <1>3 DEF RowsOf, Row

(* Recording an attempt is a step of the log: a failure or the success of  *)
(* a pair that has had none.                                               *)
LEMMA RecordingIsLogged ==
  ASSUME IInv, NEW ep, NEW ev, NEW n, NEW ok, Extends(ep, ev, n, ok)
  PROVE  Log!Next
<1> DEFINE new    == Row(ep, ev, n, ok)
           pair   == <<ep, ev>>
           fails(p) == Cardinality({row \in RowsOf(p[1], p[2]) : ~row.ok})
           good(p)  == \E row \in RowsOf(p[1], p[2]) : row.ok
<1>1. pair \in Pairs /\ pair[1] = ep /\ pair[2] = ev /\ new.ok = ok /\ ok \in BOOLEAN
  BY DEF Pairs, Extends, Row
<1>2. ~good(pair) /\ new \notin RowsOf(ep, ev)
  <2>1. \A row \in RowsOf(ep, ev) : ~row.ok
    BY FailuresBefore DEF IInv
  <2>2. new \notin RowsOf(ep, ev)
    BY DEF Extends, Recorded, Row
  <2> QED
    BY <1>1, <2>1, <2>2
<1>3. \A p \in Pairs : p # pair => fails(p)' = fails(p) /\ good(p)' = good(p)
  BY RowsAdded DEF IInv
<1>4. RowsOf(ep, ev)' = RowsOf(ep, ev) \cup {new}
  BY DEF Extends, RowsOf, Row
<1>5. CASE ok
  <2>1. {row \in RowsOf(ep, ev) : ~row.ok}' = {row \in RowsOf(ep, ev) : ~row.ok}
    BY <1>1, <1>4, <1>5
  <2>2. fails(pair)' = fails(pair) /\ good(pair)' = TRUE
    BY <1>1, <1>4, <1>5, <2>1
  <2>3. [p \in Pairs |-> good(p)]' = [[p \in Pairs |-> good(p)] EXCEPT ![pair] = TRUE]
    BY <1>1, <1>3, <2>2
  <2>4. [p \in Pairs |-> fails(p)]' = [p \in Pairs |-> fails(p)]
    BY <1>3, <2>2
  <2>5. Log!RecordSuccess(pair)
    BY <1>1, <1>2, <2>3, <2>4 DEF Log!RecordSuccess, Pairs
  <2> QED
    BY <1>1, <2>5 DEF Log!Next, Pairs
<1>6. CASE ~ok
  <2>1. {row \in RowsOf(ep, ev) : ~row.ok}' = {row \in RowsOf(ep, ev) : ~row.ok} \cup {new}
    BY <1>1, <1>4, <1>6
  <2>2. IsFiniteSet({row \in RowsOf(ep, ev) : ~row.ok})
    BY FS_Subset DEF IInv, RowsOf
  <2>3. fails(pair)' = fails(pair) + 1
    BY <1>1, <1>2, <2>1, <2>2, FS_AddElement
  <2>4. good(pair)' = good(pair)
    BY <1>1, <1>4, <1>6
  <2>5. [p \in Pairs |-> fails(p)]' = [[p \in Pairs |-> fails(p)] EXCEPT ![pair] = @ + 1]
    BY <1>1, <1>3, <2>3
  <2>6. [p \in Pairs |-> good(p)]' = [p \in Pairs |-> good(p)]
    BY <1>3, <2>4
  <2>7. Log!RecordFailure(pair)
    BY <1>1, <1>2, <2>5, <2>6 DEF Log!RecordFailure, Pairs
  <2> QED
    BY <1>1, <2>7 DEF Log!Next, Pairs
<1> QED
  BY <1>1, <1>5, <1>6

(* Every other step is invisible to the log. *)
LEMMA StepIsLogged == IInv /\ [Next]_vars => [Log!Next]_(Log!vars)
<1> SUFFICES ASSUME IInv, [Next]_vars
             PROVE  [Log!Next]_(Log!vars)
  OBVIOUS
<1>1. CASE delivery' = delivery
  <2>1. \A ep, ev : RowsOf(ep, ev)' = RowsOf(ep, ev)
    BY <1>1 DEF RowsOf
  <2> QED
    BY <2>1 DEF Log!vars
<1>2. ASSUME NEW ep, NEW ev, NEW n, NEW ok, Extends(ep, ev, n, ok)
      PROVE  Log!Next
  BY <1>2, RecordingIsLogged
<1> QED
  BY <1>1, <1>2, TableSteps

(* The table of deliveries, with all who write to it, implements           *)
(* DeliveryLog: failures, then at most one success, and nothing is undone. *)
THEOREM ImplementsLog == Spec => ImplementsDeliveryLog
<1>1. Init => Log!Init
  <2> SUFFICES ASSUME Init
               PROVE  Log!Init
    OBVIOUS
  <2>1. \A ep, ev : RowsOf(ep, ev) = {}
    BY DEF Init, RowsOf
  <2>2. \A ep, ev : {row \in RowsOf(ep, ev) : ~row.ok} = {}
    BY <2>1
  <2> QED
    BY <2>1, <2>2, FS_EmptySet DEF Log!Init
<1> QED
  BY <1>1, StepIsLogged, Invariance, PTL DEF Spec, ImplementsDeliveryLog, Log!Spec
=============================================================================
