--------------------------- MODULE WebhookDelivery ---------------------------
(***************************************************************************)
(* Webhook dispatchers that poll the outbox and POST to the customers'     *)
(* endpoints, and the API by which customers manage endpoints and retry    *)
(* deliveries.  Each database call or HTTP request is one step; between    *)
(* two of them other dispatchers and API calls run.                        *)
(***************************************************************************)
EXTENDS Naturals, FiniteSets

CONSTANTS
    Events,       \* outbox rows for webhooks, in order of createdAt
    Tests,        \* event ids that sendTestDelivery makes up
    Endpoints,    \* webhook endpoints of one user
    Dispatchers,  \* dispatcher processes
    Callers,      \* retry requests of the API, each made at most once
    MaxRetries,   \* largest maxRetries of an endpoint
    BatchSize,    \* WEBHOOK_DISPATCHER_BATCH_SIZE
    MaxEdits,     \* bound: endpoint creations, updates and deletions
    MaxFaults     \* bound: batches lost to an error or a crash

ASSUME EventsAssumption == Events \subseteq Nat /\ Events # {} /\ Events \cap Tests = {}
ASSUME EndpointsAssumption == Endpoints # {}
ASSUME LimitsAssumption ==
    /\ MaxRetries \in Nat
    /\ BatchSize \in Nat \ {0}
    /\ MaxEdits \in Nat
    /\ MaxFaults \in Nat

VARIABLES
    outbox,    \* OutboxEvent.status, "NONE" before the row exists
    endpoint,  \* WebhookEndpoint rows
    delivery,  \* WebhookDelivery rows
    worker,    \* dispatchPendingEvents, per dispatcher
    call,      \* retryDelivery, per call
    steady,    \* history: endpoints subscribed at the event and unchanged since
    edits, faults

dbVars == <<outbox, endpoint, delivery>>
vars   == <<dbVars, worker, call, steady, edits, faults>>

-----------------------------------------------------------------------------
Row(ep, ev, attempt, ok) ==
    [endpoint |-> ep, event |-> ev, attempt |-> attempt, ok |-> ok]

EndpointStatus == {"ABSENT", "ACTIVE", "PAUSED", "DELETED"}
NoAttempt      == [attempt |-> 0, ok |-> FALSE]
NoEndpoint     == [status |-> "ABSENT", events |-> {}, maxRetries |-> 0]

WorkerPc == {"idle", "endpoints", "attempts", "send", "record"}
Result   == {"SKIP_SUCCESS", "DEFERRED", "FAILED_EXHAUSTED", "SUCCESS", "FAILED_RETRYABLE"}
AnyEvent == CHOOSE e \in Events : TRUE
AnyEndpoint == CHOOSE ep \in Endpoints : TRUE

IdleWorker ==
    [pc |-> "idle", batch |-> {}, event |-> AnyEvent,
     todo |-> {}, limit |-> [ep \in Endpoints |-> 0],
     latest |-> [ep \in Endpoints |-> NoAttempt],
     results |-> {}, target |-> AnyEndpoint, attempt |-> 1, ok |-> FALSE]

Started(batch, e) == [IdleWorker EXCEPT !.pc = "endpoints", !.batch = batch, !.event = e]

IdleCall == [pc |-> "new", row |-> Row(AnyEndpoint, AnyEvent, 1, FALSE), ok |-> FALSE]

Init ==
    /\ outbox = [e \in Events |-> "NONE"]
    /\ endpoint = [ep \in Endpoints |-> NoEndpoint]
    /\ delivery = {}
    /\ worker = [d \in Dispatchers |-> IdleWorker]
    /\ call = [c \in Callers |-> IdleCall]
    /\ steady = [e \in Events |-> {}]
    /\ edits = 0
    /\ faults = 0

-----------------------------------------------------------------------------
(* The database.                                                           *)

RowsOf(ep, ev) == {row \in delivery : row.endpoint = ep /\ row.event = ev}

(* uk_webhook_endpoint_event_attempt *)
Recorded(ep, ev, n) == \E row \in RowsOf(ep, ev) : row.attempt = n

(* The first row of findMany ordered by attempt desc; attempt 0: no row. *)
LatestAttempt(ep, ev) ==
    LET newest == {row \in RowsOf(ep, ev) :
                        \A other \in RowsOf(ep, ev) : other.attempt <= row.attempt}
        last   == CHOOSE row \in newest : TRUE
    IN  IF newest = {} THEN NoAttempt ELSE [attempt |-> last.attempt, ok |-> last.ok]

Listens(ep, ev) == endpoint[ep].status = "ACTIVE" /\ ev \in endpoint[ep].events

-----------------------------------------------------------------------------
(* The producers.                                                          *)

(* tx.outboxEvent.create of task.succeeded, task.failed, task.canceled or  *)
(* subscription.activated.                                                 *)
Announce(e) ==
    /\ outbox[e] = "NONE"
    /\ \A earlier \in Events : earlier < e => outbox[earlier] # "NONE"
    /\ outbox' = [outbox EXCEPT ![e] = "PENDING"]
    /\ steady' = [steady EXCEPT ![e] = {ep \in Endpoints : Listens(ep, e)}]
    /\ UNCHANGED <<endpoint, delivery, worker, call, edits, faults>>

-----------------------------------------------------------------------------
(* The webhooks API.                                                       *)

SetEndpoint(ep, record) ==
    /\ edits < MaxEdits
    /\ edits' = edits + 1
    /\ endpoint' = [endpoint EXCEPT ![ep] = record]
    /\ steady' = [e \in Events |-> steady[e] \ {ep}]
    /\ UNCHANGED <<outbox, delivery, worker, call, faults>>

createEndpoint(ep) ==
    /\ endpoint[ep].status = "ABSENT"
    /\ \E events \in SUBSET Events, n \in 0..MaxRetries :
        SetEndpoint(ep, [status |-> "ACTIVE", events |-> events, maxRetries |-> n])

updateEndpoint(ep) ==
    /\ endpoint[ep].status \in {"ACTIVE", "PAUSED"}
    /\ \E status \in {"ACTIVE", "PAUSED"}, events \in SUBSET Events, n \in 0..MaxRetries :
        SetEndpoint(ep, [status |-> status, events |-> events, maxRetries |-> n])

deleteEndpoint(ep) ==
    /\ endpoint[ep].status \in {"ACTIVE", "PAUSED"}
    /\ SetEndpoint(ep, [endpoint[ep] EXCEPT !.status = "DELETED"])

(* The API posts nothing: a delivery of an active endpoint is recorded as  *)
(* a success, unless its url says "fail".                                  *)
SimulatedOutcome(ep) == IF endpoint[ep].status = "ACTIVE" THEN {TRUE, FALSE} ELSE {FALSE}

sendTestDelivery(ep, e) ==
    /\ endpoint[ep].status \in {"ACTIVE", "PAUSED"}
    /\ \A row \in delivery : row.event # e
    /\ \E ok \in SimulatedOutcome(ep) : delivery' = delivery \cup {Row(ep, e, 1, ok)}
    /\ UNCHANGED <<outbox, endpoint, worker, call, steady, edits, faults>>

(* Mutant: a delivery in any status may be retried. *)
RetryableRowAny(row) == TRUE

RetryableRow(row) == ~row.ok

(* retryDelivery reads the delivery and its endpoint ... *)
RetryRead(c) ==
    /\ call[c].pc = "new"
    /\ \E row \in delivery :
        /\ RetryableRow(row)
        /\ endpoint[row.endpoint].status \in {"ACTIVE", "PAUSED"}
        /\ \E ok \in SimulatedOutcome(row.endpoint) :
            call' = [call EXCEPT ![c] = [pc |-> "create", row |-> row, ok |-> ok]]
    /\ UNCHANGED <<dbVars, worker, steady, edits, faults>>

(* ... and records the next attempt; when there is one, it gives up.       *)
RetryCreate(c) ==
    LET row  == call[c].row
        next == row.attempt + 1
    IN  /\ call[c].pc = "create"
        /\ call' = [call EXCEPT ![c] = [IdleCall EXCEPT !.pc = "done"]]
        /\ delivery' = IF Recorded(row.endpoint, row.event, next)
                       THEN delivery
                       ELSE delivery \cup {Row(row.endpoint, row.event, next, call[c].ok)}
        /\ UNCHANGED <<outbox, endpoint, worker, steady, edits, faults>>

-----------------------------------------------------------------------------
(* The dispatchers.                                                        *)

Pending == {e \in Events : outbox[e] = "PENDING"}

(* The loop over the events goes on with the oldest of those left. *)
NextEvent(d, batch) ==
    \E e \in batch :
        /\ \A f \in batch : e <= f
        /\ worker' = [worker EXCEPT ![d] = Started(batch, e)]

(* findMany PENDING, createdAt asc, take batchSize *)
Poll(d) ==
    /\ worker[d].pc = "idle"
    /\ NextEvent(d, {e \in Pending : Cardinality({f \in Pending : f < e}) < BatchSize})
    /\ UNCHANGED <<dbVars, call, steady, edits, faults>>

(* webhookEndpoint.findMany; without a subscriber the event is settled     *)
(* after the last of no attempts.                                          *)
ReadEndpoints(d) ==
    /\ worker[d].pc = "endpoints"
    /\ worker' = [worker EXCEPT
            ![d].pc = "attempts",
            ![d].todo = {ep \in Endpoints : Listens(ep, worker[d].event)},
            ![d].limit = [ep \in Endpoints |-> endpoint[ep].maxRetries]]
    /\ UNCHANGED <<dbVars, call, steady, edits, faults>>

(* webhookDelivery.findMany: once, before the first attempt of the event.  *)
ReadAttempts(d) ==
    /\ worker[d].pc = "attempts"
    /\ worker' = [worker EXCEPT
            ![d].pc = "send",
            ![d].latest = [ep \in Endpoints |-> LatestAttempt(ep, worker[d].event)]]
    /\ UNCHANGED <<dbVars, call, steady, edits, faults>>

(* decideNextAttempt.  Whether a retry is due yet is up to the clock.      *)
Decisions(latest, limit) ==
    IF latest.attempt = 0 THEN {"ATTEMPT"}
    ELSE IF latest.ok THEN {"SKIP_SUCCESS"}
    ELSE IF latest.attempt >= limit + 1 THEN {"FAILED_EXHAUSTED"}
    ELSE {"DEFERRED", "ATTEMPT"}

DecisionFor(d, ep) == Decisions(worker[d].latest[ep], worker[d].limit[ep])

(* An endpoint that gets no attempt this time. *)
PassOver(d, ep) ==
    /\ worker[d].pc = "send"
    /\ ep \in worker[d].todo
    /\ \E decision \in DecisionFor(d, ep) \ {"ATTEMPT"} :
        worker' = [worker EXCEPT ![d].todo = @ \ {ep}, ![d].results = @ \cup {decision}]
    /\ UNCHANGED <<dbVars, call, steady, edits, faults>>

(* sendDeliveryAttempt: the POST, answered 2xx or not (in time) ... *)
Post(d, ep) ==
    /\ worker[d].pc = "send"
    /\ ep \in worker[d].todo
    /\ "ATTEMPT" \in DecisionFor(d, ep)
    /\ \E ok \in BOOLEAN :
        /\ worker' = [worker EXCEPT ![d].pc = "record",
                                    ![d].target = ep,
                                    ![d].attempt = worker[d].latest[ep].attempt + 1,
                                    ![d].ok = ok]
    /\ UNCHANGED <<dbVars, call, steady, edits, faults>>

(* Mutant: no unique index. *)
InsertableAlways(ep, ev, n) == TRUE

Insertable(ep, ev, n) == ~Recorded(ep, ev, n)

(* ... and its record, which another dispatcher may have made meanwhile.   *)
RecordAttempt(d) ==
    LET w  == worker[d]
        ok == Insertable(w.target, w.event, w.attempt)
        result == IF ~ok THEN "DEFERRED" ELSE IF w.ok THEN "SUCCESS" ELSE "FAILED_RETRYABLE"
    IN  /\ w.pc = "record"
        /\ delivery' = IF ok THEN delivery \cup {Row(w.target, w.event, w.attempt, w.ok)}
                             ELSE delivery
        /\ worker' = [worker EXCEPT ![d] =
                [w EXCEPT !.pc = "send", !.todo = @ \ {w.target}, !.results = @ \cup {result},
                          !.target = AnyEndpoint, !.attempt = 1, !.ok = FALSE]]
        /\ UNCHANGED <<outbox, endpoint, call, steady, edits, faults>>

(* Mutants: a deferred attempt is forgotten; an exhausted one is retried.  *)
NextStatusForgetful(results) ==
    IF "FAILED_RETRYABLE" \in results THEN "PENDING"
    ELSE IF "FAILED_EXHAUSTED" \in results THEN "DEAD" ELSE "PUBLISHED"
NextStatusStubborn(results) ==
    IF results \cap {"FAILED_RETRYABLE", "DEFERRED", "FAILED_EXHAUSTED"} # {}
    THEN "PENDING" ELSE "PUBLISHED"

NextStatus(results) ==
    IF results \cap {"FAILED_RETRYABLE", "DEFERRED"} # {} THEN "PENDING"
    ELSE IF "FAILED_EXHAUSTED" \in results THEN "DEAD"
    ELSE "PUBLISHED"

(* The end of handleOutboxEvent: an update whatever the row says by now;   *)
(* then the next event of the batch.                                       *)
Settle(d) ==
    LET rest == worker[d].batch \ {worker[d].event}
    IN  /\ worker[d].pc = "send"
        /\ worker[d].todo = {}
        /\ outbox' = [outbox EXCEPT ![worker[d].event] = NextStatus(worker[d].results)]
        /\ \/ rest = {} /\ worker' = [worker EXCEPT ![d] = IdleWorker]
           \/ NextEvent(d, rest)
        /\ UNCHANGED <<endpoint, delivery, call, steady, edits, faults>>

(* A database error, or the end of the process: the rest of the batch is   *)
(* left to a later poll.                                                   *)
LoseBatch(d) ==
    /\ worker[d].pc # "idle"
    /\ faults < MaxFaults
    /\ faults' = faults + 1
    /\ worker' = [worker EXCEPT ![d] = IdleWorker]
    /\ UNCHANGED <<dbVars, call, steady, edits>>

-----------------------------------------------------------------------------
DispatcherStep(d) ==
    \/ Poll(d) \/ ReadEndpoints(d) \/ ReadAttempts(d)
    \/ RecordAttempt(d) \/ Settle(d)
    \/ \E ep \in Endpoints : PassOver(d, ep) \/ Post(d, ep)

Next ==
    \/ \E e \in Events : Announce(e)
    \/ \E ep \in Endpoints : createEndpoint(ep) \/ updateEndpoint(ep) \/ deleteEndpoint(ep)
    \/ \E ep \in Endpoints, e \in Tests : sendTestDelivery(ep, e)
    \/ \E c \in Callers : RetryRead(c) \/ RetryCreate(c)
    \/ \E d \in Dispatchers : DispatcherStep(d) \/ LoseBatch(d)

Spec == Init /\ [][Next]_vars

(* The poll loop goes on, and a retry that is not due yet falls due.       *)
FairSpec ==
    /\ Spec
    /\ \A d \in Dispatchers : WF_vars(DispatcherStep(d))
    /\ \A d \in Dispatchers, ep \in Endpoints : SF_vars(Post(d, ep))

-----------------------------------------------------------------------------
RowType == [endpoint : Endpoints, event : Events \cup Tests, attempt : Nat \ {0}, ok : BOOLEAN]
WorkerType ==
    [pc : WorkerPc, batch : SUBSET Events, event : Events,
     todo : SUBSET Endpoints, limit : [Endpoints -> 0..MaxRetries],
     latest : [Endpoints -> [attempt : Nat, ok : BOOLEAN]],
     results : SUBSET Result, target : Endpoints, attempt : Nat \ {0}, ok : BOOLEAN]
CallType == [pc : {"new", "create", "done"}, row : RowType, ok : BOOLEAN]
EndpointType ==
    [status : EndpointStatus, events : SUBSET Events, maxRetries : 0..MaxRetries]

(* The variables hold what the tables and the dispatchers hold.            *)
TypeOK ==
    /\ outbox \in [Events -> {"NONE", "PENDING", "PUBLISHED", "DEAD"}]
    /\ endpoint \in [Endpoints -> EndpointType]
    /\ delivery \subseteq RowType
    /\ worker \in [Dispatchers -> WorkerType]
    /\ call \in [Callers -> CallType]
    /\ steady \in [Events -> SUBSET Endpoints]
    /\ edits \in 0..MaxEdits
    /\ faults \in 0..MaxFaults

(* Attempts are numbered without a gap, each number once, and a success is *)
(* the last: decideNextAttempt and retryDelivery go by the attempt they    *)
(* read, and the unique index stops the slower of two writers.             *)
LogLinear ==
    \A row \in delivery :
        /\ \A n \in 1..row.attempt : Recorded(row.endpoint, row.event, n)
        /\ \A other \in RowsOf(row.endpoint, row.event) :
            /\ other.attempt = row.attempt => other = row
            /\ row.ok => other.attempt <= row.attempt

(* The final update of handleOutboxEvent is unconditional and rests on     *)
(* stale reads, yet no dispatcher closes an event over an endpoint that is *)
(* still owed an attempt (one subscribed all the time, and not edited).    *)
SettledMeansTried ==
    \A e \in Events : \A ep \in steady[e] :
        /\ outbox[e] = "PUBLISHED" => \E row \in RowsOf(ep, e) : row.ok
        /\ outbox[e] = "DEAD" =>
            \E row \in RowsOf(ep, e) : row.ok \/ row.attempt > endpoint[ep].maxRetries

(* Once customers, errors and crashes are done with, every event comes to  *)
(* rest: no deferred or half-recorded attempt keeps it PENDING for ever,   *)
(* and an old event in the way of a full batch is worked off.              *)
EventsComeToRest == <>[](\A e \in Events : outbox[e] # "PENDING")

(* WebhookDelivery implements DeliveryLog. *)
Log == INSTANCE DeliveryLog WITH
    Pairs <- Endpoints \X (Events \cup Tests),
    failures <- [p \in Endpoints \X (Events \cup Tests) |->
                    Cardinality({row \in RowsOf(p[1], p[2]) : ~row.ok})],
    delivered <- [p \in Endpoints \X (Events \cup Tests) |->
                    \E row \in RowsOf(p[1], p[2]) : row.ok]

(* The rows that dispatchers and manual retries race to insert form, for   *)
(* each endpoint and event, failures and then at most one success.         *)
ImplementsDeliveryLog == Log!Spec
=============================================================================
