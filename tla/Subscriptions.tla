---------------------------- MODULE Subscriptions ----------------------------
(***************************************************************************)
(* The subscriptions of one user: checkout, and the calls that report an   *)
(* order as paid or refunded (payment callbacks, repeated by the payment   *)
(* provider, and the user's own confirmation).  A call is a transaction at *)
(* READ COMMITTED: it reads, then updates rows under their locks.  What    *)
(* fails on the database is done again on the records in memory.           *)
(***************************************************************************)
EXTENDS Naturals, Sequences

CONSTANTS
    Orders,     \* orders of the user, one subscription each
    Reporters,  \* calls of confirmCheckout and processPaymentCallback
    None,       \* no caller holds the row's lock, no order is reported on
    PayMaxFaults \* bound: database errors and restarts of the API process

ASSUME NoneAssumption   == None \notin Reporters \cup Orders
ASSUME FaultsAssumption == PayMaxFaults \in Nat

VARIABLES
    status,     \* Subscription.status, "NONE" before the row exists
    announced,  \* per order, its outbox events in the order of their commits
    lock,       \* who holds the lock of a row
    memory,     \* memorySubscriptions: the same statuses in the API process
    payCall,    \* the calls
    met,        \* history: orders one of which was activated while the other was being
    payFaults

rows == <<status, announced>>
payVars == <<rows, lock, memory, payCall, met, payFaults>>

Status == {"NONE", "PENDING", "ACTIVE", "EXPIRED", "REFUNDED"}
Report == {"PAID", "REFUNDED"}
Notice == {"subscription.activated", "subscription.refunded"}

IdlePayCall == [pc |-> "idle", report |-> "PAID", order |-> None, todo |-> {}]

PayInit ==
    /\ status = [o \in Orders |-> "NONE"]
    /\ announced = [o \in Orders |-> <<>>]
    /\ lock = [o \in Orders |-> None]
    /\ memory = [o \in Orders |-> "NONE"]
    /\ payCall = [c \in Reporters |-> IdlePayCall]
    /\ met = {}
    /\ payFaults = 0

-----------------------------------------------------------------------------
LocksReleased(c) == [o \in Orders |-> IF lock[o] = c THEN None ELSE lock[o]]

Finish(c) == payCall' = [payCall EXCEPT ![c].pc = "done", ![c].todo = {}]

Fault == payFaults < PayMaxFaults /\ payFaults' = payFaults + 1

(* The user orders a plan.  The record in memory is made first, and an     *)
(* error of the database does not undo it.                                 *)
checkout(o) ==
    /\ status[o] = "NONE" /\ memory[o] = "NONE"
    /\ memory' = [memory EXCEPT ![o] = "PENDING"]
    /\ \/ status' = [status EXCEPT ![o] = "PENDING"] /\ UNCHANGED payFaults
       \/ Fault /\ UNCHANGED status
    /\ UNCHANGED <<announced, lock, payCall, met>>

(* The provider or the user reports on an order that checkout has issued. *)
Arrive(c, o, report) ==
    /\ payCall[c].pc = "idle"
    /\ status[o] # "NONE" \/ memory[o] # "NONE"
    /\ payCall' = [payCall EXCEPT ![c] = [pc |-> "read", report |-> report, order |-> o, todo |-> {}]]
    /\ UNCHANGED <<rows, lock, memory, met, payFaults>>

-----------------------------------------------------------------------------
(* In memory: no await, so one step.                                       *)

confirmCheckoutInMemory(o) ==
    IF memory[o] = "PENDING"
    THEN [p \in Orders |-> IF p = o THEN "ACTIVE"
                           ELSE IF memory[p] = "ACTIVE" THEN "EXPIRED" ELSE memory[p]]
    ELSE memory

refundInMemory(o) ==
    IF memory[o] = "NONE" THEN memory ELSE [memory EXCEPT ![o] = "REFUNDED"]

FallBack(c) ==
    LET o == payCall[c].order
    IN  /\ memory' = IF payCall[c].report = "PAID" THEN confirmCheckoutInMemory(o) ELSE refundInMemory(o)
        /\ Finish(c)

(* The transaction finds no row. *)
NotFound(c) ==
    /\ payCall[c].pc = "read"
    /\ status[payCall[c].order] = "NONE"
    /\ FallBack(c)
    /\ UNCHANGED <<rows, lock, met, payFaults>>

-----------------------------------------------------------------------------
(* confirmCheckoutWithPrisma.                                              *)

(* Only an order that is PENDING when it is read is activated. *)
ConfirmRead(c) ==
    LET seen == status[payCall[c].order]
    IN  /\ payCall[c].pc = "read" /\ payCall[c].report = "PAID"
        /\ seen # "NONE"
        /\ IF seen = "PENDING" THEN payCall' = [payCall EXCEPT ![c].pc = "expire"] ELSE Finish(c)
        /\ UNCHANGED <<rows, lock, memory, met, payFaults>>

(* Mutant: the plan in force is kept beside the new one. *)
OthersNone(o) == {}

Others(o) == {p \in Orders \ {o} : status[p] = "ACTIVE"}

(* updateMany of the user's other ACTIVE subscriptions: it finds them ...  *)
ExpireOthers(c) ==
    /\ payCall[c].pc = "expire"
    /\ payCall' = [payCall EXCEPT ![c].pc = "rows", ![c].todo = Others(payCall[c].order)]
    /\ UNCHANGED <<rows, lock, memory, met, payFaults>>

(* Mutant: rows found are expired by their ids, whatever they are by then. *)
StillMatchesAny(p) == TRUE

(* READ COMMITTED looks at a row again once it has the lock. *)
StillMatches(p) == status[p] = "ACTIVE"

(* ... and locks them one by one; EXPIRED is visible at the commit.        *)
ExpireRow(c, p) ==
    /\ payCall[c].pc = "rows"
    /\ p \in payCall[c].todo
    /\ lock[p] = None
    /\ lock' = IF StillMatches(p) THEN [lock EXCEPT ![p] = c] ELSE lock
    /\ payCall' = [payCall EXCEPT ![c].todo = @ \ {p}]
    /\ UNCHANGED <<rows, memory, met, payFaults>>

Announced(o, notice) == [announced EXCEPT ![o] = Append(@, notice)]

(* Activations under way: they have looked for others to expire.           *)
Activating == {payCall[c].order : c \in {d \in Reporters : payCall[d].pc = "rows"}}

(* update of the order itself, whatever its status is by now, then the     *)
(* outbox event and the commit.                                            *)
Activate(c) ==
    LET o == payCall[c].order
    IN  /\ payCall[c].pc = "rows"
        /\ payCall[c].todo = {}
        /\ lock[o] = None
        /\ status' = [p \in Orders |-> IF p = o THEN "ACTIVE"
                                       ELSE IF lock[p] = c THEN "EXPIRED" ELSE status[p]]
        /\ announced' = Announced(o, "subscription.activated")
        /\ lock' = LocksReleased(c)
        /\ met' = met \cup {{o, p} : p \in Activating}
        /\ Finish(c)
        /\ UNCHANGED <<memory, payFaults>>

-----------------------------------------------------------------------------
(* refundCheckoutWithPrisma.                                               *)

Refundable(seen) == seen # "REFUNDED"

RefundRead(c) ==
    LET seen == status[payCall[c].order]
    IN  /\ payCall[c].pc = "read" /\ payCall[c].report = "REFUNDED"
        /\ seen # "NONE"
        /\ IF Refundable(seen) THEN payCall' = [payCall EXCEPT ![c].pc = "refund"] ELSE Finish(c)
        /\ UNCHANGED <<rows, lock, memory, met, payFaults>>

Refund(c) ==
    LET o == payCall[c].order
    IN  /\ payCall[c].pc = "refund"
        /\ lock[o] = None
        /\ status' = [status EXCEPT ![o] = "REFUNDED"]
        /\ announced' = Announced(o, "subscription.refunded")
        /\ Finish(c)
        /\ UNCHANGED <<lock, memory, met, payFaults>>

-----------------------------------------------------------------------------
(* Errors.                                                                 *)

Waits(c) == CASE payCall[c].pc = "rows" /\ payCall[c].todo # {} -> payCall[c].todo
              [] payCall[c].pc \in {"rows", "refund"}        -> {payCall[c].order}
              [] OTHER                                    -> {}

(* Calls that wait for one another's rows: Postgres ends one of them. *)
Deadlocked(D) == \A d \in D : Waits(d) # {} /\ \A p \in Waits(d) : lock[p] \in D

(* The transaction is rolled back, the error is swallowed, and the call    *)
(* goes on in memory.                                                      *)
RollBack(c) ==
    /\ lock' = LocksReleased(c)
    /\ FallBack(c)
    /\ UNCHANGED <<rows, met>>

DatabaseError(c) == payCall[c].pc \in {"read", "expire", "rows", "refund"} /\ Fault /\ RollBack(c)

DeadlockVictim(c) ==
    /\ \E D \in SUBSET Reporters : c \in D /\ Deadlocked(D)
    /\ RollBack(c)
    /\ UNCHANGED payFaults

(* The API process restarts: its calls and its memory are gone. *)
Restart ==
    /\ Fault
    /\ lock' = [o \in Orders |-> None]
    /\ memory' = [o \in Orders |-> "NONE"]
    /\ payCall' = [c \in Reporters |->
                    IF payCall[c].pc = "idle" THEN payCall[c] ELSE [payCall[c] EXCEPT !.pc = "done", !.todo = {}]]
    /\ UNCHANGED <<rows, met>>

-----------------------------------------------------------------------------
PayCallStep(c) ==
    \/ NotFound(c)
    \/ ConfirmRead(c) \/ ExpireOthers(c) \/ (\E p \in Orders : ExpireRow(c, p)) \/ Activate(c)
    \/ RefundRead(c) \/ Refund(c)
    \/ DeadlockVictim(c)

PayNext ==
    \/ \E o \in Orders : checkout(o)
    \/ \E c \in Reporters, o \in Orders, report \in Report : Arrive(c, o, report)
    \/ \E c \in Reporters : PayCallStep(c) \/ DatabaseError(c)
    \/ Restart

PaySpec == PayInit /\ [][PayNext]_payVars

-----------------------------------------------------------------------------
PayCallType ==
    [pc : {"idle", "read", "expire", "rows", "refund", "done"}, report : Report,
     order : Orders \cup {None}, todo : SUBSET Orders]

(* The variables hold what the tables and the calls hold; a call never has *)
(* its own order among those it expires, also when a duplicate of the call *)
(* has made that order ACTIVE since.                                       *)
PayTypeOK ==
    /\ status \in [Orders -> Status]
    /\ announced \in [Orders -> Seq(Notice)]
    /\ lock \in [Orders -> Reporters \cup {None}]
    /\ memory \in [Orders -> Status]
    /\ payCall \in [Reporters -> PayCallType]
    /\ \A c \in Reporters : /\ payCall[c].pc # "idle" => payCall[c].order \in Orders
                            /\ payCall[c].order \notin payCall[c].todo
    /\ met \subseteq SUBSET Orders
    /\ payFaults \in 0..PayMaxFaults

LastNotice(o) == IF announced[o] = <<>> THEN "none" ELSE announced[o][Len(announced[o])]

(* The event an order committed last tells its status, whatever raced with *)
(* whatever: the consumers of the outbox (entitlements, webhooks) are not  *)
(* left with an order activated that is refunded, nor the other way round. *)
EventsTellStatus ==
    \A o \in Orders :
        /\ status[o] \in {"NONE", "PENDING"}   => LastNotice(o) = "none"
        /\ status[o] \in {"ACTIVE", "EXPIRED"} => LastNotice(o) = "subscription.activated"
        /\ status[o] = "REFUNDED"              => LastNotice(o) = "subscription.refunded"

(* Nothing in the schema keeps a user to one ACTIVE subscription.  Two can *)
(* be ACTIVE only if one was activated while the other was being: each     *)
(* expired the others it saw.                                              *)
OneActiveUnlessConcurrent ==
    \A o, p \in Orders : o # p /\ status[o] = "ACTIVE" /\ status[p] = "ACTIVE" => {o, p} \in met

-----------------------------------------------------------------------------
(* What the tests say and the code does not do.                            *)

(* contract.spec.ts: the payment callback supports the rollback by refund. *)
(* So a refunded order stays refunded.  A confirmation that read the order *)
(* as PENDING before the refund activates it afterwards.                   *)
RefundIsFinal == [][\A o \in Orders : status[o] = "REFUNDED" => status'[o] = "REFUNDED"]_payVars
=============================================================================
