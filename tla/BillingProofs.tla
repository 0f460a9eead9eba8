---------------------------- MODULE BillingProofs ----------------------------
(* Proofs about the services that keep money and what it is asked for: the *)
(* orders of Subscriptions, the reconciliation runs of BillingReconcile,   *)
(* and the plans with the console that changes them (AdminConsole), each   *)
(* for every value of its constants.                                       *)
EXTENDS Subscriptions, BillingReconcile, AdminConsole, TLAPS, FiniteSetTheorems, WellFoundedInduction

(* A lock is held by an activation under way, on another order than its    *)
(* own, and keeps that order ACTIVE.                                       *)
LocksHold ==
    \A p \in Orders : lock[p] # None =>
        /\ payCall[lock[p]].pc = "rows"
        /\ payCall[lock[p]].order # p
        /\ status[p] = "ACTIVE"

(* An activation under way still has to expire an ACTIVE order, holds its  *)
(* lock, or has met its activation.                                        *)
OthersAccounted ==
    \A c \in Reporters : \A p \in Orders :
        /\ payCall[c].pc = "rows"
        /\ p # payCall[c].order
        /\ status[p] = "ACTIVE"
        => p \in payCall[c].todo \/ lock[p] = c \/ {payCall[c].order, p} \in met

(* The inductive invariant behind OneActiveUnlessConcurrent and            *)
(* EventsTellStatus.                                                       *)
IInv == PayTypeOK /\ LocksHold /\ OthersAccounted /\ OneActiveUnlessConcurrent /\ EventsTellStatus

-----------------------------------------------------------------------------
(* The last notice after one is announced. *)
LEMMA LastAnnounced ==
    ASSUME PayTypeOK, NEW o \in Orders, NEW notice \in Notice,
           announced' = Announced(o, notice)
    PROVE  /\ announced' \in [Orders -> Seq(Notice)]
           /\ LastNotice(o)' = notice
           /\ \A p \in Orders \ {o} : LastNotice(p)' = LastNotice(p)
<1>1. announced \in [Orders -> Seq(Notice)]
  BY DEF PayTypeOK
<1>2. announced' = [announced EXCEPT ![o] = Append(@, notice)]
  BY DEF Announced
<1>3. announced' \in [Orders -> Seq(Notice)]
  BY <1>1, <1>2
<1>4. announced'[o] = Append(announced[o], notice) /\ announced[o] \in Seq(Notice)
  BY <1>1, <1>2
<1>5. /\ Len(announced'[o]) = Len(announced[o]) + 1
      /\ announced'[o][Len(announced[o]) + 1] = notice
      /\ announced'[o] # <<>>
  BY <1>4
<1>6. LastNotice(o)' = notice
  BY <1>5 DEF LastNotice
<1>7. ASSUME NEW p \in Orders \ {o} PROVE LastNotice(p)' = LastNotice(p)
  BY <1>1, <1>2 DEF LastNotice
<1> QED
  BY <1>3, <1>6, <1>7

(* Notices other than the one an order committed last do not matter. *)
LEMMA AnnouncedUnchanged ==
    ASSUME UNCHANGED announced
    PROVE  \A o \in Orders : LastNotice(o)' = LastNotice(o)
BY DEF LastNotice

LEMMA MemoryTyped ==
    ASSUME PayTypeOK, NEW o \in Orders
    PROVE  /\ confirmCheckoutInMemory(o) \in [Orders -> Status]
           /\ refundInMemory(o) \in [Orders -> Status]
BY DEF PayTypeOK, confirmCheckoutInMemory, refundInMemory, Status

-----------------------------------------------------------------------------
THEOREM InitIInv == PayInit => IInv
<1> SUFFICES ASSUME PayInit PROVE IInv
  OBVIOUS
<1>1. PayTypeOK
  BY FaultsAssumption, NoneAssumption
  DEF PayInit, PayTypeOK, IdlePayCall, PayCallType, Status, Report, Notice
<1>2. LocksHold /\ OthersAccounted /\ OneActiveUnlessConcurrent
  BY DEF PayInit, LocksHold, OthersAccounted, OneActiveUnlessConcurrent, IdlePayCall
<1>3. EventsTellStatus
  BY DEF PayInit, EventsTellStatus, LastNotice
<1> QED
  BY <1>1, <1>2, <1>3 DEF IInv

(* A call that ends, whatever the reason, with its locks released and its  *)
(* rows as they were.                                                      *)
LEMMA RolledBack ==
    ASSUME IInv, NEW c \in Reporters, payCall[c].pc \notin {"idle", "done"}, RollBack(c),
           payFaults' \in 0..PayMaxFaults
    PROVE  IInv'
<1> USE DEF IInv
<1>1. /\ lock' = [o \in Orders |-> IF lock[o] = c THEN None ELSE lock[o]]
      /\ payCall' = [payCall EXCEPT ![c].pc = "done", ![c].todo = {}]
      /\ UNCHANGED <<status, announced, met>>
      /\ memory' \in [Orders -> Status]
  <2>1. payCall[c].order \in Orders
    BY DEF PayTypeOK
  <2> QED
    BY <2>1, MemoryTyped DEF RollBack, FallBack, Finish, LocksReleased, rows
<1>2. PayTypeOK'
  BY <1>1, ZenonT(60) DEF PayTypeOK, PayCallType
<1>3. LocksHold'
  BY <1>1 DEF LocksHold, PayTypeOK, PayCallType
<1>4. OthersAccounted'
  <2> SUFFICES ASSUME NEW d \in Reporters, NEW p \in Orders,
                      payCall'[d].pc = "rows", p # payCall'[d].order, status'[p] = "ACTIVE"
               PROVE  p \in payCall'[d].todo \/ lock'[p] = d \/ {payCall'[d].order, p} \in met'
    BY DEF OthersAccounted
  <2>1. d # c /\ payCall'[d] = payCall[d]
    BY <1>1 DEF PayTypeOK, PayCallType
  <2> QED
    BY <1>1, <2>1 DEF OthersAccounted, PayTypeOK
<1>5. OneActiveUnlessConcurrent'
  BY <1>1 DEF OneActiveUnlessConcurrent
<1>6. EventsTellStatus'
  BY <1>1 DEF EventsTellStatus, LastNotice
<1> QED
  BY <1>2, <1>3, <1>4, <1>5, <1>6

(* A call whose program counter moves between reads: it holds no lock.     *)
LEMMA CallMoves ==
    ASSUME IInv, NEW c \in Reporters, NEW next \in PayCallType,
           payCall[c].pc # "rows", next.pc # "rows",
           next.pc # "idle" => next.order \in Orders, next.order \notin next.todo,
           payCall' = [payCall EXCEPT ![c] = next],
           UNCHANGED <<status, announced, lock, met, payFaults>>,
           memory' \in [Orders -> Status]
    PROVE  IInv'
<1> USE DEF IInv
<1>1. PayTypeOK'
  BY DEF PayTypeOK
<1>2. LocksHold'
  BY NoneAssumption DEF LocksHold, PayTypeOK
<1>3. OthersAccounted'
  <2> SUFFICES ASSUME NEW d \in Reporters, NEW p \in Orders,
                      payCall'[d].pc = "rows", p # payCall'[d].order, status'[p] = "ACTIVE"
               PROVE  p \in payCall'[d].todo \/ lock'[p] = d \/ {payCall'[d].order, p} \in met'
    BY DEF OthersAccounted
  <2>1. d # c /\ payCall'[d] = payCall[d]
    BY DEF PayTypeOK
  <2> QED
    BY <2>1 DEF OthersAccounted
<1>4. OneActiveUnlessConcurrent' /\ EventsTellStatus'
  BY DEF OneActiveUnlessConcurrent, EventsTellStatus, LastNotice
<1> QED
  BY <1>1, <1>2, <1>3, <1>4

-----------------------------------------------------------------------------
(* The steps that only read.                                               *)

LEMMA StepCheckout ==
    ASSUME IInv, NEW o \in Orders, checkout(o)
    PROVE  IInv'
<1> USE DEF IInv
<1>1. /\ UNCHANGED <<announced, lock, payCall, met>>
      /\ memory' \in [Orders -> Status]
      /\ payFaults' \in 0..PayMaxFaults
      /\ status' \in [Orders -> Status]
      /\ \A p \in Orders : status'[p] # status[p] => status[p] = "NONE" /\ status'[p] = "PENDING"
  BY FaultsAssumption DEF checkout, PayTypeOK, Fault, Status
<1>2. PayTypeOK'
  BY <1>1 DEF PayTypeOK
<1>3. LocksHold'
  BY <1>1 DEF LocksHold
<1>4. OthersAccounted'
  BY <1>1 DEF OthersAccounted
<1>5. OneActiveUnlessConcurrent'
  BY <1>1 DEF OneActiveUnlessConcurrent
<1>6. EventsTellStatus'
  BY <1>1 DEF EventsTellStatus, LastNotice
<1> QED
  BY <1>2, <1>3, <1>4, <1>5, <1>6

LEMMA StepRead ==
    ASSUME IInv, NEW c \in Reporters,
           \/ \E o \in Orders, report \in Report : Arrive(c, o, report)
           \/ NotFound(c) \/ ConfirmRead(c) \/ RefundRead(c)
    PROVE  IInv'
<1>1. PayTypeOK /\ payCall[c].order \in Orders \cup {None} /\ payCall[c] \in PayCallType
  BY DEF IInv, PayTypeOK, PayCallType
<1>2. CASE \E o \in Orders, report \in Report : Arrive(c, o, report)
  <2> PICK o \in Orders, report \in Report : Arrive(c, o, report)
    BY <1>2
  <2> DEFINE next == [pc |-> "read", report |-> report, order |-> o, todo |-> {}]
  <2>1. next \in PayCallType
    BY DEF PayCallType
  <2>2. /\ payCall[c].pc = "idle" /\ payCall' = [payCall EXCEPT ![c] = next]
        /\ UNCHANGED <<status, announced, lock, met, payFaults, memory>>
    BY DEF Arrive, rows
  <2>3. memory' \in [Orders -> Status]
    BY <1>1, <2>2 DEF PayTypeOK
  <2> QED
    BY <2>1, <2>2, <2>3, CallMoves
<1>3. CASE NotFound(c)
  <2>1. payCall[c].pc = "read" /\ RollBack(c) /\ payFaults' = payFaults
    <3>1. LocksReleased(c) = lock
      BY <1>1, <1>3 DEF IInv, LocksHold, NotFound, LocksReleased, PayTypeOK
    <3> QED
      BY <1>3, <3>1 DEF NotFound, RollBack, rows
  <2> QED
    BY <1>1, <2>1, RolledBack DEF PayTypeOK
<1>4. CASE ConfirmRead(c) \/ RefundRead(c)
  <2>1. /\ payCall[c].pc = "read"
        /\ \/ \E pc \in {"expire", "refund"} : payCall' = [payCall EXCEPT ![c] = [payCall[c] EXCEPT !.pc = pc]]
           \/ payCall' = [payCall EXCEPT ![c] = [payCall[c] EXCEPT !.pc = "done", !.todo = {}]]
        /\ UNCHANGED <<status, announced, lock, memory, met, payFaults>>
    BY <1>1, <1>4 DEF ConfirmRead, RefundRead, Finish, PayTypeOK, rows
  <2>2. PICK next \in PayCallType :
            /\ payCall' = [payCall EXCEPT ![c] = next]
            /\ next.pc # "rows" /\ next.order = payCall[c].order
            /\ next.todo \in {payCall[c].todo, {}}
    <3>1. /\ \A pc \in {"expire", "refund"} :
                /\ [payCall[c] EXCEPT !.pc = pc] \in PayCallType
                /\ [payCall[c] EXCEPT !.pc = pc].pc = pc
                /\ [payCall[c] EXCEPT !.pc = pc].order = payCall[c].order
                /\ [payCall[c] EXCEPT !.pc = pc].todo = payCall[c].todo
          /\ [payCall[c] EXCEPT !.pc = "done", !.todo = {}] \in PayCallType
          /\ [payCall[c] EXCEPT !.pc = "done", !.todo = {}].pc = "done"
          /\ [payCall[c] EXCEPT !.pc = "done", !.todo = {}].order = payCall[c].order
          /\ [payCall[c] EXCEPT !.pc = "done", !.todo = {}].todo = {}
      BY <1>1 DEF PayCallType
    <3> QED
      BY <2>1, <3>1
  <2>3. next.order \in Orders /\ next.order \notin next.todo
    BY <1>1, <2>1, <2>2 DEF PayTypeOK
  <2>4. memory' \in [Orders -> Status]
    BY <1>1, <2>1 DEF PayTypeOK
  <2> QED
    BY <2>1, <2>2, <2>3, <2>4, CallMoves
<1> QED
  BY <1>2, <1>3, <1>4

LEMMA StepExpireOthers ==
    ASSUME IInv, NEW c \in Reporters, ExpireOthers(c)
    PROVE  IInv'
<1> USE DEF IInv
<1>1. /\ payCall[c].pc = "expire" /\ payCall[c].order \in Orders
      /\ payCall' = [payCall EXCEPT ![c].pc = "rows", ![c].todo = Others(payCall[c].order)]
      /\ UNCHANGED <<status, announced, lock, memory, met, payFaults>>
  BY DEF ExpireOthers, PayTypeOK, rows
<1>2. PayTypeOK'
  BY <1>1, ZenonT(60) DEF PayTypeOK, PayCallType, Others
<1>3. LocksHold'
  BY <1>1 DEF LocksHold, PayTypeOK, PayCallType
<1>4. OthersAccounted'
  BY <1>1 DEF OthersAccounted, PayTypeOK, PayCallType, Others
<1>5. OneActiveUnlessConcurrent' /\ EventsTellStatus'
  BY <1>1 DEF OneActiveUnlessConcurrent, EventsTellStatus, LastNotice
<1> QED
  BY <1>2, <1>3, <1>4, <1>5

LEMMA StepExpireRow ==
    ASSUME IInv, NEW c \in Reporters, NEW p \in Orders, ExpireRow(c, p)
    PROVE  IInv'
<1> USE DEF IInv
<1>1. /\ payCall[c].pc = "rows" /\ payCall[c].order \in Orders /\ p # payCall[c].order
      /\ lock[p] = None
      /\ lock' = IF status[p] = "ACTIVE" THEN [lock EXCEPT ![p] = c] ELSE lock
      /\ payCall' = [payCall EXCEPT ![c].todo = payCall[c].todo \ {p}]
      /\ UNCHANGED <<status, announced, memory, met, payFaults>>
  BY DEF ExpireRow, StillMatches, PayTypeOK, rows
<1>2. PayTypeOK'
  BY <1>1, ZenonT(60) DEF PayTypeOK, PayCallType
<1>3. LocksHold'
  BY <1>1 DEF LocksHold, PayTypeOK, PayCallType
<1>4. OthersAccounted'
  <2> SUFFICES ASSUME NEW d \in Reporters, NEW q \in Orders,
                      payCall'[d].pc = "rows", q # payCall'[d].order, status'[q] = "ACTIVE"
               PROVE  q \in payCall'[d].todo \/ lock'[q] = d \/ {payCall'[d].order, q} \in met'
    BY DEF OthersAccounted
  <2>1. /\ payCall'[d].pc = payCall[d].pc /\ payCall'[d].order = payCall[d].order
        /\ d # c => payCall'[d].todo = payCall[d].todo
    BY <1>1 DEF PayTypeOK, PayCallType
  <2>2. q \in payCall[d].todo \/ lock[q] = d \/ {payCall[d].order, q} \in met
    BY <1>1, <2>1 DEF OthersAccounted
  <2>3. lock[q] = d => lock'[q] = d
    BY <1>1, NoneAssumption DEF PayTypeOK
  <2>4. CASE d = c /\ q = p
    BY <1>1, <2>4 DEF PayTypeOK
  <2>5. CASE ~(d = c /\ q = p)
    <3>1. q \in payCall[d].todo => q \in payCall'[d].todo
      BY <1>1, <2>1, <2>5 DEF PayTypeOK, PayCallType
    <3> QED
      BY <1>1, <2>1, <2>2, <2>3, <3>1
  <2> QED
    BY <2>4, <2>5
<1>5. OneActiveUnlessConcurrent' /\ EventsTellStatus'
  BY <1>1 DEF OneActiveUnlessConcurrent, EventsTellStatus, LastNotice
<1> QED
  BY <1>2, <1>3, <1>4, <1>5

-----------------------------------------------------------------------------
(* The steps that commit.                                                  *)

LEMMA StepActivate ==
    ASSUME IInv, NEW c \in Reporters, Activate(c)
    PROVE  IInv'
<1> USE DEF IInv
<1> PICK o \in Orders : o = payCall[c].order
  BY DEF Activate, Refund, PayTypeOK
<1>1. /\ payCall[c].pc = "rows" /\ payCall[c].order = o /\ payCall[c].todo = {} /\ lock[o] = None
      /\ status' = [p \in Orders |-> IF p = o THEN "ACTIVE"
                                     ELSE IF lock[p] = c THEN "EXPIRED" ELSE status[p]]
      /\ announced' = Announced(o, "subscription.activated")
      /\ lock' = [p \in Orders |-> IF lock[p] = c THEN None ELSE lock[p]]
      /\ met' = met \cup {{o, p} : p \in Activating}
      /\ payCall' = [payCall EXCEPT ![c].pc = "done", ![c].todo = {}]
      /\ UNCHANGED <<memory, payFaults>>
  BY DEF Activate, Finish, LocksReleased, PayTypeOK
<1>2. \A d \in Reporters : payCall[d].pc = "rows" => {o, payCall[d].order} \in met'
  BY <1>1 DEF Activating
<1>3. \A p \in Orders \ {o} : status'[p] = "ACTIVE" =>
          status[p] = "ACTIVE" /\ lock[p] # c /\ {o, p} \in met
  BY <1>1 DEF OthersAccounted
<1>4. /\ announced' \in [Orders -> Seq(Notice)]
      /\ LastNotice(o)' = "subscription.activated"
      /\ \A p \in Orders \ {o} : LastNotice(p)' = LastNotice(p)
  <2>1. PayTypeOK /\ "subscription.activated" \in Notice
    BY DEF Notice
  <2> QED
    BY <1>1, <2>1, LastAnnounced
<1>5. PayTypeOK'
  <2>1. Activating \subseteq Orders
    BY DEF Activating, PayTypeOK
  <2>3. \A p \in Activating : {o, p} \subseteq Orders
    BY <1>1, <2>1
  <2>2. met' \subseteq SUBSET Orders
    <3>1. met \subseteq SUBSET Orders
      BY DEF PayTypeOK
    <3>2. {{o, p} : p \in Activating} \subseteq SUBSET Orders
      BY <2>3
    <3> QED
      BY <1>1, <3>1, <3>2
  <2>4. status' \in [Orders -> Status]
    BY <1>1 DEF PayTypeOK, Status
  <2>5. lock' \in [Orders -> Reporters \cup {None}]
    BY <1>1 DEF PayTypeOK
  <2>6. /\ payCall' \in [Reporters -> PayCallType]
        /\ \A d \in Reporters : /\ payCall'[d].pc # "idle" => payCall'[d].order \in Orders
                                /\ payCall'[d].order \notin payCall'[d].todo
    <3>1. payCall' = [payCall EXCEPT ![c].pc = "done", ![c].todo = {}] /\ payCall[c].order \in Orders
      BY <1>1
    <3>2. payCall \in [Reporters -> PayCallType]
      BY DEF PayTypeOK
    <3>3. payCall' \in [Reporters -> PayCallType]
      BY <3>1, <3>2, ZenonT(60) DEF PayCallType
    <3>4. ASSUME NEW d \in Reporters
          PROVE  /\ payCall'[d].pc # "idle" => payCall'[d].order \in Orders
                 /\ payCall'[d].order \notin payCall'[d].todo
      BY <3>1, <3>2 DEF PayTypeOK, PayCallType
    <3> QED
      BY <3>3, <3>4
  <2>7. memory' \in [Orders -> Status] /\ payFaults' \in 0..PayMaxFaults
    BY <1>1 DEF PayTypeOK
  <2> QED
    BY <1>4, <2>2, <2>4, <2>5, <2>6, <2>7 DEF PayTypeOK
<1>6. LocksHold'
  BY <1>1 DEF LocksHold, PayTypeOK, PayCallType
<1>7. OthersAccounted'
  <2> SUFFICES ASSUME NEW d \in Reporters, NEW p \in Orders,
                      payCall'[d].pc = "rows", p # payCall'[d].order, status'[p] = "ACTIVE"
               PROVE  p \in payCall'[d].todo \/ lock'[p] = d \/ {payCall'[d].order, p} \in met'
    BY DEF OthersAccounted
  <2>1. d # c /\ payCall'[d] = payCall[d]
    BY <1>1 DEF PayTypeOK, PayCallType
  <2>2. CASE p = o
    BY <1>2, <2>1, <2>2
  <2>3. CASE p # o
    BY <1>1, <1>3, <2>1, <2>3 DEF OthersAccounted, PayTypeOK
  <2> QED
    BY <2>2, <2>3
<1>8. OneActiveUnlessConcurrent'
  <2> SUFFICES ASSUME NEW p \in Orders, NEW q \in Orders, p # q,
                      status'[p] = "ACTIVE", status'[q] = "ACTIVE"
               PROVE  {p, q} \in met'
    BY DEF OneActiveUnlessConcurrent
  <2>1. CASE p = o
    BY <1>1, <1>3, <2>1
  <2>2. CASE q = o
    <3>1. {q, p} \in met'
      BY <1>1, <1>3, <2>2
    <3>2. {q, p} = {p, q}
      OBVIOUS
    <3> QED
      BY <3>1, <3>2
  <2>3. CASE p # o /\ q # o
    BY <1>1, <1>3, <2>3 DEF OneActiveUnlessConcurrent
  <2> QED
    BY <2>1, <2>2, <2>3
<1>9. EventsTellStatus'
  BY <1>1, <1>4, NoneAssumption DEF EventsTellStatus, LocksHold, PayTypeOK
<1> QED
  BY <1>5, <1>6, <1>7, <1>8, <1>9

LEMMA StepRefund ==
    ASSUME IInv, NEW c \in Reporters, Refund(c)
    PROVE  IInv'
<1> USE DEF IInv
<1> PICK o \in Orders : o = payCall[c].order
  BY DEF Activate, Refund, PayTypeOK
<1>1. /\ payCall[c].pc = "refund" /\ payCall[c].order = o /\ lock[o] = None
      /\ status' = [status EXCEPT ![o] = "REFUNDED"]
      /\ announced' = Announced(o, "subscription.refunded")
      /\ payCall' = [payCall EXCEPT ![c].pc = "done", ![c].todo = {}]
      /\ UNCHANGED <<lock, memory, met, payFaults>>
  BY DEF Refund, Finish, PayTypeOK
<1>2. /\ announced' \in [Orders -> Seq(Notice)]
      /\ LastNotice(o)' = "subscription.refunded"
      /\ \A p \in Orders \ {o} : LastNotice(p)' = LastNotice(p)
  <2>1. PayTypeOK /\ "subscription.refunded" \in Notice
    BY DEF Notice
  <2> QED
    BY <1>1, <2>1, LastAnnounced
<1>3. PayTypeOK'
  <2>1. status' \in [Orders -> Status]
    BY <1>1 DEF PayTypeOK, Status
  <2>2. /\ payCall' \in [Reporters -> PayCallType]
        /\ \A d \in Reporters : /\ payCall'[d].pc # "idle" => payCall'[d].order \in Orders
                                /\ payCall'[d].order \notin payCall'[d].todo
    BY <1>1, ZenonT(60) DEF PayTypeOK, PayCallType
  <2>3. /\ lock' \in [Orders -> Reporters \cup {None}]
        /\ memory' \in [Orders -> Status]
        /\ met' \subseteq SUBSET Orders
        /\ payFaults' \in 0..PayMaxFaults
    BY <1>1 DEF PayTypeOK
  <2> QED
    BY <1>2, <2>1, <2>2, <2>3 DEF PayTypeOK
<1>4. LocksHold'
  BY <1>1, NoneAssumption DEF LocksHold, PayTypeOK, PayCallType
<1>5. OthersAccounted'
  BY <1>1, ZenonT(60) DEF OthersAccounted, PayTypeOK, PayCallType
<1>6. OneActiveUnlessConcurrent'
  BY <1>1 DEF OneActiveUnlessConcurrent, PayTypeOK
<1>7. EventsTellStatus'
  BY <1>1, <1>2 DEF EventsTellStatus, PayTypeOK
<1> QED
  BY <1>3, <1>4, <1>5, <1>6, <1>7

-----------------------------------------------------------------------------
(* Errors and restarts.                                                    *)

LEMMA StepError ==
    ASSUME IInv, NEW c \in Reporters, DatabaseError(c) \/ DeadlockVictim(c)
    PROVE  IInv'
<1>1. PayTypeOK
  BY DEF IInv
<1>2. payFaults' \in 0..PayMaxFaults /\ RollBack(c)
  BY <1>1, FaultsAssumption DEF DatabaseError, DeadlockVictim, Fault, PayTypeOK
<1>3. payCall[c].pc \notin {"idle", "done"}
  BY DEF DatabaseError, DeadlockVictim, Deadlocked, Waits
<1> QED
  BY <1>2, <1>3, RolledBack

LEMMA StepRestart ==
    ASSUME IInv, Restart
    PROVE  IInv'
<1> USE DEF IInv
<1>1. /\ UNCHANGED <<status, announced, met>>
      /\ lock' = [o \in Orders |-> None]
      /\ memory' = [o \in Orders |-> "NONE"]
      /\ payFaults' \in 0..PayMaxFaults
  <2>1. payFaults' \in 0..PayMaxFaults
    <3>1. payFaults \in 0..PayMaxFaults /\ Fault
      BY DEF Restart, PayTypeOK
    <3> QED
      BY <3>1, FaultsAssumption DEF Fault
  <2>2. UNCHANGED <<status, announced, met>>
    BY DEF Restart, rows
  <2> QED
    BY <2>1, <2>2 DEF Restart
<1>2. /\ payCall' \in [Reporters -> PayCallType]
      /\ \A c \in Reporters : /\ payCall'[c].pc \in {"idle", "done"}
                              /\ payCall'[c].order = payCall[c].order
                              /\ payCall'[c].pc # "idle" => payCall[c].pc # "idle"
                              /\ payCall'[c].todo \subseteq payCall[c].todo
  <2>1. \A c \in Reporters : payCall[c] \in PayCallType
    BY DEF PayTypeOK
  <2>2. payCall' = [c \in Reporters |->
                    IF payCall[c].pc = "idle" THEN payCall[c] ELSE [payCall[c] EXCEPT !.pc = "done", !.todo = {}]]
    BY DEF Restart
  <2>3. \A c \in Reporters :
            /\ [payCall[c] EXCEPT !.pc = "done", !.todo = {}] \in PayCallType
            /\ [payCall[c] EXCEPT !.pc = "done", !.todo = {}].pc = "done"
            /\ [payCall[c] EXCEPT !.pc = "done", !.todo = {}].order = payCall[c].order
            /\ [payCall[c] EXCEPT !.pc = "done", !.todo = {}].todo = {}
    BY <2>1 DEF PayCallType
  <2> QED
    BY <2>1, <2>2, <2>3
<1>3. PayTypeOK'
  <2>1. lock' \in [Orders -> Reporters \cup {None}] /\ memory' \in [Orders -> Status]
    BY <1>1 DEF Status
  <2>2. ASSUME NEW c \in Reporters
        PROVE  /\ payCall'[c].pc # "idle" => payCall'[c].order \in Orders
               /\ payCall'[c].order \notin payCall'[c].todo
    <3>1. /\ payCall[c].pc # "idle" => payCall[c].order \in Orders
          /\ payCall[c].order \notin payCall[c].todo
      BY DEF PayTypeOK
    <3>2. /\ payCall'[c].order = payCall[c].order
          /\ payCall'[c].pc # "idle" => payCall[c].pc # "idle"
          /\ payCall'[c].todo \subseteq payCall[c].todo
      BY <1>2
    <3> QED
      BY <3>1, <3>2
  <2>3. /\ status' \in [Orders -> Status] /\ announced' \in [Orders -> Seq(Notice)]
        /\ met' \subseteq SUBSET Orders
    BY <1>1 DEF PayTypeOK
  <2> QED
    BY <1>1, <1>2, <2>1, <2>2, <2>3 DEF PayTypeOK
<1>a. \A c \in Reporters : payCall'[c].pc # "rows"
  BY <1>2
<1>4. LocksHold'
  <2>1. \A o \in Orders : lock'[o] = None
    BY <1>1
  <2> QED
    BY <2>1, NoneAssumption DEF LocksHold
<1>5. OthersAccounted'
  BY <1>a DEF OthersAccounted
<1>6. OneActiveUnlessConcurrent' /\ EventsTellStatus'
  BY <1>1 DEF OneActiveUnlessConcurrent, EventsTellStatus, LastNotice
<1> QED
  BY <1>3, <1>4, <1>5, <1>6

-----------------------------------------------------------------------------
LEMMA NextIInv == IInv /\ [PayNext]_payVars => IInv'
<1> SUFFICES ASSUME IInv, [PayNext]_payVars PROVE IInv'
  OBVIOUS
<1>1. CASE \E o \in Orders : checkout(o)
  BY <1>1, StepCheckout
<1>2. CASE \E c \in Reporters, o \in Orders, report \in Report : Arrive(c, o, report)
  BY <1>2, StepRead
<1>3. ASSUME NEW c \in Reporters, PayCallStep(c) PROVE IInv'
  BY <1>3, StepRead, StepExpireOthers, StepExpireRow, StepActivate, StepRefund, StepError
  DEF PayCallStep
<1>4. CASE \E c \in Reporters : DatabaseError(c)
  BY <1>4, StepError
<1>5. CASE Restart
  BY <1>5, StepRestart
<1>6. CASE UNCHANGED payVars
  BY <1>6 DEF payVars, rows, IInv, PayTypeOK, LocksHold, OthersAccounted,
              OneActiveUnlessConcurrent, EventsTellStatus, LastNotice, PayCallType
<1> QED
  BY <1>1, <1>2, <1>3, <1>4, <1>5, <1>6 DEF PayNext

(* The invariant holds of every state of every behaviour. *)
THEOREM Invariance == PaySpec => []IInv
<1> QED
  BY InitIInv, NextIInv, PTL DEF PaySpec

(* The variables of Subscriptions keep their types. *)
THEOREM SubscriptionsTypeCorrect == PaySpec => []PayTypeOK
BY Invariance, PTL DEF IInv

(* However many confirmations, duplicates and refunds race, two orders of  *)
(* a user are ACTIVE only if their activations overlapped.                 *)
THEOREM ActiveOrdersOverlapped == PaySpec => []OneActiveUnlessConcurrent
BY Invariance, PTL DEF IInv

(* The event an order committed last tells its status. *)
THEOREM LastEventTellsStatus == PaySpec => []EventsTellStatus
BY Invariance, PTL DEF IInv

-----------------------------------------------------------------------------
(* From here on: BillingReconcile.                                         *)

(* A set of numbers with a bound has a largest one. *)
LEMMA LargestOf ==
    ASSUME NEW n \in Nat, NEW T \in SUBSET (0..n), T # {}
    PROVE  \E x \in T : \A y \in T : y <= x
<1> DEFINE U    == {n - x : x \in T}
           Less == {ss \in Nat \X Nat : ss[1] < ss[2]}
<1>1. IsWellFoundedOn(Less, Nat)
  BY NatLessThanWellFounded DEF OpToRel
<1>2. U \subseteq Nat /\ U # {}
  <2>1. \A x \in T : n - x \in Nat
    OBVIOUS
  <2> QED
    BY <2>1, Zenon
<1> HIDE DEF Less
<1>3. PICK u \in U : \A v \in U : <<v, u>> \notin Less
  BY <1>1, <1>2, WFMin, Zenon
<1>4. \A v \in U : u <= v
  <2> SUFFICES ASSUME NEW v \in U PROVE u <= v
    OBVIOUS
  <2>1. v \in Nat /\ u \in Nat
    BY <1>2, Zenon
  <2>2. ~(v < u)
    <3>1. <<v, u>> \in Nat \X Nat
      BY <2>1
    <3>2. <<v, u>>[1] = v /\ <<v, u>>[2] = u
      OBVIOUS
    <3> HIDE DEF U
    <3> QED
      BY <1>3, <3>1, <3>2, Zenon DEF Less
  <2> QED
    BY <2>1, <2>2
<1>5. PICK x \in T : u = n - x
  OBVIOUS
<1>6. \A y \in T : n - x <= n - y
  BY <1>4, <1>5
<1> QED
  BY <1>6

(* The latest row is one of the rows, and none is later. *)
LEMMA LatestIsOne ==
    ASSUME BillTypeOK, NEW found \in SUBSET UsageRows, found # {}
    PROVE  /\ LatestOf(found) \in found
           /\ \A y \in found : usage[y].at <= usage[LatestOf(found)].at
<1> DEFINE times == {usage[x].at : x \in found}
<1>1. \A x \in found : usage[x].at \in 0..LastMs /\ x \in Nat
  BY BillingAssumption DEF BillTypeOK, UsageRows
<1>2. PICK a \in times : \A b \in times : b <= a
  <2>1. times \in SUBSET (0..LastMs) /\ times # {}
    BY <1>1
  <2> HIDE DEF times
  <2> QED
    BY <2>1, LargestOf, BillingAssumption
<1> DEFINE last == {x \in found : usage[x].at = a}
<1>3. PICK x \in last : \A y \in last : y <= x
  <2>1. last # {}
    BY <1>2, Zenon
  <2>2. last \in SUBSET (0..LastRow) /\ LastRow \in Nat
    <3>1. UsageRows \subseteq 0..LastRow /\ LastRow \in Nat
      BY BillingAssumption DEF UsageRows
    <3>2. last \subseteq found
      OBVIOUS
    <3> QED
      BY <3>1, <3>2, Zenon
  <2> HIDE DEF last
  <2> QED
    BY <2>1, <2>2, LargestOf
<1>4. ASSUME NEW y \in found
      PROVE  usage[y].at < usage[x].at \/ (usage[y].at = usage[x].at /\ y <= x)
  BY <1>1, <1>2, <1>3
<1> DEFINE Latest(z) ==
      \A y \in found : usage[y].at < usage[z].at \/ (usage[y].at = usage[z].at /\ y <= z)
<1>5. LatestOf(found) = CHOOSE z \in found : Latest(z)
  BY Zenon DEF LatestOf
<1>6. x \in found /\ Latest(x)
  BY <1>4
<1> HIDE DEF Latest
<1>7. LatestOf(found) \in found /\ Latest(LatestOf(found))
  BY <1>5, <1>6, Zenon
<1> QED
  BY <1>1, <1>7 DEF Latest

-----------------------------------------------------------------------------
(* The inductive invariant.                                                *)

(* A row that is written has its period. *)
Dated == \A x \in UsageRows : usage[x].state # "none" => usage[x].period \in Periods

(* What runs have summed up had been committed. *)
RowsBooked == \A j \in Jobs : job[j].rows \subseteq Booked

(* Since the last run that made up for what had been missed, each run has  *)
(* been alone; and alone means that no other is running.                   *)
AloneIsAlone ==
    /\ \A i, j \in Jobs : job[j].alone /\ Running(j) /\ i # j => ~Running(i)
    /\ ~overlap => \A j \in Jobs : Running(j) => job[j].alone

OnTime == Booked \ lateRows

(* Where the watermark is to go, as far as the run has read. *)
Behind(j, x) == job[j].marked => UpTo(x, job[j].next)

(* While a run reads, it looks from the watermark on; the periods it has   *)
(* been told are those of every row in its window that is not late.        *)
ReadsWell(j) ==
    job[j].pc = "read" /\ job[j].mode = "hourly" =>
        /\ job[j].from = checkpoint
        /\ job[j].marked => job[j].next = job[j].from \/ job[j].next.at <= job[j].end
        /\ job[j].told =>
              \A x \in OnTime : InWindow(x, job[j].from, job[j].end) /\ Behind(j, x)
                                => usage[x].period \in job[j].periods

Summing(j) ==
    \/ job[j].pc = "read" /\ job[j].mode = "daily" /\ job[j].told
    \/ job[j].pc \in {"write", "compare", "checkpoint"}

(* Then it has summed up all there is of these periods behind the          *)
(* watermark, as it was and as it will be; what the new one passes is of   *)
(* these periods, or was behind the old one.                               *)
SumsWell(j) ==
    Summing(j) =>
        /\ \A x \in OnTime :
              usage[x].period \in job[j].periods /\ (Behind(j, x) \/ UpTo(x, checkpoint))
              => x \in job[j].rows
        /\ job[j].mode = "daily" => job[j].periods = Periods
        /\ job[j].pc # "read" /\ job[j].mode = "hourly" =>
              \A x \in OnTime : UpTo(x, job[j].next) =>
                  UpTo(x, checkpoint) \/ usage[x].period \in job[j].periods

Advancing(j) ==
    /\ job[j].mode \in Modes
    /\ job[j].pc \in {"write", "compare", "checkpoint"} => job[j].told /\ job[j].marked

(* And the table has its sums. *)
WritesWell(j) ==
    job[j].pc \in {"compare", "checkpoint"} => \A p \in job[j].periods : monthly[p] = Sum(j, p)

Faithful(j) == Advancing(j) /\ ReadsWell(j) /\ SumsWell(j) /\ WritesWell(j)

AloneIsFaithful == \A j \in Jobs : Running(j) /\ job[j].alone => Faithful(j)

BillInv ==
    /\ BillTypeOK /\ Dated /\ RowsBooked /\ AloneIsAlone
    /\ AloneIsFaithful /\ CountedUpToWatermark /\ MismatchMeansOverlap

-----------------------------------------------------------------------------
(* The steps.                                                              *)

JobsFrame(j) == \A i \in Jobs : i # j => job'[i] = job[i]

(* A step of one run leaves no other one alone, so that all there is to    *)
(* see to is what that run itself has read and written.                    *)
LEMMA OnlyThisRun ==
    ASSUME BillInv, NEW j \in Jobs, Running(j), JobsFrame(j),
           (Running(j) /\ job[j].alone)' => job[j].alone /\ Faithful(j)'
    PROVE  AloneIsFaithful'
<1> SUFFICES ASSUME NEW i \in Jobs, (Running(i) /\ job[i].alone)' PROVE Faithful(i)'
  BY DEF AloneIsFaithful
<1>1. CASE i = j
  BY <1>1
<1>2. CASE i # j
  BY <1>2 DEF JobsFrame, Running, BillInv, AloneIsAlone
<1> QED
  BY <1>1, <1>2

(* A step of one run, as far as types go. *)
LEMMA RunTyped ==
    ASSUME BillTypeOK, Dated, RowsBooked, NEW j \in Jobs, NEW new \in JobType,
           new.rows \subseteq Booked, job' = [job EXCEPT ![j] = new],
           UNCHANGED <<now, usage>>,
           monthly' \in [Periods -> SUBSET UsageRows],
           \A p \in Periods : monthly'[p] \subseteq RowsOfPeriod(p),
           checkpoint' \in Marker, runs' \in 0..MaxRuns, lateRows' \subseteq Booked, overlap' \in BOOLEAN
    PROVE  BillTypeOK' /\ Dated' /\ RowsBooked'
<1>1. job' \in [Jobs -> JobType] /\ \A i \in Jobs : job'[i].rows \subseteq Booked
  BY DEF BillTypeOK, RowsBooked
<1>2. Booked' = Booked /\ \A p \in Periods : RowsOfPeriod(p)' = RowsOfPeriod(p)
  BY DEF Booked, RowsOfPeriod
<1> QED
  BY <1>1, <1>2 DEF BillTypeOK, Dated, RowsBooked

LEMMA IdleTyped == IdleJob \in JobType /\ IdleJob.rows = {}
BY BillingAssumption DEF IdleJob, JobType, Null, Marker

LEMMA WindowTyped ==
    ASSUME BillTypeOK, Dated, NEW j \in Jobs
    PROVE  /\ Window(j) \subseteq Booked /\ Booked \subseteq UsageRows
           /\ {usage[x].period : x \in Window(j)} \subseteq Periods
BY DEF Window, Booked, Dated

(* Where the watermark is to go. *)
LEMMA NextTyped ==
    ASSUME BillTypeOK, Dated, NEW j \in Jobs
    PROVE  /\ NextMarker(j) \in Marker
           /\ job[j].mode = "hourly" => NextMarker(j) = job[j].from \/ NextMarker(j).at <= job[j].end
<1> DEFINE found == IF job[j].mode = "hourly" THEN Window(j) ELSE Booked
<1>1. found \subseteq Booked /\ found \in SUBSET UsageRows
  BY WindowTyped
<1>2. job[j].from \in Marker /\ job[j].end \in 0..LastMs
  BY DEF BillTypeOK, JobType
<1>3. CASE found = {}
  <2> DEFINE from == job[j].from
             kept == [from EXCEPT !.at = IF @ # 0 THEN @ ELSE job[j].end]
  <2>1. NextMarker(j) = IF job[j].mode = "hourly" THEN kept ELSE [at |-> job[j].end, id |-> 0]
    BY <1>3 DEF NextMarker
  <2>2. [at |-> job[j].end, id |-> 0] \in Marker /\ job[j].end <= job[j].end
    BY <1>2, BillingAssumption DEF Marker
  <2>3. kept \in Marker /\ (kept = from \/ kept.at = job[j].end)
    BY <1>2 DEF Marker
  <2> HIDE DEF kept
  <2> QED
    BY <1>2, <2>1, <2>2, <2>3
<1>4. CASE found # {}
  <2>1. NextMarker(j) = MarkerOf(LatestOf(found))
    BY <1>4 DEF NextMarker
  <2>2. LatestOf(found) \in found
    BY <1>1, <1>4, LatestIsOne
  <2>3. usage[LatestOf(found)].at \in 0..LastMs /\ LatestOf(found) \in UsageRows
    BY <1>1, <2>2, BillingAssumption DEF BillTypeOK
  <2>4. NextMarker(j) \in Marker /\ NextMarker(j).at = usage[LatestOf(found)].at
    BY <2>1, <2>3 DEF MarkerOf, Marker
  <2>5. job[j].mode = "hourly" => usage[LatestOf(found)].at <= job[j].end
    BY <2>2 DEF Window, InWindow
  <2> QED
    BY <2>4, <2>5
<1> QED
  BY <1>3, <1>4

(* The types, step by step. *)
LEMMA BillTypeStep ==
    ASSUME BillTypeOK, Dated, RowsBooked, [BillNext]_billVars
    PROVE  BillTypeOK' /\ Dated' /\ RowsBooked'
<1> USE BillingAssumption
<1>1. ASSUME NEW x \in UsageRows, NEW p \in Periods, WriteRow(x, p)
      PROVE  BillTypeOK' /\ Dated' /\ RowsBooked'
  <2>1. usage' \in [UsageRows -> [state : {"none", "written", "committed"}, at : 0..now',
                                  period : Periods \cup {"none"}]]
    BY <1>1 DEF WriteRow, BillTypeOK
  <2>2. Booked' = Booked /\ \A y \in Booked : usage'[y] = usage[y]
    BY <1>1 DEF WriteRow, BillTypeOK, Booked
  <2> QED
    BY <1>1, <2>1, <2>2 DEF WriteRow, BillTypeOK, Dated, RowsBooked, RowsOfPeriod
<1>2. ASSUME NEW x \in UsageRows, CommitRow(x)
      PROVE  BillTypeOK' /\ Dated' /\ RowsBooked'
  <2>1. usage' \in [UsageRows -> [state : {"none", "written", "committed"}, at : 0..now',
                                  period : Periods \cup {"none"}]]
    BY <1>2 DEF CommitRow, BillTypeOK
  <2>2. Booked' = Booked \cup {x} /\ \A y \in UsageRows : usage'[y].period = usage[y].period
    BY <1>2 DEF CommitRow, BillTypeOK, Booked
  <2>3. usage[x].period \in Periods
    BY <1>2 DEF CommitRow, Dated
  <2>4. lateRows' \subseteq Booked'
    BY <1>2, <2>2 DEF CommitRow, BillTypeOK
  <2> QED
    BY <1>2, <2>1, <2>2, <2>3, <2>4 DEF CommitRow, BillTypeOK, Dated, RowsBooked, RowsOfPeriod, Booked
<1>3. CASE Elapse
  BY <1>3 DEF Elapse, BillTypeOK, Dated, RowsBooked, Booked, RowsOfPeriod
<1>4. ASSUME NEW j \in Jobs, JobStep(j)
      PROVE  BillTypeOK' /\ Dated' /\ RowsBooked'
  <2> DEFINE Rest == /\ UNCHANGED <<now, usage>>
                     /\ monthly' \in [Periods -> SUBSET UsageRows]
                     /\ \A p \in Periods : monthly'[p] \subseteq RowsOfPeriod(p)
                     /\ checkpoint' \in Marker /\ runs' \in 0..MaxRuns
                     /\ lateRows' \subseteq Booked /\ overlap' \in BOOLEAN
  <2>0. /\ job[j] \in JobType /\ job[j].rows \subseteq Booked /\ job \in [Jobs -> JobType]
        /\ job[j].next \in Marker /\ Booked \subseteq UsageRows
    BY DEF BillTypeOK, RowsBooked, JobType, Booked
  <2>1. ASSUME NEW mode \in Modes, StartRun(j, mode) PROVE BillTypeOK' /\ Dated' /\ RowsBooked'
    <3>1. ASSUME NEW i \in Jobs PROVE job'[i] \in JobType /\ job'[i].rows \subseteq Booked
      <4>1. CASE i = j
        <5> DEFINE only == {k \in Jobs \ {j} : Running(k)} = {}
        <5> DEFINE new == [IdleJob EXCEPT !.pc = "read", !.mode = mode, !.from = checkpoint,
                              !.end = now, !.status = "FAILED", !.alone = only]
        <5>1. job'[i] = new
          BY <2>1, <4>1 DEF StartRun
        <5>2. now \in 0..LastMs /\ checkpoint \in Marker /\ only \in BOOLEAN
          BY DEF BillTypeOK
        <5> HIDE DEF only
        <5>3. new \in JobType
          BY <5>2, IdleTyped DEF JobType, Modes
        <5>4. new.rows = IdleJob.rows
          BY IdleTyped DEF JobType
        <5> HIDE DEF new
        <5> QED
          BY <5>1, <5>3, <5>4, IdleTyped
      <4>2. CASE i # j
        <5>1. job'[i] = [job[i] EXCEPT !.alone = @ /\ i \notin {k \in Jobs \ {j} : Running(k)}]
          BY <2>1, <4>2 DEF StartRun
        <5>2. job[i] \in JobType /\ job[i].rows \subseteq Booked
          BY DEF BillTypeOK, RowsBooked
        <5> QED
          BY <5>1, <5>2 DEF JobType
      <4> QED
        BY <4>1, <4>2
    <3>2. job' \in [Jobs -> JobType]
      <4>1. job' = [i \in Jobs |-> job'[i]]
        BY <2>1 DEF StartRun
      <4> QED
        BY <3>1, <4>1
    <3>3. Booked' = Booked /\ \A p \in Periods : RowsOfPeriod(p)' = RowsOfPeriod(p)
      BY <2>1 DEF StartRun, Booked, RowsOfPeriod
    <3>4. runs' \in 0..MaxRuns
      <4>1. runs \in 0..MaxRuns /\ runs < MaxRuns /\ runs' = runs + 1
        BY <2>1 DEF StartRun, BillTypeOK
      <4> QED
        BY <4>1
    <3>5. /\ UNCHANGED <<now, usage, monthly, checkpoint, lateRows>>
          /\ overlap' \in BOOLEAN
      BY <2>1 DEF StartRun, BillTypeOK
    <3> QED
      BY <3>1, <3>2, <3>3, <3>4, <3>5 DEF BillTypeOK, Dated, RowsBooked
  <2>2. CASE QueryPeriods(j)
    <3> DEFINE ps  == {usage[x].period : x \in Window(j)}
               new == [job[j] EXCEPT !.told = TRUE, !.periods = ps]
    <3>1. ps \in SUBSET Periods
      BY WindowTyped
    <3>2. job' = [job EXCEPT ![j] = new]
      BY <2>2 DEF QueryPeriods
    <3> HIDE DEF ps
    <3>3. new \in JobType /\ new.rows = job[j].rows
      BY <2>0, <3>1 DEF JobType
    <3> HIDE DEF new
    <3>4. Rest
      BY <2>2 DEF QueryPeriods, BillTypeOK
    <3> QED
      BY <2>0, <3>2, <3>3, <3>4, RunTyped
  <2>3. CASE QueryAggregatesGlobal(j)
    <3> DEFINE new == [job[j] EXCEPT !.told = TRUE, !.rows = Booked, !.periods = Periods]
    <3>1. new \in JobType /\ new.rows = Booked
      BY <2>0 DEF JobType
    <3>2. job' = [job EXCEPT ![j] = new]
      BY <2>3 DEF QueryAggregatesGlobal
    <3> HIDE DEF new
    <3>3. Rest
      BY <2>3 DEF QueryAggregatesGlobal, BillTypeOK
    <3> QED
      BY <2>0, <3>1, <3>2, <3>3, RunTyped
  <2>4. CASE QueryLatest(j)
    <3> DEFINE new == [job[j] EXCEPT !.marked = TRUE, !.next = NextMarker(j)]
    <3>1. new \in JobType /\ new.rows = job[j].rows
      BY <2>0, NextTyped DEF JobType
    <3>2. job' = [job EXCEPT ![j] = new]
      BY <2>4 DEF QueryLatest
    <3> HIDE DEF new
    <3>3. Rest
      BY <2>4 DEF QueryLatest, BillTypeOK
    <3> QED
      BY <2>0, <3>1, <3>2, <3>3, RunTyped
  <2>5. CASE QueryAggregatesForPeriods(j)
    <3> DEFINE rs == IF job[j].mode = "hourly" THEN Summed(j) ELSE job[j].rows
               new == [job[j] EXCEPT !.pc = "write", !.from = Null, !.end = 0, !.rows = rs]
    <3>1. rs \subseteq Booked
      BY <2>0 DEF Summed, RowsOfPeriod
    <3>2. Null \in Marker /\ 0 \in 0..LastMs
      BY DEF Null, Marker
    <3>3. job' = [job EXCEPT ![j] = new]
      BY <2>5 DEF QueryAggregatesForPeriods
    <3> HIDE DEF rs
    <3>4. new \in JobType /\ new.rows = rs
      BY <2>0, <3>1, <3>2 DEF JobType
    <3> HIDE DEF new
    <3> QED
      BY <2>5, <3>1, <3>3, <3>4, RunTyped DEF QueryAggregatesForPeriods, BillTypeOK
  <2>6. CASE WriteAggregates(j)
    <3> DEFINE new == [job[j] EXCEPT !.pc = "compare"]
    <3>1. new \in JobType /\ new.rows = job[j].rows
      BY <2>0 DEF JobType
    <3>2. monthly' \in [Periods -> SUBSET UsageRows]
          /\ \A p \in Periods : monthly'[p] \subseteq RowsOfPeriod(p)
      BY <2>0, <2>6 DEF WriteAggregates, Merged, Sum, RowsOfPeriod, Booked, BillTypeOK
    <3>3. job' = [job EXCEPT ![j] = new]
      BY <2>6 DEF WriteAggregates
    <3>4. Rest
      BY <2>6, <3>2 DEF WriteAggregates, BillTypeOK
    <3> HIDE DEF new
    <3> QED
      BY <2>0, <3>1, <3>3, <3>4, RunTyped
  <2>7. CASE CompareStored(j)
    <3> DEFINE new == [job[j] EXCEPT !.status = IF Mismatches(j) = {} THEN "SUCCEEDED" ELSE "MISMATCH",
                                     !.pc = IF Mismatches(j) = {} THEN "checkpoint" ELSE "end"]
    <3>1. new \in JobType /\ new.rows = job[j].rows
      BY <2>0 DEF JobType
    <3>2. job' = [job EXCEPT ![j] = new]
      BY <2>7 DEF CompareStored
    <3> HIDE DEF new
    <3> QED
      BY <2>0, <2>7, <3>1, <3>2, RunTyped DEF CompareStored, BillTypeOK
  <2>8. CASE SaveCheckpoint(j)
    <3>1. lateRows' \subseteq Booked /\ overlap' \in BOOLEAN
      BY <2>8 DEF SaveCheckpoint, BillTypeOK
    <3>2. job' = [job EXCEPT ![j] = IdleJob]
      BY <2>8 DEF SaveCheckpoint
    <3>3. Rest
      BY <2>0, <2>8, <3>1 DEF SaveCheckpoint, BillTypeOK
    <3> QED
      BY <2>0, <3>2, <3>3, IdleTyped, RunTyped
  <2>9. CASE EndRun(j)
    BY <2>9, IdleTyped, RunTyped DEF EndRun, BillTypeOK
  <2>10. CASE FailRun(j)
    BY <2>10, IdleTyped, RunTyped DEF FailRun, BillTypeOK
  <2> QED
    BY <1>4, <2>1, <2>2, <2>3, <2>4, <2>5, <2>6, <2>7, <2>8, <2>9, <2>10 DEF JobStep
<1>5. CASE UNCHANGED billVars
  BY <1>5 DEF billVars, BillTypeOK, Dated, RowsBooked, Booked, RowsOfPeriod
<1> QED
  BY <1>1, <1>2, <1>3, <1>4, <1>5 DEF BillNext

(* What a step of a run does to the runs; all but the first touch one. *)
LEMMA JobFrame ==
    ASSUME BillTypeOK, NEW j \in Jobs, JobStep(j), ~\E mode \in Modes : StartRun(j, mode)
    PROVE  /\ Running(j) /\ JobsFrame(j) /\ UNCHANGED <<now, usage, runs>>
           /\ job'[j].alone = job[j].alone \/ job'[j] = IdleJob
           /\ overlap' = overlap \/ (SaveCheckpoint(j) /\ job[j].alone)
<1>1. job \in [Jobs -> JobType]
  BY DEF BillTypeOK
<1>2. Running(j) /\ UNCHANGED <<now, usage, runs>>
  BY DEF JobStep, QueryPeriods, QueryAggregatesGlobal, QueryLatest, QueryAggregatesForPeriods,
         WriteAggregates, CompareStored, SaveCheckpoint, EndRun, FailRun, Running
<1>3. JobsFrame(j)
  BY <1>1 DEF JobStep, QueryPeriods, QueryAggregatesGlobal, QueryLatest, QueryAggregatesForPeriods,
         WriteAggregates, CompareStored, SaveCheckpoint, EndRun, FailRun, JobsFrame
<1>4. job'[j].alone = job[j].alone \/ job'[j] = IdleJob
  BY <1>1 DEF JobStep, QueryPeriods, QueryAggregatesGlobal, QueryLatest, QueryAggregatesForPeriods,
         WriteAggregates, CompareStored, SaveCheckpoint, EndRun, FailRun, JobType
<1>5. overlap' = overlap \/ (SaveCheckpoint(j) /\ job[j].alone)
  BY DEF JobStep, QueryPeriods, QueryAggregatesGlobal, QueryLatest, QueryAggregatesForPeriods,
         WriteAggregates, CompareStored, SaveCheckpoint, EndRun, FailRun, BillTypeOK
<1> QED
  BY <1>2, <1>3, <1>4, <1>5

(* The start of a run. *)
LEMMA StartFrame ==
    ASSUME BillTypeOK, NEW j \in Jobs, NEW mode \in Modes, StartRun(j, mode)
    PROVE  /\ ~Running(j) /\ UNCHANGED <<now, usage, monthly, checkpoint, lateRows>>
           /\ job'[j].pc = "read" /\ job'[j].mode = mode /\ job'[j].from = checkpoint
           /\ job'[j].told = FALSE /\ job'[j].marked = FALSE /\ job'[j].status = "FAILED"
           /\ job'[j].alone <=> \A i \in Jobs : i # j => ~Running(i)
           /\ \A i \in Jobs : i # j => /\ job'[i].pc = job[i].pc /\ job'[i].status = job[i].status
                                       /\ job'[i].alone <=> job[i].alone /\ ~Running(i)
           /\ overlap' <=> overlap \/ ~job'[j].alone
<1> DEFINE others == {i \in Jobs \ {j} : Running(i)}
<1>1. /\ ~Running(j) /\ UNCHANGED <<now, usage, monthly, checkpoint, lateRows>>
      /\ overlap' = (overlap \/ others # {})
      /\ job' = [i \in Jobs |->
                    IF i = j
                    THEN [IdleJob EXCEPT !.pc = "read", !.mode = mode, !.from = checkpoint,
                              !.end = now, !.status = "FAILED", !.alone = others = {}]
                    ELSE [job[i] EXCEPT !.alone = @ /\ i \notin others]]
  BY DEF StartRun
<1>2. others = {} <=> \A i \in Jobs : i # j => ~Running(i)
  BY Zenon
<1>3. \A i \in Jobs : i # j => (i \in others <=> Running(i))
  BY Zenon
<1> HIDE DEF others
<1>4. /\ job'[j].pc = "read" /\ job'[j].mode = mode /\ job'[j].from = checkpoint
      /\ job'[j].told = FALSE /\ job'[j].marked = FALSE /\ job'[j].status = "FAILED"
      /\ job'[j].alone <=> others = {}
  BY <1>1 DEF IdleJob
<1>5. ASSUME NEW i \in Jobs, i # j
      PROVE  /\ job'[i].pc = job[i].pc /\ job'[i].status = job[i].status
             /\ job'[i].alone <=> job[i].alone /\ i \notin others
  <2>1. job[i] \in JobType /\ job'[i] = [job[i] EXCEPT !.alone = @ /\ i \notin others]
    BY <1>1, <1>5 DEF BillTypeOK
  <2> QED
    BY <2>1 DEF JobType
<1>6. overlap' <=> overlap \/ others # {}
  BY <1>1 DEF BillTypeOK
<1> QED
  BY <1>1, <1>2, <1>3, <1>4, <1>5, <1>6, Zenon

LEMMA AloneStep ==
    ASSUME BillInv, [BillNext]_billVars
    PROVE  AloneIsAlone'
<1> USE DEF BillInv, AloneIsAlone
<1>1. CASE \/ \E x \in UsageRows : CommitRow(x) \/ \E p \in Periods : WriteRow(x, p)
           \/ Elapse \/ UNCHANGED billVars
  BY <1>1 DEF CommitRow, WriteRow, Elapse, billVars, Running
<1>2. ASSUME NEW j \in Jobs, NEW mode \in Modes, StartRun(j, mode) PROVE AloneIsAlone'
  <2>1. \A i \in Jobs : i # j => (Running(i)' <=> Running(i))
    BY <1>2, StartFrame, ZenonT(60) DEF Running
  <2>2. Running(j)'
    BY <1>2, StartFrame DEF Running
  <2>3. /\ job'[j].alone <=> \A i \in Jobs : i # j => ~Running(i)
        /\ \A i \in Jobs : i # j => (job'[i].alone <=> job[i].alone /\ ~Running(i))
        /\ overlap' <=> overlap \/ ~job'[j].alone
    BY <1>2, StartFrame, Zenon
  <2> QED
    BY <2>1, <2>2, <2>3
<1>3. ASSUME NEW j \in Jobs, JobStep(j), ~\E mode \in Modes : StartRun(j, mode) PROVE AloneIsAlone'
  BY <1>3, JobFrame DEF JobsFrame, Running, IdleJob
<1> QED
  BY <1>1, <1>2, <1>3 DEF BillNext, JobStep

(* A run of which nothing is new stays as faithful as it was, whatever is  *)
(* committed meanwhile: a row that is on time lies behind no marker.       *)
LEMMA QuietFaithful ==
    ASSUME BillInv, NEW j \in Jobs, Faithful(j),
           UNCHANGED <<monthly, checkpoint, job>>,
           \A y \in OnTime' : UpTo(y, checkpoint) \/ Passed(j, y) => y \in OnTime,
           OnTime' \subseteq UsageRows,
           \A y \in UsageRows : y \in OnTime' \/ y \in Booked =>
               usage'[y].at = usage[y].at /\ usage'[y].period = usage[y].period
    PROVE  Faithful(j)'
<1>1. \A y \in OnTime' : /\ UpTo(y, checkpoint)' <=> UpTo(y, checkpoint)
                         /\ UpTo(y, job[j].next)' <=> UpTo(y, job[j].next)
                         /\ InWindow(y, job[j].from, job[j].end)' <=> InWindow(y, job[j].from, job[j].end)
                         /\ usage'[y].period = usage[y].period
  BY DEF UpTo, InWindow
<1>2. \A p \in Periods : Sum(j, p)' = Sum(j, p)
  BY DEF BillInv, RowsBooked, Sum, Booked
<1>3. job[j].periods \subseteq Periods
  BY DEF BillInv, BillTypeOK, JobType
<1>4. Advancing(j)'
  BY DEF Faithful, Advancing
<1>5. ReadsWell(j)'
  BY <1>1 DEF Faithful, ReadsWell, Behind, Passed
<1>6. SumsWell(j)'
  BY <1>1 DEF Faithful, SumsWell, Summing, Behind, Passed, Advancing
<1>7. WritesWell(j)'
  BY <1>2, <1>3 DEF Faithful, WritesWell
<1> QED
  BY <1>4, <1>5, <1>6, <1>7 DEF Faithful

(* What the task service does costs no run its faith and the watermark no row. *)
LEMMA LedgerStep ==
    ASSUME BillInv, \/ \E x \in UsageRows : CommitRow(x) \/ \E p \in Periods : WriteRow(x, p)
                    \/ Elapse \/ UNCHANGED billVars
    PROVE  AloneIsFaithful' /\ CountedUpToWatermark' /\ MismatchMeansOverlap'
<1>1. UNCHANGED <<monthly, checkpoint, job, overlap>>
  BY DEF CommitRow, WriteRow, Elapse, billVars
<1> DEFINE Stays ==
      /\ OnTime' \subseteq UsageRows
      /\ \A y \in UsageRows : y \in OnTime' \/ y \in Booked =>
            usage'[y].at = usage[y].at /\ usage'[y].period = usage[y].period
      /\ \A y \in OnTime' : UpTo(y, checkpoint) => y \in OnTime
      /\ \A y \in OnTime', j \in Jobs : Passed(j, y) => y \in OnTime
<1>2. Stays
  <2>1. ASSUME NEW x \in UsageRows, CommitRow(x) PROVE Stays
    <3>1. /\ Booked' = Booked \cup {x} /\ x \notin Booked
          /\ \A y \in UsageRows : usage'[y].at = usage[y].at /\ usage'[y].period = usage[y].period
      BY <2>1 DEF CommitRow, BillInv, BillTypeOK, Booked
    <3>2. /\ lateRows \subseteq lateRows'
          /\ (UpTo(x, checkpoint) \/ \E j \in Jobs : Passed(j, x)) => x \in lateRows'
      BY <2>1 DEF CommitRow
    <3> QED
      BY <3>1, <3>2 DEF OnTime, Booked
  <2>2. ASSUME NEW x \in UsageRows, NEW p \in Periods, WriteRow(x, p) PROVE Stays
    BY <2>2 DEF WriteRow, BillInv, BillTypeOK, OnTime, Booked
  <2>3. CASE Elapse \/ UNCHANGED billVars
    BY <2>3 DEF Elapse, billVars, OnTime, Booked
  <2> QED
    BY <2>1, <2>2, <2>3
<1>3. AloneIsFaithful'
  <2> SUFFICES ASSUME NEW j \in Jobs, (Running(j) /\ job[j].alone)' PROVE Faithful(j)'
    BY DEF AloneIsFaithful
  <2>1. Faithful(j)
    BY <1>1 DEF Running, BillInv, AloneIsFaithful
  <2> QED
    BY <1>1, <1>2, <2>1, QuietFaithful
<1>4. CountedUpToWatermark'
  <2> SUFFICES ASSUME ~overlap', NEW y \in OnTime', UpTo(y, checkpoint)'
               PROVE  y \in monthly'[usage'[y].period]
    BY Zenon DEF CountedUpToWatermark, OnTime
  <2>1. UpTo(y, checkpoint) /\ usage'[y].period = usage[y].period
    BY <1>1, <1>2 DEF UpTo
  <2>2. y \in Booked \ lateRows
    BY <1>2, <2>1 DEF OnTime
  <2> QED
    BY <1>1, <2>1, <2>2 DEF BillInv, CountedUpToWatermark
<1>5. MismatchMeansOverlap'
  BY <1>1 DEF BillInv, MismatchMeansOverlap
<1> QED
  BY <1>3, <1>4, <1>5

(* A run that starts has read nothing yet. *)
LEMMA StartStep ==
    ASSUME BillInv, NEW j \in Jobs, NEW mode \in Modes, StartRun(j, mode)
    PROVE  AloneIsFaithful' /\ CountedUpToWatermark' /\ MismatchMeansOverlap'
<1>0. BillTypeOK
  BY DEF BillInv
<1>1. AloneIsFaithful'
  <2> SUFFICES ASSUME NEW i \in Jobs, (Running(i) /\ job[i].alone)' PROVE Faithful(i)'
    BY DEF AloneIsFaithful
  <2>1. i = j
    BY <1>0, StartFrame, ZenonT(60) DEF Running
  <2>2. Faithful(j)'
    BY <1>0, StartFrame DEF Faithful, Advancing, ReadsWell, SumsWell, WritesWell, Summing
  <2> QED
    BY <2>1, <2>2
<1>2. CountedUpToWatermark'
  BY <1>0, StartFrame DEF BillInv, CountedUpToWatermark, Booked, UpTo
<1>3. MismatchMeansOverlap'
  <2> SUFFICES ASSUME NEW i \in Jobs, job'[i].status = "MISMATCH" PROVE ~job'[i].alone
    BY DEF MismatchMeansOverlap
  <2>1. CASE i = j
    BY <1>0, <2>1, StartFrame
  <2>2. CASE i # j
    BY <1>0, <2>2, StartFrame DEF BillInv, MismatchMeansOverlap
  <2> QED
    BY <2>1, <2>2
<1> QED
  BY <1>1, <1>2, <1>3

(* What a query tells a run. *)
LEMMA QueryFaithful ==
    ASSUME BillInv, NEW j \in Jobs, Faithful(j), job[j].alone,
           QueryPeriods(j) \/ QueryAggregatesGlobal(j) \/ QueryLatest(j)
    PROVE  Faithful(j)'
<1> DEFINE c == job[j]
<1>0. c \in JobType /\ job \in [Jobs -> JobType] /\ UNCHANGED <<usage, monthly, checkpoint, lateRows>>
      /\ OnTime' = OnTime /\ OnTime \subseteq Booked /\ c.pc = "read"
  BY DEF BillInv, BillTypeOK, QueryPeriods, QueryAggregatesGlobal, QueryLatest, OnTime, Booked
<1>1. CASE QueryPeriods(j)
  <2>1. /\ c.mode = "hourly" /\ job'[j].pc = "read" /\ job'[j].mode = c.mode /\ job'[j].told = TRUE
        /\ job'[j].from = c.from /\ job'[j].end = c.end /\ job'[j].next = c.next
        /\ job'[j].marked = c.marked /\ job'[j].periods = {usage[x].period : x \in Window(j)}
    BY <1>0, <1>1 DEF QueryPeriods, JobType
  <2>2. \A x \in OnTime : InWindow(x, c.from, c.end) => usage[x].period \in job'[j].periods
    BY <1>0, <2>1 DEF Window
  <2>3. \A x \in OnTime : InWindow(x, job[j].from, job[j].end)' <=> InWindow(x, c.from, c.end)
    BY <1>0, <2>1 DEF InWindow
  <2> QED
    BY <1>0, <2>1, <2>2, <2>3 DEF Faithful, Advancing, ReadsWell, SumsWell, WritesWell, Summing
<1>2. CASE QueryAggregatesGlobal(j)
  <2>1. /\ c.mode = "daily" /\ job'[j].pc = "read" /\ job'[j].mode = c.mode /\ job'[j].told = TRUE
        /\ job'[j].marked = c.marked /\ job'[j].periods = Periods /\ job'[j].rows = Booked
    BY <1>0, <1>2 DEF QueryAggregatesGlobal, JobType
  <2> QED
    BY <1>0, <2>1 DEF Faithful, Advancing, ReadsWell, SumsWell, WritesWell, Summing
<1>3. CASE QueryLatest(j)
  <2>1. /\ job'[j].pc = "read" /\ job'[j].mode = c.mode /\ job'[j].told = c.told
        /\ job'[j].from = c.from /\ job'[j].end = c.end /\ job'[j].periods = c.periods
        /\ job'[j].rows = c.rows /\ job'[j].next = NextMarker(j) /\ ~c.marked
    BY <1>0, <1>3 DEF QueryLatest, JobType
  <2>2. c.mode = "hourly" => job'[j].next = job'[j].from \/ job'[j].next.at <= job'[j].end
    BY <2>1, NextTyped DEF BillInv
  <2>3. \A x \in OnTime : Behind(j, x)
    BY <2>1 DEF Behind
  <2>4. \A x \in OnTime : /\ InWindow(x, job[j].from, job[j].end)' <=> InWindow(x, c.from, c.end)
                          /\ UpTo(x, checkpoint)' <=> UpTo(x, checkpoint)
    BY <1>0, <2>1 DEF InWindow, UpTo
  <2>5. Advancing(j)' /\ WritesWell(j)'
    BY <2>1 DEF Faithful, Advancing, WritesWell
  <2>6. ReadsWell(j)'
    BY <1>0, <2>1, <2>2, <2>3, <2>4 DEF Faithful, ReadsWell
  <2>7. SumsWell(j)'
    BY <1>0, <2>1, <2>3, <2>4 DEF Faithful, SumsWell, Summing
  <2> QED
    BY <2>5, <2>6, <2>7 DEF Faithful
<1> QED
  BY <1>1, <1>2, <1>3

(* Between the old watermark and the new one lies the window. *)
LEMMA BetweenMarkers ==
    ASSUME BillInv, NEW j \in Jobs, Faithful(j), job[j].pc = "read", job[j].mode = "hourly",
           job[j].marked, NEW x \in Booked, UpTo(x, job[j].next), ~UpTo(x, checkpoint)
    PROVE  InWindow(x, job[j].from, job[j].end)
<1>1. /\ job[j].from = checkpoint /\ checkpoint \in Marker /\ job[j].next \in Marker
      /\ job[j].next = job[j].from \/ job[j].next.at <= job[j].end
      /\ job[j].end \in 0..LastMs /\ usage[x].at \in Nat /\ x \in Nat
  BY DEF Faithful, ReadsWell, BillInv, BillTypeOK, JobType, Booked, UsageRows
<1>2. job[j].next.at <= job[j].end
  BY <1>1
<1>3. usage[x].at <= job[j].next.at
  BY <1>1, BillingAssumption DEF UpTo, Marker
<1>4. usage[x].at <= job[j].end
  BY <1>1, <1>2, <1>3, BillingAssumption DEF Marker
<1>5. \/ usage[x].at > checkpoint.at
      \/ checkpoint.id # 0 /\ usage[x].at = checkpoint.at /\ x > checkpoint.id
  BY <1>1, BillingAssumption DEF UpTo, Marker, UsageRows
<1> QED
  BY <1>1, <1>4, <1>5 DEF InWindow

(* The sums of the periods hold every row behind the marker. *)
LEMMA SumFaithful ==
    ASSUME BillInv, NEW j \in Jobs, Faithful(j), job[j].alone, QueryAggregatesForPeriods(j)
    PROVE  Faithful(j)'
<1> DEFINE c == job[j]
<1>0. /\ c \in JobType /\ job \in [Jobs -> JobType] /\ UNCHANGED <<usage, monthly, checkpoint, lateRows>>
      /\ OnTime' = OnTime /\ OnTime \subseteq Booked /\ c.pc = "read" /\ c.told /\ c.marked
  BY DEF BillInv, BillTypeOK, QueryAggregatesForPeriods, OnTime, Booked
<1>1. /\ job'[j].pc = "write" /\ job'[j].mode = c.mode /\ job'[j].told = c.told
      /\ job'[j].marked = c.marked /\ job'[j].next = c.next /\ job'[j].periods = c.periods
      /\ job'[j].rows = IF c.mode = "hourly" THEN Summed(j) ELSE c.rows
  BY <1>0 DEF QueryAggregatesForPeriods, JobType
<1>2. \A x \in OnTime : /\ UpTo(x, job[j].next)' <=> UpTo(x, c.next)
                        /\ UpTo(x, checkpoint)' <=> UpTo(x, checkpoint)
  BY <1>0, <1>1 DEF UpTo
<1>3. Advancing(j)' /\ ReadsWell(j)' /\ WritesWell(j)'
  BY <1>0, <1>1 DEF Faithful, Advancing, ReadsWell, WritesWell
<1>4. CASE c.mode = "daily"
  <2>1. SumsWell(j)'
    BY <1>0, <1>1, <1>2, <1>4 DEF Faithful, SumsWell, Summing, Behind
  <2> QED
    BY <1>3, <2>1 DEF Faithful
<1>5. CASE c.mode = "hourly"
  <2>1. \A x \in OnTime : usage[x].period \in c.periods => x \in job'[j].rows
    BY <1>0, <1>1, <1>5 DEF Summed, RowsOfPeriod
  <2>2. ASSUME NEW x \in OnTime, UpTo(x, c.next), ~UpTo(x, checkpoint)
        PROVE  usage[x].period \in c.periods
    <3>1. InWindow(x, c.from, c.end)
      BY <1>0, <1>5, <2>2, BetweenMarkers
    <3> QED
      BY <1>0, <1>5, <2>2, <3>1 DEF Faithful, ReadsWell, Behind
  <2>3. SumsWell(j)'
    BY <1>0, <1>1, <1>2, <1>5, <2>1, <2>2 DEF SumsWell
  <2> QED
    BY <1>3, <2>3 DEF Faithful
<1> QED
  BY <1>4, <1>5 DEF Faithful, Advancing, Modes

(* The sums are written, and what was counted still is. *)
LEMMA WriteFaithful ==
    ASSUME BillInv, NEW j \in Jobs, WriteAggregates(j)
    PROVE  /\ job[j].alone /\ Faithful(j) => Faithful(j)'
           /\ CountedUpToWatermark'
<1> DEFINE c == job[j]
<1>0. /\ c \in JobType /\ job \in [Jobs -> JobType] /\ UNCHANGED <<usage, checkpoint, lateRows, overlap>>
      /\ OnTime' = OnTime /\ OnTime \subseteq Booked /\ c.pc = "write" /\ c.periods \subseteq Periods
      /\ \A x \in OnTime : usage[x].period \in Periods
      /\ Booked' = Booked
  BY DEF BillInv, BillTypeOK, WriteAggregates, OnTime, Booked, JobType, Dated
<1>1. /\ job'[j].pc = "compare" /\ job'[j].mode = c.mode /\ job'[j].told = c.told
      /\ job'[j].marked = c.marked /\ job'[j].next = c.next /\ job'[j].periods = c.periods
      /\ job'[j].rows = c.rows
  BY <1>0 DEF WriteAggregates, JobType
<1>2. \A p \in Periods : monthly'[p] = IF p \in c.periods THEN Sum(j, p) ELSE monthly[p]
  BY DEF WriteAggregates, Merged
<1>3. \A p \in Periods : Sum(j, p)' = Sum(j, p)
  BY <1>0, <1>1 DEF Sum
<1>4. \A x \in OnTime : /\ UpTo(x, job[j].next)' <=> UpTo(x, c.next)
                        /\ UpTo(x, checkpoint)' <=> UpTo(x, checkpoint)
  BY <1>0, <1>1 DEF UpTo
<1>5. ASSUME Faithful(j) PROVE Faithful(j)'
  <2>1. Advancing(j)' /\ ReadsWell(j)'
    BY <1>0, <1>1, <1>5 DEF Faithful, Advancing, ReadsWell
  <2>2. WritesWell(j)'
    BY <1>0, <1>1, <1>2, <1>3 DEF WritesWell
  <2>3. SumsWell(j)'
    BY <1>0, <1>1, <1>4, <1>5 DEF Faithful, SumsWell, Summing, Behind
  <2> QED
    BY <2>1, <2>2, <2>3 DEF Faithful
<1>6. CountedUpToWatermark'
  <2> SUFFICES ASSUME ~overlap', NEW y \in OnTime', UpTo(y, checkpoint)'
               PROVE  y \in monthly'[usage'[y].period]
    BY Zenon DEF CountedUpToWatermark, OnTime
  <2>1. y \in OnTime /\ UpTo(y, checkpoint) /\ usage'[y] = usage[y] /\ ~overlap
    BY <1>0, <1>4
  <2>2. y \in monthly[usage[y].period]
    BY <2>1 DEF BillInv, CountedUpToWatermark, OnTime
  <2>3. Faithful(j)
    BY <1>0, <2>1 DEF BillInv, AloneIsAlone, AloneIsFaithful, Running
  <2>4. CASE usage[y].period \in c.periods
    <3>1. y \in c.rows
      BY <1>0, <2>1, <2>3, <2>4 DEF Faithful, SumsWell, Summing
    <3> QED
      BY <1>0, <1>2, <2>1, <2>4, <3>1 DEF Sum
  <2>5. CASE usage[y].period \notin c.periods
    BY <1>0, <1>2, <2>1, <2>2, <2>5
  <2> QED
    BY <2>4, <2>5
<1> QED
  BY <1>5, <1>6

(* A run that was alone finds no mismatch. *)
LEMMA CompareFaithful ==
    ASSUME BillInv, NEW j \in Jobs, CompareStored(j)
    PROVE  /\ job[j].alone => Faithful(j)'
           /\ MismatchMeansOverlap'
<1> DEFINE c == job[j]
<1>0. /\ c \in JobType /\ job \in [Jobs -> JobType]
      /\ UNCHANGED <<usage, monthly, checkpoint, lateRows>>
      /\ OnTime' = OnTime /\ c.pc = "compare" /\ c.periods \subseteq Periods
  BY DEF BillInv, BillTypeOK, CompareStored, OnTime, Booked, JobType
<1>1. /\ job'[j].mode = c.mode /\ job'[j].told = c.told /\ job'[j].alone = c.alone
      /\ job'[j].marked = c.marked /\ job'[j].next = c.next /\ job'[j].periods = c.periods
      /\ job'[j].rows = c.rows
      /\ job'[j].pc = IF Mismatches(j) = {} THEN "checkpoint" ELSE "end"
      /\ job'[j].status = IF Mismatches(j) = {} THEN "SUCCEEDED" ELSE "MISMATCH"
      /\ \A i \in Jobs : i # j => job'[i] = job[i]
  BY <1>0 DEF CompareStored, JobType
<1>2. ASSUME c.alone PROVE Mismatches(j) = {} /\ Faithful(j)
  <2>1. Faithful(j)
    BY <1>0, <1>2 DEF BillInv, AloneIsFaithful, Running
  <2> QED
    BY <1>0, <2>1 DEF Faithful, WritesWell, Mismatches
<1>3. ASSUME c.alone PROVE Faithful(j)'
  <2>1. Faithful(j) /\ job'[j].pc = "checkpoint"
    BY <1>1, <1>2, <1>3
  <2>2. Advancing(j)' /\ ReadsWell(j)'
    BY <1>0, <1>1, <2>1 DEF Faithful, Advancing, ReadsWell
  <2>3. \A p \in Periods : Sum(j, p)' = Sum(j, p)
    BY <1>0, <1>1 DEF Sum
  <2>4. WritesWell(j)'
    BY <1>0, <1>1, <2>1, <2>3 DEF Faithful, WritesWell
  <2>5. \A x \in OnTime : /\ UpTo(x, job[j].next)' <=> UpTo(x, c.next)
                          /\ UpTo(x, checkpoint)' <=> UpTo(x, checkpoint)
    BY <1>0, <1>1 DEF UpTo
  <2>6. SumsWell(j)'
    BY <1>0, <1>1, <2>1, <2>5 DEF Faithful, SumsWell, Summing, Behind
  <2> QED
    BY <2>2, <2>4, <2>6 DEF Faithful
<1>4. MismatchMeansOverlap'
  <2> SUFFICES ASSUME NEW i \in Jobs, job'[i].status = "MISMATCH" PROVE ~job'[i].alone
    BY DEF MismatchMeansOverlap
  <2>1. CASE i = j
    BY <1>1, <1>2, <2>1
  <2>2. CASE i # j
    BY <1>1, <2>2 DEF BillInv, MismatchMeansOverlap
  <2> QED
    BY <2>1, <2>2
<1> QED
  BY <1>3, <1>4

(* The watermark moves on, and nothing on time is behind it uncounted. *)
LEMMA SaveCounts ==
    ASSUME BillInv, NEW j \in Jobs, SaveCheckpoint(j)
    PROVE  CountedUpToWatermark'
<1> DEFINE c == job[j]
<1>0. /\ c \in JobType /\ UNCHANGED <<usage, monthly>> /\ checkpoint' = c.next
      /\ Booked' = Booked /\ c.pc = "checkpoint" /\ c.rows \subseteq Booked
      /\ \A x \in Booked : usage[x].period \in Periods
      /\ lateRows' = IF c.mode = "daily" /\ c.alone THEN lateRows \ c.rows ELSE lateRows
      /\ overlap' = (overlap /\ ~(c.mode = "daily" /\ c.alone))
  BY DEF BillInv, BillTypeOK, SaveCheckpoint, Booked, JobType, Dated, RowsBooked
<1> SUFFICES ASSUME ~overlap', NEW y \in Booked', y \notin lateRows', UpTo(y, checkpoint)'
             PROVE  y \in monthly'[usage'[y].period]
  BY Zenon DEF CountedUpToWatermark
<1>1. y \in Booked /\ UpTo(y, c.next) /\ usage'[y] = usage[y]
  BY <1>0 DEF UpTo
<1>2. c.alone
  BY <1>0 DEF BillInv, AloneIsAlone, Running
<1>3. Faithful(j)
  BY <1>0, <1>2 DEF BillInv, AloneIsFaithful, Running
<1>4. ASSUME y \in c.rows, usage[y].period \in c.periods PROVE y \in monthly[usage[y].period]
  BY <1>0, <1>3, <1>4 DEF Faithful, WritesWell, Sum
<1>5. ASSUME y \in OnTime, usage[y].period \in c.periods PROVE y \in c.rows
  BY <1>0, <1>1, <1>3, <1>5 DEF Faithful, SumsWell, Summing, Behind
<1>6. CASE c.mode = "daily"
  <2>1. c.periods = Periods
    BY <1>0, <1>3, <1>6 DEF Faithful, SumsWell, Summing
  <2>2. y \in c.rows \/ y \in OnTime
    BY <1>0, <1>1, <1>2, <1>6 DEF OnTime
  <2> QED
    BY <1>0, <1>1, <1>4, <1>5, <2>1, <2>2
<1>7. CASE c.mode = "hourly"
  <2>1. y \in OnTime /\ ~overlap
    BY <1>0, <1>1, <1>7 DEF OnTime
  <2>2. UpTo(y, checkpoint) \/ usage[y].period \in c.periods
    BY <1>0, <1>1, <1>3, <1>7, <2>1 DEF Faithful, SumsWell, Summing
  <2>3. CASE UpTo(y, checkpoint)
    BY <1>0, <1>1, <2>1, <2>3 DEF BillInv, CountedUpToWatermark, OnTime
  <2>4. CASE usage[y].period \in c.periods
    BY <1>0, <1>1, <1>4, <1>5, <2>1, <2>4
  <2> QED
    BY <2>2, <2>3, <2>4
<1> QED
  BY <1>3, <1>6, <1>7 DEF Faithful, Advancing, Modes

(* Every step of a run. *)
LEMMA RunStep ==
    ASSUME BillInv, NEW j \in Jobs, JobStep(j), ~\E mode \in Modes : StartRun(j, mode)
    PROVE  AloneIsFaithful' /\ CountedUpToWatermark' /\ MismatchMeansOverlap'
<1>0. /\ Running(j) /\ JobsFrame(j) /\ UNCHANGED usage /\ BillTypeOK
      /\ job'[j].alone = job[j].alone \/ job'[j] = IdleJob
  BY JobFrame DEF BillInv
<1>1. job[j].alone => Faithful(j)
  BY <1>0 DEF BillInv, AloneIsFaithful
<1>2. AloneIsFaithful'
  <2>1. CASE job'[j] = IdleJob
    BY <1>0, <2>1, OnlyThisRun DEF Running, IdleJob
  <2>2. CASE job'[j].alone = job[j].alone
    <3>1. job[j].alone => Faithful(j)' \/ job'[j] = IdleJob
      BY <1>1, QueryFaithful, SumFaithful, WriteFaithful, CompareFaithful
         DEF JobStep, SaveCheckpoint, EndRun, FailRun, BillInv, BillTypeOK
    <3> QED
      BY <1>0, <2>1, <2>2, <3>1, OnlyThisRun
  <2> QED
    BY <1>0, <2>1, <2>2
<1>3. CountedUpToWatermark'
  <2>1. CASE WriteAggregates(j) \/ SaveCheckpoint(j)
    BY <2>1, WriteFaithful, SaveCounts
  <2>2. CASE ~(WriteAggregates(j) \/ SaveCheckpoint(j))
    <3>1. UNCHANGED <<usage, monthly, checkpoint, lateRows, overlap>>
      BY <2>2 DEF JobStep, QueryPeriods, QueryAggregatesGlobal, QueryLatest,
                  QueryAggregatesForPeriods, CompareStored, EndRun, FailRun
    <3> QED
      BY <3>1 DEF BillInv, CountedUpToWatermark, Booked, UpTo
  <2> QED
    BY <2>1, <2>2
<1>4. MismatchMeansOverlap'
  <2>1. CASE CompareStored(j)
    BY <2>1, CompareFaithful
  <2>2. CASE ~CompareStored(j)
    <3>1. job'[j] = IdleJob \/ (job'[j].status = job[j].status /\ job'[j].alone = job[j].alone)
      BY <2>2 DEF JobStep, QueryPeriods, QueryAggregatesGlobal, QueryLatest,
                  QueryAggregatesForPeriods, WriteAggregates, SaveCheckpoint, EndRun, FailRun,
                  BillInv, BillTypeOK, JobType
    <3> QED
      BY <1>0, <3>1 DEF JobsFrame, BillInv, MismatchMeansOverlap, IdleJob
  <2> QED
    BY <2>1, <2>2
<1> QED
  BY <1>2, <1>3, <1>4

-----------------------------------------------------------------------------
(* The theorems. *)

LEMMA BillStart == BillInit => BillInv
<1> SUFFICES ASSUME BillInit PROVE BillInv
  OBVIOUS
<1>1. Booked = {} /\ \A j \in Jobs : job[j] = IdleJob
  BY DEF BillInit, Booked
<1>2. BillTypeOK
  <2>1. Null \in Marker /\ IdleJob \in JobType
    BY IdleTyped, BillingAssumption DEF Null, Marker
  <2>2. job \in [Jobs -> JobType] /\ checkpoint \in Marker /\ monthly \in [Periods -> SUBSET UsageRows]
    BY <2>1 DEF BillInit
  <2>3. now \in 1..LastMs /\ runs \in 0..MaxRuns /\ 0 \in 0..now
    BY BillingAssumption DEF BillInit
  <2>4. usage \in [UsageRows -> [state : {"none", "written", "committed"}, at : 0..now,
                                 period : Periods \cup {"none"}]]
    BY <2>3 DEF BillInit
  <2>5. /\ \A p \in Periods : monthly[p] \subseteq RowsOfPeriod(p)
        /\ lateRows \subseteq Booked /\ overlap \in BOOLEAN
    BY DEF BillInit
  <2> QED
    BY <2>2, <2>3, <2>4, <2>5 DEF BillTypeOK
<1> QED
  BY <1>1, <1>2 DEF BillInit, BillInv, Dated, RowsBooked, AloneIsAlone, AloneIsFaithful, Running,
     CountedUpToWatermark, MismatchMeansOverlap, IdleJob

LEMMA BillStep == BillInv /\ [BillNext]_billVars => BillInv'
<1> SUFFICES ASSUME BillInv, [BillNext]_billVars PROVE BillInv'
  OBVIOUS
<1>1. BillTypeOK' /\ Dated' /\ RowsBooked' /\ AloneIsAlone'
  BY BillTypeStep, AloneStep DEF BillInv
<1>2. AloneIsFaithful' /\ CountedUpToWatermark' /\ MismatchMeansOverlap'
  BY LedgerStep, StartStep, RunStep DEF BillNext, JobStep
<1> QED
  BY <1>1, <1>2 DEF BillInv

(* So it always holds. *)
LEMMA BillInvariant == BillSpec => []BillInv
BY BillStart, BillStep, PTL DEF BillSpec

(* The types of the tables and of the runs. *)
THEOREM BillingTypeCorrect == BillSpec => []BillTypeOK
<1>1. BillInv => BillTypeOK
  BY DEF BillInv
<1> QED
  BY <1>1, BillInvariant, PTL

(* The watermark passes over no row that is on time, however many          *)
(* processes run, fail and commit beside each other.                       *)
THEOREM NothingPassedOver == BillSpec => []CountedUpToWatermark
<1>1. BillInv => CountedUpToWatermark
  BY DEF BillInv
<1> QED
  BY <1>1, BillInvariant, PTL

(* A mismatch says only that two runs overlapped. *)
THEOREM MismatchTellsOverlap == BillSpec => []MismatchMeansOverlap
<1>1. BillInv => MismatchMeansOverlap
  BY DEF BillInv
<1> QED
  BY <1>1, BillInvariant, PTL

-----------------------------------------------------------------------------
(* The plans and the console: the two places of a statement. *)
Stores == {"db", "memory"}

-----------------------------------------------------------------------------
(* Types.                                                                  *)

LEMMA CatalogShapes ==
    ASSUME NEW catalog \in Catalogs, NEW wanted \in SUBSET BOOLEAN
    PROVE  /\ Offered(catalog) \in Offers
           /\ Wanted(catalog, wanted) \in Catalogs
           /\ Total(catalog) \in Nat
<1>1. Offered(catalog) \in Offers
  <2>1. \A id \in OnSale(catalog) : catalog[id].quota \in PlanQuotas
    BY DEF OnSale, Exists, Catalogs, Plan
  <2>2. Offered(catalog) \in [OnSale(catalog) -> PlanQuotas] /\ OnSale(catalog) \in SUBSET PlanIds
    BY <2>1 DEF Offered, OnSale
  <2> QED
    BY <2>2 DEF Offers
<1>2. Wanted(catalog, wanted) \in Catalogs
  BY PlansAssumption DEF Wanted, Catalogs, Exists
<1>3. Total(catalog) \in Nat
  BY PlansAssumption, FS_Subset, FS_CardinalityType DEF Total
<1> QED
  BY <1>1, <1>2, <1>3

LEMMA NoneListedShape == NoneListed \in Catalogs /\ NoList \in Offers
<1>1. NoList \in [{} -> PlanQuotas] /\ {} \in SUBSET PlanIds
  BY DEF NoList
<1> QED
  BY <1>1 DEF NoneListed, Catalogs, Offers

LEMMA PatchedShape ==
    ASSUME NEW row \in Plan \cup {NoPlan}, NEW patch \in Patches
    PROVE  Patched(row, patch) \in Plan \cup {NoPlan} /\ (row # NoPlan => Patched(row, patch) \in Plan)
BY ConsoleAssumption, PlansAssumption DEF Patched, Plan

LEMMA AnswersShape ==
    ASSUME NEW p, planFaults \in Nat, Answers(p)
    PROVE  planFaults' \in Nat
BY DEF Answers

LEMMA StaleShape ==
    ASSUME PlanTypeOK
    PROVE  /\ UsageIsOld => inquiry' \in [Readers -> Inquiry]
           /\ ListingIsOld => listing' \in Listing
<1>1. ASSUME NEW r \in Readers PROVE Stale(inquiry[r]) \in Inquiry
  BY DEF PlanTypeOK, Inquiry, Stale
<1>2. Stale(listing) \in Listing
  BY DEF PlanTypeOK, Listing, Stale
<1> QED
  BY <1>1, <1>2 DEF UsageIsOld, ListingIsOld

LEMMA PlansTypeInit == PlanInit => PlanTypeOK
BY PlansAssumption, NoneListedShape DEF PlanInit, PlanTypeOK, IdleUsage, IdleListing, Catalogs, Inquiry, Listing

LEMMA CreateType ==
    ASSUME PlanTypeOK, NEW p \in Stores, NEW id \in PlanIds, NEW row \in Plan, NEW answer,
           createPlan(p, id, row, answer)
    PROVE  PlanTypeOK'
<1>1. planTable' \in Catalogs /\ memoryPlans' \in Catalogs
  BY DEF createPlan, CreateInTable, CreateInMemory, PlanTypeOK, Catalogs
<1> QED
  BY <1>1, AnswersShape, StaleShape DEF createPlan, PlanTypeOK, userVars

LEMMA UpdateType ==
    ASSUME PlanTypeOK, NEW p \in Stores, NEW id \in PlanIds, NEW patch \in Patches, NEW answer,
           updatePlan(p, id, patch, answer)
    PROVE  PlanTypeOK'
<1>1. /\ planTable[id] \in Plan \cup {NoPlan} /\ memoryPlans[id] \in Plan \cup {NoPlan}
  BY DEF PlanTypeOK, Catalogs
<1>2. /\ Patched(planTable[id], patch) \in Plan \cup {NoPlan}
      /\ Patched(memoryPlans[id], patch) \in Plan \cup {NoPlan}
  BY <1>1, PatchedShape
<1>3. planTable' \in Catalogs /\ memoryPlans' \in Catalogs
  BY <1>2 DEF updatePlan, UpdateInTable, UpdateInMemory, PlanTypeOK, Catalogs
<1> QED
  BY <1>3, AnswersShape, StaleShape DEF updatePlan, PlanTypeOK, userVars

LEMMA TellsUsageType ==
    ASSUME PlanTypeOK, NEW r \in Readers, NEW p \in Stores, NEW record, TellsUsage(r, p, record),
           record \in Inquiry
    PROVE  PlanTypeOK'
<1>1. [record EXCEPT !.clean = record.clean /\ Heard(p)] \in Inquiry
  BY DEF Heard, Inquiry
<1> QED
  BY <1>1, AnswersShape DEF TellsUsage, PlanTypeOK, userVars

LEMMA TotalShape ==
    ASSUME NEW list \in Offers
    PROVE  \A id : TotalOf(list, id) \in Nat
<1>1. PICK ids \in SUBSET PlanIds : list \in [ids -> PlanQuotas]
  BY Zenon DEF Offers
<1>2. \A id \in DOMAIN list : list[id] \in Nat
  BY <1>1, PlansAssumption
<1> QED
  BY <1>2, PlansAssumption DEF TotalOf

LEMMA UserType ==
    ASSUME PlanTypeOK, UserNext
    PROVE  PlanTypeOK'
<1>1. CASE HoldUnit
  BY <1>1, StaleShape DEF HoldUnit, PlanTypeOK
<1>2. CASE ReleaseUnits
  BY <1>2, StaleShape DEF ReleaseUnits, PlanTypeOK
<1>3. ASSUME NEW p \in Stores, OrderChanges(p) PROVE PlanTypeOK'
  BY <1>3, StaleShape, AnswersShape DEF OrderChanges, PlanTypeOK, Stores
<1>4. ASSUME NEW p \in Stores, NEW r \in Readers, ListPlans(r, p) PROVE PlanTypeOK'
  <2>1. Listed(p) \in Offers
    BY CatalogShapes DEF Listed, PlanTypeOK
  <2> QED
    BY <1>4, <2>1, TellsUsageType, NoneListedShape DEF ListPlans, IdleUsage, Inquiry
<1>5. ASSUME NEW p \in Stores, NEW r \in Readers, ResolveActivePlanId(r, p) PROVE PlanTypeOK'
  <2>1. \A id : TotalOf(inquiry[r].list, id) \in Nat
    BY TotalShape DEF PlanTypeOK, Inquiry
  <2>2. inquiry[r] \in Inquiry
    BY DEF PlanTypeOK
  <2> QED
    BY <1>5, <2>1, <2>2, TellsUsageType, NoneListedShape DEF ResolveActivePlanId, Inquiry
<1>6. ASSUME NEW p \in Stores, NEW r \in Readers, CountUnits(r, p) PROVE PlanTypeOK'
  <2>1. inquiry[r] \in Inquiry
    BY DEF PlanTypeOK
  <2>2. (IF p = "memory" THEN inquiry[r].total
         ELSE IF used > inquiry[r].total THEN 0 ELSE inquiry[r].total - used) \in Nat
    BY <2>1 DEF PlanTypeOK, Inquiry
  <2> QED
    BY <1>6, <2>1, <2>2, TellsUsageType DEF CountUnits, Inquiry
<1> QED
  BY <1>1, <1>2, <1>3, <1>4, <1>5, <1>6 DEF UserNext, Stores

LEMMA ListingType ==
    ASSUME PlanTypeOK, ListingNext
    PROVE  PlanTypeOK'
<1>1. ASSUME NEW wanted \in {{TRUE}, {FALSE}, BOOLEAN}, listPlansForAdmin(wanted) PROVE PlanTypeOK'
  <2>1. wanted \in SUBSET BOOLEAN
    OBVIOUS
  <2> QED
    BY <1>1, <2>1, NoneListedShape
       DEF listPlansForAdmin, IdleListing, PlanTypeOK, Listing, userVars
<1>2. ASSUME NEW record \in Listing, Tells(record) PROVE listing' \in Listing
  BY <1>2 DEF Tells, Listing
<1>3. \A catalog \in {planTable, memoryPlans} :
        Wanted(catalog, listing.wanted) \in Catalogs /\ Total(Wanted(catalog, listing.wanted)) \in Nat
  BY CatalogShapes DEF PlanTypeOK, Listing
<1>4. CASE CountPlans
  <2>1. [listing EXCEPT !.counted = TRUE, !.total = Total(Wanted(planTable, listing.wanted))] \in Listing
    BY <1>3 DEF PlanTypeOK, Listing
  <2> QED
    BY <1>2, <1>4, <2>1 DEF CountPlans, PlanTypeOK, userVars
<1>5. CASE FindPlans
  <2>1. [listing EXCEPT !.found = TRUE, !.plans = Wanted(planTable, listing.wanted)] \in Listing
    BY <1>3 DEF PlanTypeOK, Listing
  <2> QED
    BY <1>2, <1>5, <2>1 DEF FindPlans, PlanTypeOK, userVars
<1>6. CASE ListingFails
  <2>1. [IdleListing EXCEPT !.pc = "error"] \in Listing
    BY NoneListedShape DEF IdleListing, Listing
  <2> QED
    BY <1>6, <2>1 DEF ListingFails, PlanTypeOK, userVars
<1>7. CASE ListFromMemory
  <2>1. [listing EXCEPT !.pc = "done", !.plans = Wanted(memoryPlans, listing.wanted),
                        !.total = Total(Wanted(memoryPlans, listing.wanted))] \in Listing
    BY <1>3 DEF PlanTypeOK, Listing
  <2> QED
    BY <1>7, <2>1 DEF ListFromMemory, PlanTypeOK, userVars
<1> QED
  BY <1>1, <1>4, <1>5, <1>6, <1>7 DEF ListingNext

LEMMA ForgottenType ==
    ASSUME PlanTypeOK, PlansForgotten, planFaults' = planFaults + 1
    PROVE  PlanTypeOK'
BY PlansAssumption, NoneListedShape
   DEF PlansForgotten, PlanTypeOK, Catalogs, IdleUsage, IdleListing, Inquiry, Listing

-----------------------------------------------------------------------------
(* The calls of the console.                                               *)

Kinds == {"task.replay", "webhook.retry", "plan.create", "plan.update"}

LEMMA FourOps ==
    ASSUME NEW op \in Ops
    PROVE  \/ \E t \in FailedTasks, k \in ReplayKeys : op = <<"task.replay", t, k>>
           \/ \E d \in Undelivered : op = <<"webhook.retry", d, NoEntry>>
           \/ \E body \in NewPlans : op = <<"plan.create", body.id, body.row>>
           \/ \E id \in PlanIds, patch \in Patches : op = <<"plan.update", id, patch>>
<1> DEFINE R == {<<"task.replay", t, k>> : t \in FailedTasks, k \in ReplayKeys}
           W == {<<"webhook.retry", d, NoEntry>> : d \in Undelivered}
           N == {<<"plan.create", body.id, body.row>> : body \in NewPlans}
           U == {<<"plan.update", id, patch>> : id \in PlanIds, patch \in Patches}
<1>1. Ops = R \cup W \cup N \cup U
  BY DEF Ops
<1>2. op \in R => \E t \in FailedTasks, k \in ReplayKeys : op = <<"task.replay", t, k>>
  OBVIOUS
<1>3. op \in W => \E d \in Undelivered : op = <<"webhook.retry", d, NoEntry>>
  OBVIOUS
<1>4. op \in N => \E body \in NewPlans : op = <<"plan.create", body.id, body.row>>
  OBVIOUS
<1>5. op \in U => \E id \in PlanIds, patch \in Patches : op = <<"plan.update", id, patch>>
  OBVIOUS
<1> HIDE DEF R, W, N, U
<1>6. op \in R \/ op \in W \/ op \in N \/ op \in U
  BY <1>1
<1> QED
  BY <1>2, <1>3, <1>4, <1>5, <1>6

(* A call has the parts that its kind has. *)
LEMMA PartsOf ==
    ASSUME ConsoleTypeOK, NEW c \in ConsoleCalls, Kind(c) \in Kinds
    PROVE  /\ console[c].op \in Ops
           /\ Kind(c) = "task.replay" =>
                /\ Item(c) \in FailedTasks /\ Body(c) \in ReplayKeys
                /\ console[c].op = <<"task.replay", Item(c), Body(c)>>
           /\ Kind(c) = "webhook.retry" => Item(c) \in Undelivered
           /\ Kind(c) = "plan.create" => Item(c) \in PlanIds /\ Body(c) \in Plan
           /\ Kind(c) = "plan.update" => Item(c) \in PlanIds /\ Body(c) \in Patches
<1>1. console[c].op \in Ops
  BY DEF Kind, Kinds, NoOp, ConsoleTypeOK, Call
<1>2. CASE \E t \in FailedTasks, k \in ReplayKeys : console[c].op = <<"task.replay", t, k>>
  BY <1>1, <1>2 DEF Kind, Item, Body
<1>3. CASE \E d \in Undelivered : console[c].op = <<"webhook.retry", d, NoEntry>>
  BY <1>1, <1>3 DEF Kind, Item, Body
<1>4. CASE \E body \in NewPlans : console[c].op = <<"plan.create", body.id, body.row>>
  BY <1>1, <1>4, ConsoleAssumption DEF Kind, Item, Body
<1>5. CASE \E id \in PlanIds, patch \in Patches : console[c].op = <<"plan.update", id, patch>>
  BY <1>1, <1>5 DEF Kind, Item, Body
<1> QED
  BY <1>1, <1>2, <1>3, <1>4, <1>5, FourOps

LEMMA ServedShape ==
    ASSUME ConsoleTypeOK, NEW c \in ConsoleCalls, NEW p, NEW answer \in Answer, NEW changed \in BOOLEAN,
           Served(c, p, answer, changed)
    PROVE  console' \in [ConsoleCalls -> Call]
<1>1. console[c] \in Call /\ Heard(p) \in BOOLEAN
  BY DEF ConsoleTypeOK, Heard
<1>2. [console[c] EXCEPT !.pc = IF answer = "SUCCESS" THEN "audit" ELSE "done",
                         !.answer = answer, !.changed = changed, !.clean = Heard(p)] \in Call
  BY <1>1 DEF Call
<1> QED
  BY <1>2 DEF Served, ConsoleTypeOK

LEMMA ConsoleTypeInit == ConsoleInit => ConsoleTypeOK
BY PlansTypeInit DEF ConsoleInit, ConsoleTypeOK, NewCall, Call, Roles, Answer, NoKey

LEMMA ConsoleTypeNext ==
    ASSUME ConsoleTypeOK, ConsoleNext
    PROVE  ConsoleTypeOK'
<1> USE DEF serviceVars
<1>1. CASE UserNext /\ UNCHANGED <<console, serviceVars, trail>>
  BY <1>1, UserType DEF ConsoleTypeOK
<1>2. CASE ListingNext /\ UNCHANGED <<console, serviceVars, trail>>
  BY <1>2, ListingType DEF ConsoleTypeOK
<1>3. ASSUME NEW c \in ConsoleCalls, NEW op \in Ops, NEW role \in Roles, Request(c, op, role)
      PROVE  ConsoleTypeOK'
  <2>1. /\ [NewCall EXCEPT !.pc = "service", !.op = op, !.role = role] \in Call
        /\ [NewCall EXCEPT !.pc = "done", !.op = op, !.role = role, !.answer = "FORBIDDEN"] \in Call
    BY DEF NewCall, Call, Answer
  <2>2. console' \in [ConsoleCalls -> Call]
    BY <1>3, <2>1 DEF Request, ConsoleTypeOK
  <2> QED
    BY <1>3, <2>2 DEF Request, ConsoleTypeOK, planVars, userVars, PlanTypeOK
<1>4. ASSUME NEW c \in ConsoleCalls, NEW p \in Stores, replayTask(c, p) PROVE ConsoleTypeOK'
  <2>1. Item(c) \in FailedTasks /\ Body(c) \in ReplayKeys
    BY <1>4, PartsOf DEF replayTask, InService, Kinds
  <2>2. PlanTypeOK'
    BY <1>4, AnswersShape DEF replayTask, ConsoleTypeOK, PlanTypeOK, userVars
  <2>3. replayed[Body(c)] \in [task : FailedTasks \cup {NoEntry}, answer : {"none", "SUCCESS", "INVALID"}]
    BY <2>1 DEF ConsoleTypeOK
  <2>4. CASE Repeat(c, p, Item(c), Body(c))
    <3>1. (IF replayed[Body(c)].task = Item(c) THEN replayed[Body(c)].answer ELSE "CONFLICT") \in Answer
      BY <2>3 DEF Answer
    <3>2. console' \in [ConsoleCalls -> Call]
      BY <2>4, <3>1, ServedShape DEF Repeat
    <3> QED
      BY <1>4, <2>2, <2>4, <3>2 DEF Repeat, replayTask, ConsoleTypeOK
  <2>5. ASSUME NEW answer \in Answer, Replay(Item(c), Body(c), answer),
               Served(c, p, IF Heard(p) THEN answer ELSE "ERROR", answer = "SUCCESS")
        PROVE  ConsoleTypeOK'
    <3>1. (IF Heard(p) THEN answer ELSE "ERROR") \in Answer /\ (answer = "SUCCESS") \in BOOLEAN
      BY DEF Answer
    <3>2. console' \in [ConsoleCalls -> Call]
      BY <2>5, <3>1, ServedShape
    <3>3. answer \in {"SUCCESS", "INVALID"}
      BY <2>5 DEF Replay
    <3> QED
      BY <1>4, <2>1, <2>2, <2>5, <3>2, <3>3 DEF Replay, replayTask, ConsoleTypeOK
  <2>6. CASE Served(c, p, "ERROR", FALSE) /\ UNCHANGED <<task, replayed>>
    <3>1. console' \in [ConsoleCalls -> Call]
      BY <2>6, ServedShape DEF Answer
    <3> QED
      BY <1>4, <2>2, <2>6, <3>1 DEF replayTask, ConsoleTypeOK
  <2> QED
    BY <1>4, <2>4, <2>5, <2>6 DEF replayTask
<1>5. ASSUME NEW c \in ConsoleCalls, NEW p \in Stores, retryWebhookDelivery(c, p) PROVE ConsoleTypeOK'
  <2>1. Item(c) \in Undelivered
    BY <1>5, PartsOf DEF retryWebhookDelivery, InService, Kinds
  <2>2. PlanTypeOK'
    BY <1>5, AnswersShape DEF retryWebhookDelivery, ConsoleTypeOK, PlanTypeOK, userVars
  <2>3. PICK answer \in Answer, changed \in BOOLEAN :
          retryDelivery(c, p, answer, changed) /\ Served(c, p, answer, changed)
    BY <1>5 DEF retryWebhookDelivery
  <2>4. retried' \subseteq Undelivered /\ console' \in [ConsoleCalls -> Call]
    BY <2>1, <2>3, ServedShape DEF retryDelivery, ConsoleTypeOK
  <2> QED
    BY <1>5, <2>2, <2>4 DEF retryWebhookDelivery, ConsoleTypeOK
<1>6. ASSUME NEW c \in ConsoleCalls, NEW p \in Stores, createPlanCall(c, p) PROVE ConsoleTypeOK'
  <2>1. Item(c) \in PlanIds /\ Body(c) \in Plan
    BY <1>6, PartsOf DEF createPlanCall, InService, Kinds
  <2>2. PICK answer \in Answer : /\ createPlan(p, Item(c), Body(c), answer)
                                 /\ Served(c, p, answer, answer = "SUCCESS" \/ PlansChanged)
    BY <1>6 DEF createPlanCall
  <2>3. PlanTypeOK'
    BY <2>1, <2>2, CreateType DEF ConsoleTypeOK
  <2>4. console' \in [ConsoleCalls -> Call]
    <3>1. (answer = "SUCCESS" \/ PlansChanged) \in BOOLEAN
      BY DEF PlansChanged
    <3> QED
      BY <2>2, <3>1, ServedShape
  <2> QED
    BY <1>6, <2>3, <2>4 DEF createPlanCall, ConsoleTypeOK
<1>7. ASSUME NEW c \in ConsoleCalls, NEW p \in Stores, updatePlanCall(c, p) PROVE ConsoleTypeOK'
  <2>1. Item(c) \in PlanIds /\ Body(c) \in Patches
    BY <1>7, PartsOf DEF updatePlanCall, InService, Kinds
  <2>2. PICK answer \in Answer : /\ updatePlan(p, Item(c), Body(c), answer)
                                 /\ Served(c, p, answer, answer = "SUCCESS" \/ PlansChanged)
    BY <1>7 DEF updatePlanCall
  <2>3. PlanTypeOK'
    BY <2>1, <2>2, UpdateType DEF ConsoleTypeOK
  <2>4. console' \in [ConsoleCalls -> Call]
    <3>1. (answer = "SUCCESS" \/ PlansChanged) \in BOOLEAN
      BY DEF PlansChanged
    <3> QED
      BY <2>2, <3>1, ServedShape
  <2> QED
    BY <1>7, <2>3, <2>4 DEF updatePlanCall, ConsoleTypeOK
<1>8. ASSUME NEW c \in ConsoleCalls, NEW p \in Stores, appendAdminAuditLog(c, p) PROVE ConsoleTypeOK'
  <2>1. PlanTypeOK'
    BY <1>8, AnswersShape DEF appendAdminAuditLog, ConsoleTypeOK, PlanTypeOK, userVars
  <2>2. trail' \in [{"db", "memory"} -> SUBSET ConsoleCalls]
    BY <1>8 DEF appendAdminAuditLog, ConsoleTypeOK, Stores
  <2>3. console' \in [ConsoleCalls -> Call]
    <3>1. console[c] \in Call /\ Heard(p) \in BOOLEAN
      BY DEF ConsoleTypeOK, Heard
    <3>2. [console[c] EXCEPT !.pc = "done", !.clean = console[c].clean /\ Heard(p)] \in Call
      BY <3>1 DEF Call
    <3>3. console' = [console EXCEPT ![c] = [console[c] EXCEPT !.pc = "done",
                                                !.clean = console[c].clean /\ Heard(p)]]
      BY <1>8 DEF appendAdminAuditLog, ConsoleTypeOK, Call
    <3> QED
      BY <3>2, <3>3 DEF ConsoleTypeOK
  <2> QED
    BY <1>8, <2>1, <2>2, <2>3 DEF appendAdminAuditLog, ConsoleTypeOK
<1>9. ASSUME NEW t \in FailedTasks, TaskFails(t) PROVE ConsoleTypeOK'
  BY <1>9 DEF TaskFails, ConsoleTypeOK, PlanTypeOK, planVars, userVars
<1>10. CASE GatewayRestarts
  <2>1. PlanTypeOK'
    BY <1>10, ForgottenType DEF GatewayRestarts, ConsoleTypeOK
  <2>2. console' \in [ConsoleCalls -> Call]
    BY <1>10 DEF GatewayRestarts, ConsoleTypeOK, Call
  <2> QED
    BY <1>10, <2>1, <2>2 DEF GatewayRestarts, ConsoleTypeOK
<1> QED
  BY <1>1, <1>2, <1>3, <1>4, <1>5, <1>6, <1>7, <1>8, <1>9, <1>10 DEF ConsoleNext, Stores

LEMMA ConsoleStutter == ConsoleTypeOK /\ UNCHANGED consoleVars => ConsoleTypeOK'
BY DEF consoleVars, serviceVars, planVars, userVars, ConsoleTypeOK, PlanTypeOK

(* The variables of the console and of the plans keep their types. *)
THEOREM ConsoleTypeCorrect == ConsoleSpec => []ConsoleTypeOK
<1>1. ConsoleTypeOK /\ [ConsoleNext]_consoleVars => ConsoleTypeOK'
  BY ConsoleTypeNext, ConsoleStutter
<1> QED
  BY ConsoleTypeInit, <1>1, PTL DEF ConsoleSpec

-----------------------------------------------------------------------------
(* What a user is told: each answer on its way holds what its reads have    *)
(* found, as long as it is of this moment.                                  *)

UsageOf(r) ==
    LET u == inquiry[r] IN
    planStore = "prisma" /\ u.fresh /\ u.clean =>
        /\ u.pc = "plan" /\ OnSale(planTable) # {} => u.list = Offered(planTable)
        /\ u.pc = "ledger" /\ PlanOnSale => u.total = Enforced
        /\ u.pc = "done" /\ PlanOnSale =>
              /\ u.total = Enforced
              /\ u.left = IF used > u.total THEN 0 ELSE u.total - used

UsageInv == \A r \in Readers : UsageOf(r)

LEMMA EnforcedShape == PlanTypeOK => Enforced \in Nat
<1> SUFFICES ASSUME PlanTypeOK PROVE Enforced \in Nat
  OBVIOUS
<1>1. ASSUME NEW id \in PlanIds PROVE QuotaOf(id) \in Nat
  <2>1. planTable[id] \in Plan \cup {NoPlan}
    BY DEF PlanTypeOK, Catalogs
  <2> QED
    BY <2>1, PlansAssumption DEF QuotaOf, Exists, Plan
<1>2. InForce("db") \in PlanIds /\ Free \in PlanIds
  BY PlansAssumption DEF PlanTypeOK, InForce
<1> QED
  BY <1>1, <1>2, PlansAssumption DEF Enforced

(* The plan of the order, as it is looked up among the plans on sale, has   *)
(* the quota that is enforced.                                              *)
LEMMA ToldAsEnforced ==
    ASSUME PlanTypeOK, planStore = "prisma", PlanOnSale
    PROVE  TotalOf(Offered(planTable), Resolved("db")) = Enforced
<1> DEFINE id == InForce("db")
           plan == IF Exists(planTable, id) THEN id ELSE Free
<1>1. /\ plan \in OnSale(planTable)
      /\ plan # Free => QuotaOf(plan) > 0
      /\ order["db"] = NoPlan => order["memory"] = NoPlan
  BY DEF PlanOnSale
<1>2. Resolved("db") = id
  BY <1>1 DEF Resolved, InForce
<1>3. \A other : QuotaOf(other) = IF Exists(planTable, other) THEN planTable[other].quota ELSE 0
  BY DEF QuotaOf
<1>4. /\ DOMAIN Offered(planTable) = OnSale(planTable)
      /\ \A other \in OnSale(planTable) : Offered(planTable)[other] = planTable[other].quota
      /\ \A other \in OnSale(planTable) : Exists(planTable, other) /\ planTable[other].quota \in Nat
  BY PlansAssumption DEF Offered, OnSale, PlanTypeOK, Catalogs, Exists, Plan
<1>5. CASE Exists(planTable, id)
  <2>1. id \in OnSale(planTable) /\ QuotaOf(id) = planTable[id].quota /\ planTable[id].quota \in Nat
    BY <1>1, <1>3, <1>4, <1>5
  <2>2. TotalOf(Offered(planTable), id) = IF QuotaOf(id) # 0 THEN QuotaOf(id) ELSE FreeQuota
    BY <1>4, <2>1 DEF TotalOf
  <2>3. id # Free => QuotaOf(id) > 0
    BY <1>1, <1>5
  <2>4. Enforced = IF QuotaOf(id) # 0 THEN QuotaOf(id) ELSE FreeQuota
    BY <2>1, <2>3 DEF Enforced
  <2> QED
    BY <1>2, <2>2, <2>4
<1>6. CASE ~Exists(planTable, id)
  <2>1. Free \in OnSale(planTable) /\ QuotaOf(Free) = planTable[Free].quota /\ planTable[Free].quota \in Nat
    BY <1>1, <1>3, <1>4, <1>6
  <2>2. id \notin OnSale(planTable) /\ QuotaOf(id) = 0
    BY <1>3, <1>4, <1>6
  <2>3. TotalOf(Offered(planTable), id) = IF QuotaOf(Free) # 0 THEN QuotaOf(Free) ELSE FreeQuota
    BY <1>4, <2>1, <2>2 DEF TotalOf
  <2>4. Enforced = IF QuotaOf(Free) # 0 THEN QuotaOf(Free) ELSE FreeQuota
    BY <2>1, <2>2 DEF Enforced
  <2> QED
    BY <1>2, <2>3, <2>4
<1> QED
  BY <1>5, <1>6

LEMMA QuotaKept ==
    ASSUME UNCHANGED <<planStore, planTable, userVars>>
    PROVE  /\ planStore' = planStore /\ used' = used
           /\ PlanOnSale' <=> PlanOnSale
           /\ Enforced' = Enforced
           /\ OnSale(planTable)' = OnSale(planTable)
           /\ Offered(planTable)' = Offered(planTable)
<1> USE DEF userVars
<1>1. planStore' = planStore /\ planTable' = planTable /\ order' = order /\ used' = used
  OBVIOUS
<1>2. Enforced' = Enforced
  BY <1>1 DEF Enforced, QuotaOf, InForce, Exists
<1>3. PlanOnSale' <=> PlanOnSale
  BY <1>1 DEF PlanOnSale, QuotaOf, InForce, Exists, OnSale
<1>4. OnSale(planTable)' = OnSale(planTable) /\ Offered(planTable)' = Offered(planTable)
  BY <1>1 DEF OnSale, Offered, Exists
<1> QED
  BY <1>1, <1>2, <1>3, <1>4

LEMMA UsageKept ==
    ASSUME UsageInv, UNCHANGED <<planStore, planTable, userVars, inquiry>>
    PROVE  UsageInv'
BY QuotaKept DEF UsageInv, UsageOf

LEMMA UsageOld ==
    ASSUME PlanTypeOK, UsageIsOld
    PROVE  UsageInv'
<1>1. \A r \in Readers : inquiry'[r].fresh = FALSE
  BY DEF UsageIsOld, Stale, PlanTypeOK, Inquiry
<1> QED
  BY <1>1 DEF UsageInv, UsageOf

LEMMA UsageForgotten == PlansForgotten => UsageInv'
<1>1. PlansForgotten => \A r \in Readers : inquiry'[r].fresh = FALSE
  BY DEF PlansForgotten, IdleUsage
<1> QED
  BY <1>1 DEF UsageInv, UsageOf

(* A read takes its reader's answer one step further. *)
LEMMA UsageTold ==
    ASSUME PlanTypeOK, UsageInv, NEW r \in Readers, NEW p \in Stores, NEW record \in Inquiry,
           TellsUsage(r, p, record),
           planStore = "prisma" /\ record.fresh /\ record.clean /\ p = "db" =>
               /\ record.pc = "plan" /\ OnSale(planTable) # {} => record.list = Offered(planTable)
               /\ record.pc = "ledger" /\ PlanOnSale => record.total = Enforced
               /\ record.pc = "done" /\ PlanOnSale =>
                     /\ record.total = Enforced
                     /\ record.left = IF used > record.total THEN 0 ELSE record.total - used
    PROVE  UsageInv'
<1>1. UNCHANGED <<planStore, planTable, userVars>>
  BY DEF TellsUsage
<1>2. /\ inquiry'[r] = [record EXCEPT !.clean = record.clean /\ Heard(p)]
      /\ \A s \in Readers \ {r} : inquiry'[s] = inquiry[s]
  BY DEF TellsUsage, PlanTypeOK
<1>3. \A s \in Readers \ {r} : UsageOf(s)'
  BY <1>1, <1>2, QuotaKept DEF UsageInv, UsageOf
<1>4. /\ inquiry'[r].pc = record.pc /\ inquiry'[r].list = record.list /\ inquiry'[r].total = record.total
      /\ inquiry'[r].left = record.left /\ inquiry'[r].fresh = record.fresh
      /\ inquiry'[r].clean <=> record.clean /\ (planStore = "prisma" => p = "db")
  BY <1>2 DEF Inquiry, Heard
<1>5. UsageOf(r)'
  BY <1>1, <1>4, QuotaKept DEF UsageOf
<1> QED
  BY <1>3, <1>5 DEF UsageInv

LEMMA UsageByUser ==
    ASSUME PlanTypeOK, UsageInv, UserNext
    PROVE  UsageInv'
<1>1. CASE HoldUnit
  BY <1>1, UsageOld DEF HoldUnit
<1>2. CASE ReleaseUnits
  BY <1>2, UsageOld DEF ReleaseUnits
<1>3. ASSUME NEW p \in Stores, OrderChanges(p) PROVE UsageInv'
  BY <1>3, UsageOld DEF OrderChanges
<1>4. ASSUME NEW p \in Stores, NEW r \in Readers, ListPlans(r, p) PROVE UsageInv'
  <2> DEFINE record == [IdleUsage EXCEPT !.pc = "plan", !.list = Listed(p), !.fresh = TRUE, !.clean = TRUE]
  <2>1. Listed(p) \in Offers
    BY CatalogShapes DEF Listed, PlanTypeOK
  <2>2. record \in Inquiry /\ record.pc = "plan" /\ record.list = Listed(p)
    BY <2>1 DEF IdleUsage, Inquiry
  <2>3. TellsUsage(r, p, record)
    BY <1>4 DEF ListPlans
  <2>4. p = "db" /\ OnSale(planTable) # {} => Listed(p) = Offered(planTable)
    BY DEF Listed
  <2> HIDE DEF record
  <2> QED
    BY <2>2, <2>3, <2>4, UsageTold
<1>5. ASSUME NEW p \in Stores, NEW r \in Readers, ResolveActivePlanId(r, p) PROVE UsageInv'
  <2> DEFINE record == [inquiry[r] EXCEPT !.pc = "ledger", !.list = NoList,
                                          !.total = TotalOf(inquiry[r].list, Resolved(p))]
  <2>1. inquiry[r] \in Inquiry /\ TotalOf(inquiry[r].list, Resolved(p)) \in Nat
    BY TotalShape DEF PlanTypeOK, Inquiry
  <2>2. /\ record \in Inquiry /\ record.pc = "ledger"
        /\ record.total = TotalOf(inquiry[r].list, Resolved(p))
        /\ record.fresh = inquiry[r].fresh /\ record.clean = inquiry[r].clean
    BY <2>1, NoneListedShape DEF Inquiry
  <2>3. TellsUsage(r, p, record) /\ inquiry[r].pc = "plan"
    BY <1>5 DEF ResolveActivePlanId
  <2>4. ASSUME planStore = "prisma", record.fresh, record.clean, p = "db", PlanOnSale
        PROVE  record.total = Enforced
    <3>1. OnSale(planTable) # {}
      BY <2>4 DEF PlanOnSale
    <3>2. inquiry[r].list = Offered(planTable)
      BY <2>2, <2>3, <2>4, <3>1 DEF UsageInv, UsageOf
    <3> QED
      BY <2>2, <2>4, <3>2, ToldAsEnforced
  <2> HIDE DEF record
  <2> QED
    BY <2>2, <2>3, <2>4, UsageTold
<1>6. ASSUME NEW p \in Stores, NEW r \in Readers, CountUnits(r, p) PROVE UsageInv'
  <2> DEFINE rest == IF p = "memory" THEN inquiry[r].total
                     ELSE IF used > inquiry[r].total THEN 0 ELSE inquiry[r].total - used
             record == [inquiry[r] EXCEPT !.pc = "done", !.left = rest]
  <2>1. inquiry[r] \in Inquiry
    BY DEF PlanTypeOK
  <2>2. rest \in Nat
    BY <2>1 DEF PlanTypeOK, Inquiry
  <2>3. TellsUsage(r, p, record) /\ inquiry[r].pc = "ledger"
    BY <1>6 DEF CountUnits
  <2>4. p = "db" => rest = IF used > inquiry[r].total THEN 0 ELSE inquiry[r].total - used
    OBVIOUS
  <2> HIDE DEF rest
  <2>5. /\ record \in Inquiry /\ record.pc = "done" /\ record.left = rest /\ record.total = inquiry[r].total
        /\ record.fresh = inquiry[r].fresh /\ record.clean = inquiry[r].clean
    BY <2>1, <2>2 DEF Inquiry
  <2>6. ASSUME planStore = "prisma", record.fresh, record.clean, PlanOnSale
        PROVE  record.total = Enforced
    BY <2>3, <2>5, <2>6 DEF UsageInv, UsageOf
  <2> HIDE DEF record
  <2> QED
    BY <2>3, <2>4, <2>5, <2>6, UsageTold
<1> QED
  BY <1>1, <1>2, <1>3, <1>4, <1>5, <1>6 DEF UserNext, Stores

LEMMA UsageInit == ConsoleInit => UsageInv
BY DEF ConsoleInit, PlanInit, IdleUsage, UsageInv, UsageOf

LEMMA UsageNext ==
    ASSUME ConsoleTypeOK, UsageInv, [ConsoleNext]_consoleVars
    PROVE  UsageInv'
<1>0. PlanTypeOK
  BY DEF ConsoleTypeOK
<1>1. CASE UserNext
  BY <1>0, <1>1, UsageByUser
<1>2. CASE ListingNext
  BY <1>2, UsageKept DEF ListingNext, listPlansForAdmin, CountPlans, FindPlans, ListingFails, ListFromMemory
<1>3. ASSUME NEW c \in ConsoleCalls, NEW op \in Ops, NEW role \in Roles, Request(c, op, role)
      PROVE  UsageInv'
  BY <1>3, UsageKept DEF Request, planVars, userVars
<1>4. ASSUME NEW c \in ConsoleCalls, NEW p \in Stores,
             replayTask(c, p) \/ retryWebhookDelivery(c, p) \/ appendAdminAuditLog(c, p)
      PROVE  UsageInv'
  BY <1>4, UsageKept DEF replayTask, retryWebhookDelivery, appendAdminAuditLog
<1>5. ASSUME NEW c \in ConsoleCalls, NEW p \in Stores, createPlanCall(c, p) \/ updatePlanCall(c, p)
      PROVE  UsageInv'
  BY <1>0, <1>5, UsageOld DEF createPlanCall, createPlan, updatePlanCall, updatePlan
<1>6. ASSUME NEW t \in FailedTasks, TaskFails(t) PROVE UsageInv'
  BY <1>6, UsageKept DEF TaskFails, planVars, userVars
<1>7. CASE GatewayRestarts
  BY <1>7, UsageForgotten DEF GatewayRestarts
<1>8. CASE UNCHANGED consoleVars
  BY <1>8, UsageKept DEF consoleVars, planVars, userVars
<1> QED
  BY <1>1, <1>2, <1>3, <1>4, <1>5, <1>6, <1>7, <1>8 DEF ConsoleNext, Stores

LEMMA UsageTells == PlanTypeOK /\ UsageInv => UsageIsEnforced
<1> SUFFICES ASSUME PlanTypeOK, UsageInv, NEW r \in Readers, planStore = "prisma",
                    inquiry[r].pc = "done", inquiry[r].fresh, inquiry[r].clean, PlanOnSale
             PROVE  /\ inquiry[r].total = Enforced
                    /\ inquiry[r].left > 0 <=> used < Enforced
                    /\ used <= Enforced => used + inquiry[r].left = Enforced
  BY DEF UsageIsEnforced
<1>1. /\ inquiry[r].total = Enforced
      /\ inquiry[r].left = IF used > inquiry[r].total THEN 0 ELSE inquiry[r].total - used
  BY DEF UsageInv, UsageOf
<1>2. Enforced \in Nat /\ used \in Nat
  BY EnforcedShape DEF PlanTypeOK
<1> HIDE DEF Enforced
<1> QED
  BY <1>1, <1>2

(* The quota a user is told, and what is left of it, is the quota that the  *)
(* creation of a task goes by, for every table of plans: an answer whose    *)
(* statements all came from the database, since whose first read nothing    *)
(* has changed, for a plan that is on sale (getMyUsage, checkWithPrisma).   *)
THEOREM UsageToldIsEnforced == ConsoleSpec => []UsageIsEnforced
<1> DEFINE Inv == ConsoleTypeOK /\ UsageInv
<1>1. ConsoleInit => Inv
  BY ConsoleTypeInit, UsageInit
<1>2. Inv /\ [ConsoleNext]_consoleVars => Inv'
  BY ConsoleTypeNext, ConsoleStutter, UsageNext
<1>3. Inv => UsageIsEnforced
  BY UsageTells DEF ConsoleTypeOK
<1> QED
  BY <1>1, <1>2, <1>3, PTL DEF ConsoleSpec

-----------------------------------------------------------------------------
(* What the console is shown, and what it did.                              *)

(* A list on its way holds what its statements have found.                  *)
ListingInv ==
    /\ listing.fresh /\ listing.pc = "read" =>
        /\ listing.found => planStore = "prisma" /\ listing.plans = Wanted(planTable, listing.wanted)
        /\ listing.counted =>
              planStore = "prisma" /\ listing.total = Total(Wanted(planTable, listing.wanted))
    /\ ListingIsOfStore

LEMMA ListingKept ==
    ASSUME ListingInv, UNCHANGED <<planStore, planTable, memoryPlans, listing>>
    PROVE  ListingInv'
BY DEF ListingInv, ListingIsOfStore, Wanted, Exists, Total

LEMMA ListingOld ==
    ASSUME PlanTypeOK, ListingIsOld \/ PlansForgotten
    PROVE  ListingInv'
<1>1. listing'.fresh = FALSE
  BY DEF ListingIsOld, Stale, PlansForgotten, IdleListing, PlanTypeOK, Listing
<1> QED
  BY <1>1 DEF ListingInv, ListingIsOfStore

(* A statement that found its part of the list. *)
LEMMA ListingTold ==
    ASSUME PlanTypeOK, planStore = "prisma", UNCHANGED <<planStore, planTable, memoryPlans>>,
           NEW record \in Listing, Tells(record), record.pc = "read",
           record.fresh => /\ record.found => record.plans = Wanted(planTable, record.wanted)
                           /\ record.counted => record.total = Total(Wanted(planTable, record.wanted))
    PROVE  ListingInv'
<1>1. planStore' = planStore /\ planTable' = planTable /\ memoryPlans' = memoryPlans
  OBVIOUS
<1>2. /\ listing'.fresh = record.fresh /\ listing'.found = record.found
      /\ listing'.counted = record.counted /\ listing'.plans = record.plans
      /\ listing'.total = record.total /\ listing'.wanted = record.wanted
      /\ listing'.pc = IF record.counted /\ record.found THEN "done" ELSE record.pc
  BY DEF Tells, Listing
<1>3. Wanted(planTable, record.wanted)' = Wanted(planTable, record.wanted)
  BY <1>1 DEF Wanted, Exists
<1> QED
  BY <1>1, <1>2 DEF ListingInv, ListingIsOfStore

LEMMA ListingByConsole ==
    ASSUME PlanTypeOK, ListingInv, ListingNext
    PROVE  ListingInv'
<1>0. listing \in Listing
  BY DEF PlanTypeOK
<1>1. ASSUME NEW wanted, listPlansForAdmin(wanted) PROVE ListingInv'
  <2>1. listing'.pc = "read" /\ listing'.counted = FALSE /\ listing'.found = FALSE
    BY <1>1 DEF listPlansForAdmin, IdleListing
  <2> QED
    BY <2>1 DEF ListingInv, ListingIsOfStore
<1>2. CASE CountPlans
  <2> DEFINE total  == Total(Wanted(planTable, listing.wanted))
             record == [listing EXCEPT !.counted = TRUE, !.total = total]
  <2>1. total \in Nat
    BY <1>0, CatalogShapes DEF PlanTypeOK, Listing
  <2> HIDE DEF total
  <2>2. /\ record \in Listing /\ record.pc = listing.pc /\ record.fresh = listing.fresh
        /\ record.found = listing.found /\ record.plans = listing.plans
        /\ record.wanted = listing.wanted /\ record.total = total
    BY <1>0, <2>1 DEF Listing
  <2>3. Tells(record)
    BY <1>2 DEF CountPlans, total
  <2>4. listing.fresh /\ listing.found => listing.plans = Wanted(planTable, listing.wanted)
    BY <1>2 DEF CountPlans, ListingInv
  <2> HIDE DEF record
  <2> QED
    BY <1>2, <2>2, <2>3, <2>4, ListingTold DEF CountPlans, total
<1>3. CASE FindPlans
  <2> DEFINE plans  == Wanted(planTable, listing.wanted)
             record == [listing EXCEPT !.found = TRUE, !.plans = plans]
  <2>1. plans \in Catalogs
    BY <1>0, CatalogShapes DEF PlanTypeOK, Listing
  <2> HIDE DEF plans
  <2>2. /\ record \in Listing /\ record.pc = listing.pc /\ record.fresh = listing.fresh
        /\ record.counted = listing.counted /\ record.plans = plans
        /\ record.wanted = listing.wanted /\ record.total = listing.total
    BY <1>0, <2>1 DEF Listing
  <2>3. Tells(record)
    BY <1>3 DEF FindPlans, plans
  <2>4. listing.fresh /\ listing.counted => listing.total = Total(Wanted(planTable, listing.wanted))
    BY <1>3 DEF FindPlans, ListingInv
  <2> HIDE DEF record
  <2> QED
    BY <1>3, <2>2, <2>3, <2>4, ListingTold DEF FindPlans, plans
<1>4. CASE ListingFails
  <2>1. listing'.fresh = FALSE
    BY <1>4 DEF ListingFails, IdleListing
  <2> QED
    BY <2>1 DEF ListingInv, ListingIsOfStore
<1>5. CASE ListFromMemory
  <2>1. /\ listing'.pc = "done" /\ listing'.wanted = listing.wanted
        /\ listing'.plans = Wanted(memoryPlans, listing.wanted)
        /\ listing'.total = Total(Wanted(memoryPlans, listing.wanted))
    BY <1>0, <1>5 DEF ListFromMemory, Listing
  <2>2. planStore' = "memory" /\ memoryPlans' = memoryPlans
    BY <1>5 DEF ListFromMemory
  <2> QED
    BY <2>1, <2>2 DEF ListingInv, ListingIsOfStore
<1> QED
  BY <1>1, <1>2, <1>3, <1>4, <1>5 DEF ListingNext

LEMMA ListingInit == ConsoleInit => ListingInv
BY DEF ConsoleInit, PlanInit, IdleListing, ListingInv, ListingIsOfStore

LEMMA ListingStep ==
    ASSUME ConsoleTypeOK, ListingInv, [ConsoleNext]_consoleVars
    PROVE  ListingInv'
<1>0. PlanTypeOK
  BY DEF ConsoleTypeOK
<1>1. CASE UserNext
  BY <1>1, ListingKept
     DEF UserNext, HoldUnit, ReleaseUnits, OrderChanges, ListPlans, ResolveActivePlanId, CountUnits, TellsUsage
<1>2. CASE ListingNext
  BY <1>0, <1>2, ListingByConsole
<1>3. ASSUME NEW c \in ConsoleCalls, NEW op \in Ops, NEW role \in Roles, Request(c, op, role)
      PROVE  ListingInv'
  BY <1>3, ListingKept DEF Request, planVars
<1>4. ASSUME NEW c \in ConsoleCalls, NEW p \in Stores,
             replayTask(c, p) \/ retryWebhookDelivery(c, p) \/ appendAdminAuditLog(c, p)
      PROVE  ListingInv'
  BY <1>4, ListingKept DEF replayTask, retryWebhookDelivery, appendAdminAuditLog
<1>5. ASSUME NEW c \in ConsoleCalls, NEW p \in Stores, createPlanCall(c, p) \/ updatePlanCall(c, p)
      PROVE  ListingInv'
  BY <1>0, <1>5, ListingOld DEF createPlanCall, createPlan, updatePlanCall, updatePlan
<1>6. ASSUME NEW t \in FailedTasks, TaskFails(t) PROVE ListingInv'
  BY <1>6, ListingKept DEF TaskFails, planVars
<1>7. CASE GatewayRestarts
  BY <1>0, <1>7, ListingOld DEF GatewayRestarts
<1>8. CASE UNCHANGED consoleVars
  BY <1>8, ListingKept DEF consoleVars, planVars
<1> QED
  BY <1>1, <1>2, <1>3, <1>4, <1>5, <1>6, <1>7, <1>8 DEF ConsoleNext, Stores

-----------------------------------------------------------------------------
Audited == trail["db"] \cup trail["memory"]

(* The call changed something, or repeats a replay that did.                *)
Justified(c) ==
    \/ console[c].changed
    \/ /\ Kind(c) = "task.replay"
       /\ \E b \in ConsoleCalls \ {c} : console[b].changed /\ console[b].op = console[c].op

CallOf(c) ==
    LET call == console[c] IN
    /\ call.pc \in {"new", "service"} => ~call.changed /\ c \notin Audited
    /\ call.pc = "service" => Kind(c) \in Permitted(call.role)
    /\ call.pc = "audit" => Justified(c) /\ Kind(c) \in Permitted(call.role)
    /\ c \in Audited => call.pc = "done" /\ Justified(c) /\ Kind(c) \in Permitted(call.role)
    /\ planStore = "prisma" /\ call.pc = "done" /\ call.changed /\ call.clean => c \in trail["db"]

(* A key that answers "SUCCESS" was used by a call that changed the task.   *)
KeyOf(k) ==
    replayed[k].answer = "SUCCESS" =>
        \E b \in ConsoleCalls : /\ console[b].changed
                                /\ console[b].op = <<"task.replay", replayed[k].task, k>>

AuditInv == (\A c \in ConsoleCalls : CallOf(c)) /\ (\A k \in ReplayKeys : KeyOf(k))

(* The calls that have changed something stay as they are.                  *)
ChangesKept ==
    \A b \in ConsoleCalls :
        console[b].changed => console'[b].changed /\ console'[b].op = console[b].op

LEMMA JustifiedKept ==
    ASSUME ChangesKept, NEW c \in ConsoleCalls, Justified(c),
           console'[c].op = console[c].op, console[c].changed => console'[c].changed
    PROVE  Justified(c)'
BY DEF ChangesKept, Justified, Kind

LEMMA KeysKept ==
    ASSUME ChangesKept, \A k \in ReplayKeys : KeyOf(k), UNCHANGED replayed
    PROVE  (\A k \in ReplayKeys : KeyOf(k))'
BY DEF ChangesKept, KeyOf

LEMMA AuditKept ==
    ASSUME AuditInv, UNCHANGED <<planStore, console, trail, replayed>>
    PROVE  AuditInv'
<1>1. planStore' = planStore /\ console' = console /\ trail' = trail /\ replayed' = replayed
  OBVIOUS
<1>2. ASSUME NEW c \in ConsoleCalls PROVE CallOf(c)'
  <2>1. Justified(c)' <=> Justified(c)
    BY <1>1 DEF Justified, Kind
  <2> QED
    BY <1>1, <2>1 DEF AuditInv, CallOf, Kind, Audited
<1>3. ASSUME NEW k \in ReplayKeys PROVE KeyOf(k)'
  BY <1>1, <1>3 DEF AuditInv, KeyOf
<1> QED
  BY <1>2, <1>3 DEF AuditInv

(* A call moves, and the others stay where they are.                        *)
LEMMA OthersKept ==
    ASSUME AuditInv, UNCHANGED planStore, ChangesKept, NEW c \in ConsoleCalls,
           NEW b \in ConsoleCalls \ {c}, console'[b] = console[b],
           b \in trail'["db"] <=> b \in trail["db"], b \in Audited' <=> b \in Audited
    PROVE  CallOf(b)'
<1>1. Justified(b) => Justified(b)'
  BY JustifiedKept
<1>2. CallOf(b) /\ planStore' = planStore
  BY DEF AuditInv
<1> QED
  BY <1>1, <1>2 DEF CallOf, Kind

(* The service answers a call.                                              *)
LEMMA ServiceAnswers ==
    ASSUME ConsoleTypeOK, AuditInv, NEW c \in ConsoleCalls, console[c].pc = "service",
           NEW p \in Stores, NEW answer \in Answer, NEW changed \in BOOLEAN,
           Served(c, p, answer, changed), UNCHANGED <<planStore, trail>>,
           answer = "SUCCESS" => changed \/ Justified(c),
           planStore = "prisma" /\ Heard(p) /\ changed => answer = "SUCCESS"
    PROVE  /\ \A b \in ConsoleCalls : CallOf(b)'
           /\ ChangesKept
           /\ console'[c].changed = changed /\ console'[c].op = console[c].op
<1>1. /\ console'[c].pc = IF answer = "SUCCESS" THEN "audit" ELSE "done"
      /\ console'[c].changed = changed /\ console'[c].op = console[c].op
      /\ console'[c].role = console[c].role /\ console'[c].clean = Heard(p)
      /\ \A b \in ConsoleCalls \ {c} : console'[b] = console[b]
  BY DEF Served, ConsoleTypeOK, Call
<1>2. ~console[c].changed /\ c \notin Audited /\ Kind(c) \in Permitted(console[c].role)
  BY DEF AuditInv, CallOf
<1>3. ChangesKept
  BY <1>1, <1>2 DEF ChangesKept
<1>4. trail' = trail /\ planStore' = planStore
  OBVIOUS
<1>5. ASSUME NEW b \in ConsoleCalls \ {c} PROVE CallOf(b)'
  BY <1>1, <1>3, <1>4, OthersKept DEF Audited
<1>6. answer = "SUCCESS" => Justified(c)'
  <2>1. CASE changed
    BY <1>1, <2>1 DEF Justified
  <2>2. CASE Justified(c)
    BY <1>1, <1>2, <1>3, <2>2, JustifiedKept
  <2> QED
    BY <2>1, <2>2
<1>7. Kind(c)' = Kind(c) /\ c \notin Audited'
  BY <1>1, <1>2, <1>4 DEF Kind, Audited
<1>8. CallOf(c)'
  BY <1>1, <1>2, <1>4, <1>6, <1>7 DEF CallOf
<1> QED
  BY <1>1, <1>3, <1>5, <1>8

LEMMA AuditOfReplay ==
    ASSUME ConsoleTypeOK, AuditInv, NEW c \in ConsoleCalls, NEW p \in Stores, replayTask(c, p)
    PROVE  AuditInv'
<1> DEFINE t == Item(c)
           k == Body(c)
<1>1. /\ console[c].pc = "service" /\ Kind(c) = "task.replay"
      /\ UNCHANGED <<planStore, trail>>
  BY DEF replayTask, InService
<1>2. t \in FailedTasks /\ k \in ReplayKeys /\ console[c].op = <<"task.replay", t, k>>
  BY <1>1, PartsOf DEF Kinds
<1>3. ~console[c].changed
  BY <1>1 DEF AuditInv, CallOf
<1>4. replayed[k] \in [task : FailedTasks \cup {NoEntry}, answer : {"none", "SUCCESS", "INVALID"}]
  BY <1>2 DEF ConsoleTypeOK
<1>5. CASE Repeat(c, p, t, k)
  <2> DEFINE answer == IF replayed[k].task = t THEN replayed[k].answer ELSE "CONFLICT"
  <2>1. answer \in Answer /\ Served(c, p, answer, FALSE)
    BY <1>4, <1>5 DEF Answer, Repeat
  <2>2. ASSUME answer = "SUCCESS" PROVE Justified(c)
    <3>1. replayed[k].task = t /\ replayed[k].answer = "SUCCESS"
      BY <2>2
    <3>2. PICK b \in ConsoleCalls : console[b].changed /\ console[b].op = <<"task.replay", t, k>>
      BY <1>2, <3>1 DEF AuditInv, KeyOf
    <3> QED
      BY <1>1, <1>2, <1>3, <3>2 DEF Justified
  <2> HIDE DEF answer
  <2>3. (\A b \in ConsoleCalls : CallOf(b)') /\ ChangesKept
    BY <1>1, <2>1, <2>2, ServiceAnswers
  <2> QED
    BY <1>5, <2>3, KeysKept DEF AuditInv, Repeat
<1>6. ASSUME NEW answer \in Answer, Replay(t, k, answer),
             Served(c, p, IF Heard(p) THEN answer ELSE "ERROR", answer = "SUCCESS")
      PROVE  AuditInv'
  <2> DEFINE told == IF Heard(p) THEN answer ELSE "ERROR"
  <2>1. told \in Answer /\ (answer = "SUCCESS") \in BOOLEAN
    BY DEF Answer
  <2>2. /\ told = "SUCCESS" => answer = "SUCCESS"
        /\ Heard(p) /\ answer = "SUCCESS" => told = "SUCCESS"
    OBVIOUS
  <2>3. Served(c, p, told, answer = "SUCCESS")
    BY <1>6
  <2> HIDE DEF told
  <2>4. /\ (\A b \in ConsoleCalls : CallOf(b)') /\ ChangesKept
        /\ console'[c].changed = (answer = "SUCCESS") /\ console'[c].op = console[c].op
    BY <1>1, <2>1, <2>2, <2>3, ServiceAnswers
  <2>5. ASSUME NEW j \in ReplayKeys PROVE KeyOf(j)'
    <3>1. CASE j = k
      <4>1. replayed'[k] = [task |-> t, answer |-> answer]
        BY <1>2, <1>6 DEF Replay, ConsoleTypeOK
      <4>2. answer = "SUCCESS" => console'[c].changed
        BY <2>4
      <4>3. console'[c].op = <<"task.replay", t, k>>
        BY <1>2, <2>4
      <4>4. /\ replayed'[k].answer = "SUCCESS" => console'[c].changed
            /\ console'[c].op = <<"task.replay", replayed'[k].task, k>>
        BY <4>1, <4>2, <4>3
      <4> HIDE DEF t, k
      <4> QED
        BY <3>1, <4>4 DEF KeyOf
    <3>2. CASE j # k
      <4>1. replayed'[j] = replayed[j]
        BY <1>6, <3>2 DEF Replay, ConsoleTypeOK
      <4> QED
        BY <2>4, <4>1 DEF AuditInv, KeyOf, ChangesKept
    <3> QED
      BY <3>1, <3>2
  <2> QED
    BY <2>4, <2>5 DEF AuditInv
<1>7. CASE Served(c, p, "ERROR", FALSE) /\ UNCHANGED <<task, replayed>>
  <2>1. (\A b \in ConsoleCalls : CallOf(b)') /\ ChangesKept
    BY <1>1, <1>7, ServiceAnswers DEF Answer
  <2> QED
    BY <1>7, <2>1, KeysKept DEF AuditInv
<1> QED
  BY <1>5, <1>6, <1>7 DEF replayTask

LEMMA AuditOfOthers ==
    ASSUME ConsoleTypeOK, AuditInv, NEW c \in ConsoleCalls, NEW p \in Stores,
           \/ retryWebhookDelivery(c, p) \/ createPlanCall(c, p) \/ updatePlanCall(c, p)
    PROVE  AuditInv'
<1>1. /\ console[c].pc = "service"
      /\ planStore' = planStore /\ trail' = trail /\ replayed' = replayed
  BY DEF retryWebhookDelivery, createPlanCall, createPlan, updatePlanCall, updatePlan, InService, serviceVars
<1>2. PICK answer \in Answer, changed \in BOOLEAN :
        /\ Served(c, p, answer, changed)
        /\ answer = "SUCCESS" => changed
        /\ planStore = "prisma" /\ Heard(p) /\ changed => answer = "SUCCESS"
  <2>1. CASE retryWebhookDelivery(c, p)
    <3>1. PICK answer \in Answer, changed \in BOOLEAN :
            retryDelivery(c, p, answer, changed) /\ Served(c, p, answer, changed)
      BY <2>1 DEF retryWebhookDelivery
    <3> QED
      BY <3>1 DEF retryDelivery
  <2>2. CASE createPlanCall(c, p)
    <3>1. PICK answer \in Answer : /\ createPlan(p, Item(c), Body(c), answer)
                                   /\ Served(c, p, answer, answer = "SUCCESS" \/ PlansChanged)
      BY <2>2 DEF createPlanCall
    <3>2. planStore = "prisma" /\ Heard(p) /\ PlansChanged => answer = "SUCCESS"
      BY <3>1 DEF createPlan, CreateInTable, Heard, PlansChanged
    <3>3. (answer = "SUCCESS" \/ PlansChanged) \in BOOLEAN
      BY DEF PlansChanged
    <3> QED
      BY <3>1, <3>2, <3>3
  <2>3. CASE updatePlanCall(c, p)
    <3>1. PICK answer \in Answer : /\ updatePlan(p, Item(c), Body(c), answer)
                                   /\ Served(c, p, answer, answer = "SUCCESS" \/ PlansChanged)
      BY <2>3 DEF updatePlanCall
    <3>2. planStore = "prisma" /\ Heard(p) /\ PlansChanged => answer = "SUCCESS"
      BY <3>1 DEF updatePlan, UpdateInTable, Heard, PlansChanged
    <3>3. (answer = "SUCCESS" \/ PlansChanged) \in BOOLEAN
      BY DEF PlansChanged
    <3> QED
      BY <3>1, <3>2, <3>3
  <2> QED
    BY <2>1, <2>2, <2>3
<1>3. (\A b \in ConsoleCalls : CallOf(b)') /\ ChangesKept
  BY <1>1, <1>2, ServiceAnswers
<1> QED
  BY <1>1, <1>3, KeysKept DEF AuditInv

LEMMA AuditOfRequest ==
    ASSUME ConsoleTypeOK, AuditInv, NEW c \in ConsoleCalls, NEW op \in Ops, NEW role \in Roles,
           Request(c, op, role)
    PROVE  AuditInv'
<1>1. /\ planStore' = planStore /\ trail' = trail /\ replayed' = replayed
      /\ console[c].pc = "new"
  BY DEF Request, planVars, serviceVars
<1>2. /\ console'[c].op = op /\ console'[c].role = role /\ console'[c].changed = FALSE
      /\ console'[c].pc = IF op[1] \in Permitted(role) THEN "service" ELSE "done"
      /\ \A b \in ConsoleCalls \ {c} : console'[b] = console[b]
  BY DEF Request, NewCall, ConsoleTypeOK
<1>3. ~console[c].changed /\ c \notin Audited
  BY <1>1 DEF AuditInv, CallOf
<1>4. ChangesKept
  BY <1>2, <1>3 DEF ChangesKept
<1>5. ASSUME NEW b \in ConsoleCalls \ {c} PROVE CallOf(b)'
  BY <1>1, <1>2, <1>4, OthersKept DEF Audited
<1>6. Kind(c)' = op[1] /\ c \notin Audited'
  BY <1>1, <1>2, <1>3 DEF Kind, Audited
<1>7. CallOf(c)'
  BY <1>2, <1>6 DEF CallOf
<1> QED
  BY <1>1, <1>4, <1>5, <1>7, KeysKept DEF AuditInv

LEMMA AuditOfTrail ==
    ASSUME ConsoleTypeOK, AuditInv, NEW c \in ConsoleCalls, NEW p \in Stores, appendAdminAuditLog(c, p)
    PROVE  AuditInv'
<1>1. planStore' = planStore /\ replayed' = replayed /\ console[c].pc = "audit"
  BY DEF appendAdminAuditLog, serviceVars
<1>2. /\ console'[c].op = console[c].op /\ console'[c].role = console[c].role
      /\ console'[c].changed = console[c].changed /\ console'[c].pc = "done"
      /\ console'[c].clean => Heard(p)
      /\ \A b \in ConsoleCalls \ {c} : console'[b] = console[b]
  BY DEF appendAdminAuditLog, ConsoleTypeOK, Call
<1>3. /\ \A b \in ConsoleCalls \ {c}, q \in Stores : b \in trail'[q] <=> b \in trail[q]
      /\ Heard(p) /\ planStore = "prisma" => c \in trail'["db"]
  BY DEF appendAdminAuditLog, ConsoleTypeOK, Stores, Heard
<1>4. ChangesKept
  BY <1>2 DEF ChangesKept
<1>5. ASSUME NEW b \in ConsoleCalls \ {c} PROVE CallOf(b)'
  <2>1. b \in trail'["db"] <=> b \in trail["db"]
    BY <1>3 DEF Stores
  <2>2. b \in Audited' <=> b \in Audited
    BY <1>3 DEF Audited, Stores
  <2> QED
    BY <1>1, <1>2, <1>4, <2>1, <2>2, OthersKept
<1>6. Justified(c) /\ Kind(c) \in Permitted(console[c].role)
  BY <1>1 DEF AuditInv, CallOf
<1>7. Justified(c)' /\ Kind(c)' = Kind(c)
  BY <1>2, <1>4, <1>6, JustifiedKept DEF Kind
<1>8. CallOf(c)'
  BY <1>1, <1>2, <1>3, <1>6, <1>7 DEF CallOf
<1> QED
  BY <1>1, <1>4, <1>5, <1>8, KeysKept DEF AuditInv

LEMMA AuditOfRestart ==
    ASSUME ConsoleTypeOK, AuditInv, GatewayRestarts
    PROVE  AuditInv'
<1>1. planStore' = planStore /\ replayed' = replayed
  BY DEF GatewayRestarts, PlansForgotten
<1>2. \A b \in ConsoleCalls :
        /\ console'[b].op = console[b].op /\ console'[b].role = console[b].role
        /\ console'[b].changed = console[b].changed /\ console'[b].clean = console[b].clean
        /\ console'[b].pc = IF console[b].pc \in {"service", "audit"} THEN "lost" ELSE console[b].pc
  BY DEF GatewayRestarts, ConsoleTypeOK, Call
<1>3. trail'["db"] = trail["db"] /\ trail'["memory"] = {}
  BY DEF GatewayRestarts, ConsoleTypeOK
<1>4. ChangesKept
  BY <1>2 DEF ChangesKept
<1>5. ASSUME NEW b \in ConsoleCalls PROVE CallOf(b)'
  <2>1. Justified(b) => Justified(b)'
    BY <1>2, <1>4, JustifiedKept
  <2>2. Kind(b)' = Kind(b) /\ (b \in Audited' => b \in Audited)
    BY <1>2, <1>3 DEF Kind, Audited
  <2>3. CallOf(b)
    BY DEF AuditInv
  <2> QED
    BY <1>1, <1>2, <1>3, <2>1, <2>2, <2>3 DEF CallOf
<1> QED
  BY <1>1, <1>4, <1>5, KeysKept DEF AuditInv

LEMMA AuditInit == ConsoleInit => AuditInv
<1> SUFFICES ASSUME ConsoleInit PROVE AuditInv
  OBVIOUS
<1>1. \A c \in ConsoleCalls : console[c].pc = "new" /\ console[c].changed = FALSE
  BY DEF ConsoleInit, NewCall
<1>2. Audited = {}
  BY DEF ConsoleInit, Audited
<1>3. \A k \in ReplayKeys : replayed[k].answer = "none"
  BY DEF ConsoleInit, NoKey
<1> QED
  BY <1>1, <1>2, <1>3 DEF AuditInv, CallOf, KeyOf

LEMMA AuditStep ==
    ASSUME ConsoleTypeOK, AuditInv, [ConsoleNext]_consoleVars
    PROVE  AuditInv'
<1>1. CASE UserNext /\ UNCHANGED <<console, serviceVars, trail>>
  BY <1>1, AuditKept
     DEF serviceVars, UserNext, HoldUnit, ReleaseUnits, OrderChanges, ListPlans, ResolveActivePlanId,
         CountUnits, TellsUsage
<1>2. CASE ListingNext /\ UNCHANGED <<console, serviceVars, trail>>
  BY <1>2, AuditKept
     DEF serviceVars, ListingNext, listPlansForAdmin, CountPlans, FindPlans, ListingFails, ListFromMemory
<1>3. ASSUME NEW t \in FailedTasks, TaskFails(t) PROVE AuditInv'
  BY <1>3, AuditKept DEF TaskFails, planVars
<1>4. CASE UNCHANGED consoleVars
  BY <1>4, AuditKept DEF consoleVars, serviceVars, planVars
<1> QED
  BY <1>1, <1>2, <1>3, <1>4, AuditOfReplay, AuditOfOthers, AuditOfRequest, AuditOfTrail, AuditOfRestart
     DEF ConsoleNext, Stores

(* What the operators of the console are told and held to, for every number *)
(* of calls and every store: the list of plans is that of the store in      *)
(* charge, a change has its row in audit_logs, and a row its change         *)
(* (listPlansForAdmin, appendAdminAuditLog after the service's answer).     *)
THEOREM ConsoleKeepsHonest == ConsoleSpec => []ConsoleIsHonest
<1> DEFINE Inv == ConsoleTypeOK /\ ListingInv /\ AuditInv
<1>1. ConsoleInit => Inv
  BY ConsoleTypeInit, ListingInit, AuditInit
<1>2. Inv /\ [ConsoleNext]_consoleVars => Inv'
  BY ConsoleTypeNext, ConsoleStutter, ListingStep, AuditStep
<1>3. AuditInv => EffectsAudited
  BY DEF AuditInv, CallOf, Justified, Audited, EffectsAudited
<1>4. Inv => ConsoleIsHonest
  BY <1>3 DEF ListingInv, ConsoleIsHonest
<1> QED
  BY <1>1, <1>2, <1>4, PTL DEF ConsoleSpec
=============================================================================
