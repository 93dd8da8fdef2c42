------------------------------ MODULE Payments ------------------------------
(***************************************************************************)
(* The payments module: checkout, Paymob webhooks, the operator's status   *)
(* change and refunds, over the payments and refunds tables.               *)
(*                                                                         *)
(* A step is what one handler does between two awaits; the handlers run    *)
(* concurrently and meet only in the database.  Paymob and the customer    *)
(* are external.                                                           *)
(***************************************************************************)
EXTENDS Integers, FiniteSets

CONSTANTS
    Payments,        \* payment ids
    Txns,            \* Paymob transaction ids: the customer's attempts to pay
    Refunds,         \* refund ids
    Workers,         \* webhook deliveries handled at the same time
    Operators,       \* PATCH /payments/:id/status requests handled at the same time
    OrderOf,         \* the payment whose Paymob order a transaction belongs to
    Price,           \* the amount of every payment, in cents
    Reports,         \* what Paymob may report of an attempt to pay
    MaxAttempts,     \* how often one refund call may reach Paymob (HTTP retries)
    MaxAborts,       \* how many handlers may be cut short
    None             \* no transaction, no payment

AllReports == {"success", "underpaid", "declined", "pending"}

ASSUME PaymentsAssumption ==
    /\ Price \in Nat \ {0}
    /\ IsFiniteSet(Refunds)
    /\ IsFiniteSet(Workers)
    /\ OrderOf \in [Txns -> Payments]
    /\ Reports \subseteq AllReports
    /\ MaxAttempts \in Nat
    /\ MaxAborts \in Nat
    /\ None \notin Txns \cup Payments

VARIABLES
    payment,    \* the payments table: status, is the Paymob order stored, Paymob transaction id
    refund,     \* the refunds table: payment, amount, status
    checkout,   \* registerPaymobCheckout of each payment: is the gateway being called?
    webhook,    \* handlePaymobWebhook in each worker
    operator,   \* updateStatus in each operator request
    refunding,  \* createRefund of each refund: what it does next
    attempt,    \* Paymob: what came of each transaction
    notices,    \* Paymob: the notifications it sends, any number of times, in any order
    returned,   \* Paymob: how many times it executed each refund
    announced,  \* payment.completed events emitted by webhooks so far, per payment
    forced,     \* payment.completed events emitted by operators so far, per payment
    refundNews, \* refund.completed events emitted so far
    byHand,     \* history: the payments whose status an operator has written
    aborts      \* handlers cut short so far

vars == <<payment, refund, checkout, webhook, operator, refunding,
          attempt, notices, returned, announced, forced, refundNews, byHand, aborts>>

gatewayVars == <<attempt, notices, returned>>
eventVars == <<announced, forced, refundNews, byHand>>

PaymentStatus == {"pending", "processing", "completed", "failed", "cancelled", "refunded"}

\* Mutant: the table lets a refunded payment be completed again.
TransitionsWithUnrefund ==
    [pending    |-> {"processing", "completed", "failed", "cancelled"},
     processing |-> {"completed", "failed"},
     completed  |-> {"refunded"},
     failed     |-> {},
     cancelled  |-> {},
     refunded   |-> {"completed"},
     none       |-> {}]

PAYMENT_TRANSITIONS ==
    [pending    |-> {"processing", "completed", "failed", "cancelled"},
     processing |-> {"completed", "failed"},
     completed  |-> {"refunded"},
     failed     |-> {},
     cancelled  |-> {},
     refunded   |-> {},
     none       |-> {}]

\* Mutant: only settled refunds count against the capacity.
CapacityOfSettledOnly == {"processed"}

REFUND_CAPACITY_STATUSES == {"pending", "processed"}

TypeOK ==
    /\ payment \in [Payments -> [status: PaymentStatus \cup {"none"},
                                 order: BOOLEAN,
                                 txn: Txns \cup {None}]]
    /\ refund \in [Refunds -> [payment: Payments \cup {None},
                               amount: 0..Price,
                               status: {"none", "pending", "processed", "failed"}]]
    /\ checkout \in [Payments -> {"idle", "calling"}]
    /\ webhook \in [Workers -> [pc: {"idle", "checked", "stored"},
                                txn: Txns \cup {None},
                                outcome: {"completed", "failed"}]]
    /\ operator \in [Operators -> [pc: {"idle", "checked", "stored"},
                                   payment: Payments \cup {None},
                                   to: PaymentStatus]]
    /\ refunding \in [Refunds -> {"idle", "calling", "settled", "waiting",
                                  "undo", "release", "done"}]
    /\ attempt \in [Txns -> AllReports \cup {"none"}]
    /\ notices \in SUBSET (Txns \X AllReports)
    /\ returned \in [Refunds -> 0..MaxAttempts]
    /\ announced \in [Payments -> Nat]
    /\ forced \in [Payments -> Nat]
    /\ refundNews \in SUBSET Refunds
    /\ byHand \in SUBSET (Payments \cup {None})
    /\ aborts \in 0..MaxAborts

\* A column of a row is written, the others are kept.
WithStatus(row, status) == [status |-> status, order |-> row.order, txn |-> row.txn]
WithRefundStatus(row, status) == [payment |-> row.payment, amount |-> row.amount, status |-> status]

IdleWorker == [pc |-> "idle", txn |-> None, outcome |-> "failed"]
IdleOperator == [pc |-> "idle", payment |-> None, to |-> "failed"]

Init ==
    /\ payment = [p \in Payments |-> [status |-> "none", order |-> FALSE, txn |-> None]]
    /\ refund = [r \in Refunds |-> [payment |-> None, amount |-> 0, status |-> "none"]]
    /\ checkout = [p \in Payments |-> "idle"]
    /\ webhook = [w \in Workers |-> IdleWorker]
    /\ operator = [o \in Operators |-> IdleOperator]
    /\ refunding = [r \in Refunds |-> "idle"]
    /\ attempt = [t \in Txns |-> "none"]
    /\ notices = {}
    /\ returned = [r \in Refunds |-> 0]
    /\ announced = [p \in Payments |-> 0]
    /\ forced = [p \in Payments |-> 0]
    /\ refundNews = {}
    /\ byHand = {}
    /\ aborts = 0

-----------------------------------------------------------------------------
(***************************************************************************)
(* Checkout: createPayment, then registerPaymobCheckout.                   *)
(***************************************************************************)

\* Mutant: the Paymob order is stored before the checkout is over.
CreatePaymentWithOrder(p) ==
    /\ payment[p].status = "none"
    /\ payment' = [payment EXCEPT ![p] = [status |-> "pending", order |-> TRUE, txn |-> @.txn]]
    /\ checkout' \in {checkout, [checkout EXCEPT ![p] = "calling"]}
    /\ UNCHANGED <<refund, webhook, operator, refunding, gatewayVars, eventVars, aborts>>

\* The row is inserted; a payment method other than paymob stops there.
CreatePayment(p) ==
    /\ payment[p].status = "none"
    /\ payment' = [payment EXCEPT ![p] = WithStatus(@, "pending")]
    /\ checkout' \in {checkout, [checkout EXCEPT ![p] = "calling"]}
    /\ UNCHANGED <<refund, webhook, operator, refunding, gatewayVars, eventVars, aborts>>

\* The gateway answered: the update is by id, whatever the status has become meanwhile.
CheckoutRegistered(p) ==
    /\ checkout[p] = "calling"
    /\ checkout' = [checkout EXCEPT ![p] = "idle"]
    /\ payment' = [payment EXCEPT ![p] = [status |-> "processing", order |-> TRUE, txn |-> @.txn]]
    /\ UNCHANGED <<refund, webhook, operator, refunding, gatewayVars, eventVars, aborts>>

\* failPaymentAfterGatewayError, equally unconditional.
CheckoutFailed(p) ==
    /\ checkout[p] = "calling"
    /\ checkout' = [checkout EXCEPT ![p] = "idle"]
    /\ payment' = [payment EXCEPT ![p] = WithStatus(@, "failed")]
    /\ UNCHANGED <<refund, webhook, operator, refunding, gatewayVars, eventVars, aborts>>

-----------------------------------------------------------------------------
(***************************************************************************)
(* Paymob webhooks: read and check, update, record the delivery and        *)
(* announce.                                                               *)
(***************************************************************************)

\* A transaction that is still pending resolves to failed, too.
resolveWebhookStatus(report) ==
    IF report \in {"success", "underpaid"} THEN "completed" ELSE "failed"

\* Mutant: the captured amount is not compared.
AnyAmountMatches(report) == TRUE

\* assertCapturedAmountMatches refuses another amount, or none.
CapturedAmountMatches(report) == report # "underpaid"

(***************************************************************************)
(* Both lookups (by transaction id, then by order id) lead to the payment  *)
(* of the order; every refusal answers an error and writes nothing, so     *)
(* only the delivery that passes all checks is a step.                     *)
(***************************************************************************)
WebhookCheck(w, txn, report) ==
    LET p == OrderOf[txn]
        status == resolveWebhookStatus(report)
    IN  /\ webhook[w].pc = "idle"
        /\ <<txn, report>> \in notices
        /\ payment[p].order
        /\ ~ (payment[p].txn = txn /\ payment[p].status = "completed") \* already_processed
        /\ status = "completed" => CapturedAmountMatches(report)
        /\ status \in PAYMENT_TRANSITIONS[payment[p].status]
        /\ webhook' = [webhook EXCEPT ![w] = [pc |-> "checked", txn |-> txn, outcome |-> status]]
        /\ UNCHANGED <<payment, refund, checkout, operator, refunding, gatewayVars, eventVars, aborts>>

WebhookStore(w) ==
    LET p == OrderOf[webhook[w].txn]
    IN  /\ webhook[w].pc = "checked"
        /\ payment' = [payment EXCEPT ![p] =
              [status |-> webhook[w].outcome, order |-> @.order, txn |-> webhook[w].txn]]
        /\ webhook' = [webhook EXCEPT ![w] =
              [pc |-> "stored", txn |-> @.txn, outcome |-> @.outcome]]
        /\ UNCHANGED <<refund, checkout, operator, refunding, gatewayVars, eventVars, aborts>>

(***************************************************************************)
(* createTransaction leaves id and created_at to the database.  Where the  *)
(* database accepts the row a capture is announced; where it refuses it    *)
(* the handler ends with the payment updated and nothing announced.  The   *)
(* tables that the repository itself creates have no default for the two   *)
(* columns and always refuse it.                                           *)
(***************************************************************************)
WebhookRecord(w) ==
    LET p == OrderOf[webhook[w].txn]
    IN  /\ webhook[w].pc = "stored"
        /\ webhook' = [webhook EXCEPT ![w] = IdleWorker]
        /\ announced' = IF webhook[w].outcome = "completed"
                        THEN [announced EXCEPT ![p] = @ + 1] ELSE announced
        /\ UNCHANGED <<payment, refund, checkout, operator, refunding, gatewayVars,
                       forced, refundNews, byHand, aborts>>

WebhookRecordRefused(w) ==
    /\ webhook[w].pc = "stored"
    /\ webhook' = [webhook EXCEPT ![w] = IdleWorker]
    /\ UNCHANGED <<payment, refund, checkout, operator, refunding, gatewayVars, eventVars, aborts>>

-----------------------------------------------------------------------------
(***************************************************************************)
(* updateStatus: the row is read without a lock, then written by id.       *)
(***************************************************************************)
UpdateStatusCheck(o, p, status) ==
    /\ operator[o].pc = "idle"
    /\ status \in PAYMENT_TRANSITIONS[payment[p].status]
    /\ operator' = [operator EXCEPT ![o] = [pc |-> "checked", payment |-> p, to |-> status]]
    /\ UNCHANGED <<payment, refund, checkout, webhook, refunding, gatewayVars, eventVars, aborts>>

UpdateStatusStore(o) ==
    /\ operator[o].pc = "checked"
    /\ payment' = [payment EXCEPT ![operator[o].payment] = WithStatus(@, operator[o].to)]
    /\ operator' = [operator EXCEPT ![o] =
          IF operator[o].to = "completed" THEN [pc |-> "stored", payment |-> @.payment, to |-> @.to]
          ELSE IdleOperator]
    /\ byHand' = byHand \cup {operator[o].payment}
    /\ UNCHANGED <<refund, checkout, webhook, refunding, gatewayVars,
                   announced, forced, refundNews, aborts>>

UpdateStatusAnnounce(o) ==
    /\ operator[o].pc = "stored"
    /\ forced' = [forced EXCEPT ![operator[o].payment] = @ + 1]
    /\ operator' = [operator EXCEPT ![o] = IdleOperator]
    /\ UNCHANGED <<payment, refund, checkout, webhook, refunding, gatewayVars,
                   announced, refundNews, byHand, aborts>>

-----------------------------------------------------------------------------
(***************************************************************************)
(* Refunds: reserve capacity under the row lock, call Paymob, write the    *)
(* outcome; on failure mark the refund failed, then give the capacity back *)
(* under the row lock.                                                     *)
(***************************************************************************)

(***************************************************************************)
(* sumReservedRefunds: the cents of p that live refunds reserve.  The sum  *)
(* is written as the number of (refund, cent) pairs.                       *)
(***************************************************************************)
ReservedCents(p) ==
    {rc \in Refunds \X (1..Price) :
        /\ refund[rc[1]].payment = p
        /\ refund[rc[1]].status \in REFUND_CAPACITY_STATUSES
        /\ rc[2] <= refund[rc[1]].amount}

ReservedTotal(p) == Cardinality(ReservedCents(p))

(***************************************************************************)
(* reserveRefundCapacity is one transaction under FOR UPDATE.  It marks    *)
(* the payment refunded when the cap is reached, whatever its status was;  *)
(* the service then looks at the status it had, and at the transaction id. *)
(***************************************************************************)
ReserveRefund(r, p, amount) ==
    /\ refund[r].status = "none"
    /\ payment[p].status # "none"
    /\ ReservedTotal(p) + amount <= Price
    /\ refund' = [refund EXCEPT ![r] = [payment |-> p, amount |-> amount, status |-> "pending"]]
    /\ payment' = IF ReservedTotal(p) + amount = Price
                  THEN [payment EXCEPT ![p] = WithStatus(@, "refunded")] ELSE payment
    /\ refunding' = [refunding EXCEPT ![r] =
          IF payment[p].status = "completed" /\ payment[p].txn # None THEN "calling" ELSE "undo"]
    /\ UNCHANGED <<checkout, webhook, operator, gatewayVars, eventVars, aborts>>

\* Mutant: the settled refund is stored in the vocabulary of payments.
RefundSettledAsCompleted(r) ==
    /\ refunding[r] = "calling"
    /\ returned[r] > 0
    /\ refund' = [refund EXCEPT ![r] = WithRefundStatus(@, "completed")]
    /\ refunding' = [refunding EXCEPT ![r] = "settled"]
    /\ UNCHANGED <<payment, checkout, webhook, operator, gatewayVars, eventVars, aborts>>

\* Mutant: a failure after the refund was recorded is handled as a failure of the gateway.
RefundSettledThenUndone(r) ==
    /\ refunding[r] = "calling"
    /\ returned[r] > 0
    /\ refund' = [refund EXCEPT ![r] = WithRefundStatus(@, "processed")]
    /\ refunding' \in {[refunding EXCEPT ![r] = pc] : pc \in {"settled", "undo"}}
    /\ UNCHANGED <<payment, checkout, webhook, operator, gatewayVars, eventVars, aborts>>

\* Paymob reports the refund as settled.
RefundSettled(r) ==
    /\ refunding[r] = "calling"
    /\ returned[r] > 0
    /\ refund' = [refund EXCEPT ![r] = WithRefundStatus(@, "processed")]
    /\ refunding' = [refunding EXCEPT ![r] = "settled"]
    /\ UNCHANGED <<payment, checkout, webhook, operator, gatewayVars, eventVars, aborts>>

AnnounceRefund(r) ==
    /\ refunding[r] = "settled"
    /\ refundNews' = refundNews \cup {r}
    /\ refunding' = [refunding EXCEPT ![r] = "done"]
    /\ UNCHANGED <<payment, refund, checkout, webhook, operator, gatewayVars,
                   announced, forced, byHand, aborts>>

\* Mutant: a pending refund is announced like a settled one.
RefundStillPendingAnnounced(r) ==
    /\ refunding[r] = "calling"
    /\ refunding' = [refunding EXCEPT ![r] = "settled"]
    /\ UNCHANGED <<payment, refund, checkout, webhook, operator, gatewayVars, eventVars, aborts>>

\* Paymob reports the refund as pending: nothing looks at it again.
RefundStillPending(r) ==
    /\ refunding[r] = "calling"
    /\ refunding' = [refunding EXCEPT ![r] = "waiting"]
    /\ UNCHANGED <<payment, refund, checkout, webhook, operator, gatewayVars, eventVars, aborts>>

\* An error, a timeout whose outcome is unknown, or success: false.
RefundRejected(r) ==
    /\ refunding[r] = "calling"
    /\ refunding' = [refunding EXCEPT ![r] = "undo"]
    /\ UNCHANGED <<payment, refund, checkout, webhook, operator, gatewayVars, eventVars, aborts>>

MarkRefundFailed(r) ==
    /\ refunding[r] = "undo"
    /\ refund' = [refund EXCEPT ![r] = WithRefundStatus(@, "failed")]
    /\ refunding' = [refunding EXCEPT ![r] = "release"]
    /\ UNCHANGED <<payment, checkout, webhook, operator, gatewayVars, eventVars, aborts>>

\* Mutant: the status is only ever repaired towards refunded.
RepairedOneWay(p) ==
    IF ReservedTotal(p) >= Price /\ payment[p].status = "completed" THEN "refunded" ELSE payment[p].status

\* repairDerivedStatus, under the row lock of reconcileRefundCapacity.
RepairedStatus(p) ==
    LET full == ReservedTotal(p) >= Price
    IN  CASE full /\ payment[p].status = "completed" -> "refunded"
          [] ~ full /\ payment[p].status = "refunded" -> "completed"
          [] OTHER -> payment[p].status

ReleaseRefundCapacity(r) ==
    LET p == refund[r].payment
    IN  /\ refunding[r] = "release"
        /\ payment' = [payment EXCEPT ![p] = WithStatus(@, RepairedStatus(p))]
        /\ refunding' = [refunding EXCEPT ![r] = "done"]
        /\ UNCHANGED <<refund, checkout, webhook, operator, gatewayVars, eventVars, aborts>>

-----------------------------------------------------------------------------
(***************************************************************************)
(* A handler ends where it is: the process stops, or an await rejects      *)
(* (database, Valkey).  What it has written stays.  A refund cut short     *)
(* during its gateway call may still be executed by Paymob.                *)
(***************************************************************************)
Abort ==
    /\ aborts < MaxAborts
    /\ aborts' = aborts + 1
    /\ \/ \E p \in Payments : /\ checkout[p] = "calling"
                              /\ checkout' = [checkout EXCEPT ![p] = "idle"]
                              /\ UNCHANGED <<webhook, operator, refunding>>
       \/ \E w \in Workers : /\ webhook[w].pc # "idle"
                             /\ webhook' = [webhook EXCEPT ![w] = IdleWorker]
                             /\ UNCHANGED <<checkout, operator, refunding>>
       \/ \E o \in Operators : /\ operator[o].pc # "idle"
                               /\ operator' = [operator EXCEPT ![o] = IdleOperator]
                               /\ UNCHANGED <<checkout, webhook, refunding>>
       \/ \E r \in Refunds : /\ refunding[r] \in {"calling", "settled", "undo", "release"}
                             /\ refunding' = [refunding EXCEPT ![r] =
                                   IF @ = "calling" THEN "waiting" ELSE "done"]
                             /\ UNCHANGED <<checkout, webhook, operator>>
    /\ UNCHANGED <<payment, refund, gatewayVars, eventVars>>

-----------------------------------------------------------------------------
(***************************************************************************)
(* Paymob and the customer.  The customer has the payment page once the    *)
(* order is stored; lock_order_when_paid stops further attempts after a    *)
(* capture.  Paymob never returns more than it captured.                   *)
(***************************************************************************)
Captured(p) == \E t \in Txns : OrderOf[t] = p /\ attempt[t] \in {"success", "underpaid"}

Pay(t, report) ==
    /\ attempt[t] = "none"
    /\ payment[OrderOf[t]].order
    /\ ~ Captured(OrderOf[t])
    /\ attempt' = [attempt EXCEPT ![t] = report]
    /\ notices' = notices \cup {<<t, report>>}
    /\ UNCHANGED <<payment, refund, checkout, webhook, operator, refunding, returned, eventVars, aborts>>

SettlePending(t, report) ==
    /\ attempt[t] = "pending"
    /\ report = "success" => ~ Captured(OrderOf[t])
    /\ attempt' = [attempt EXCEPT ![t] = report]
    /\ notices' = notices \cup {<<t, report>>}
    /\ UNCHANGED <<payment, refund, checkout, webhook, operator, refunding, returned, eventVars, aborts>>

ReturnedTotal(p) ==
    Cardinality({rkc \in Refunds \X (1..MaxAttempts) \X (1..Price) :
                    /\ refund[rkc[1]].payment = p
                    /\ rkc[2] <= returned[rkc[1]]
                    /\ rkc[3] <= refund[rkc[1]].amount})

PaymobReturnsMoney(r) ==
    /\ refunding[r] \in {"calling", "waiting"}
    /\ returned[r] < MaxAttempts
    /\ Captured(refund[r].payment)
    /\ ReturnedTotal(refund[r].payment) + refund[r].amount <= Price
    /\ returned' = [returned EXCEPT ![r] = @ + 1]
    /\ UNCHANGED <<payment, refund, checkout, webhook, operator, refunding,
                   attempt, notices, eventVars, aborts>>

-----------------------------------------------------------------------------
Checkout(p) == CreatePayment(p) \/ CheckoutRegistered(p) \/ CheckoutFailed(p)

Webhook(w) ==
    \/ \E t \in Txns, report \in Reports \cup {"success", "declined"} : WebhookCheck(w, t, report)
    \/ WebhookStore(w)
    \/ WebhookRecord(w)
    \/ WebhookRecordRefused(w)

UpdateStatus(o) ==
    \/ \E p \in Payments, status \in PaymentStatus : UpdateStatusCheck(o, p, status)
    \/ UpdateStatusStore(o)
    \/ UpdateStatusAnnounce(o)

Refund(r) ==
    \/ \E p \in Payments, amount \in 1..Price : ReserveRefund(r, p, amount)
    \/ RefundSettled(r)
    \/ AnnounceRefund(r)
    \/ RefundStillPending(r)
    \/ RefundRejected(r)
    \/ MarkRefundFailed(r)
    \/ ReleaseRefundCapacity(r)

Paymob ==
    \/ \E t \in Txns, report \in Reports : Pay(t, report)
    \/ \E t \in Txns, report \in {"success", "declined"} : SettlePending(t, report)
    \/ \E r \in Refunds : PaymobReturnsMoney(r)

Next ==
    \/ \E p \in Payments : Checkout(p)
    \/ \E w \in Workers : Webhook(w)
    \/ \E o \in Operators : UpdateStatus(o)
    \/ \E r \in Refunds : Refund(r)
    \/ Abort
    \/ Paymob

Spec == Init /\ [][Next]_vars

(***************************************************************************)
(* A running refund goes on to its end, and its call to Paymob ends (the   *)
(* HTTP client has a timeout).  Nobody has to pay, to ask for a refund or  *)
(* to change a status, no webhook has to arrive, and nothing has to fail.  *)
(***************************************************************************)
Fairness ==
    \A r \in Refunds :
        /\ WF_vars(RefundSettled(r) \/ RefundStillPending(r) \/ RefundRejected(r))
        /\ WF_vars(AnnounceRefund(r))
        /\ WF_vars(MarkRefundFailed(r))
        /\ WF_vars(ReleaseRefundCapacity(r))

FairSpec == Spec /\ Fairness

-----------------------------------------------------------------------------
(***************************************************************************)
(* The refunds table seen as the ledger of RefundLedger.tla.               *)
(***************************************************************************)
LedgerState == [none |-> "none", pending |-> "held", processed |-> "settled", failed |-> "released"]

LedgerView == [r \in Refunds |-> [payment |-> refund[r].payment,
                                  amount  |-> refund[r].amount,
                                  state   |-> LedgerState[refund[r].status]]]

Ledger == INSTANCE RefundLedger WITH ledger <- LedgerView

(***************************************************************************)
(* createRefund and its failure paths, run concurrently, cut short         *)
(* anywhere and repeated, do to the refunds table only what the ledger     *)
(* allows: capacity is checked against every live refund, and a settled or *)
(* released refund is final.                                               *)
(***************************************************************************)
ImplementsLedger == Ledger!Spec

(***************************************************************************)
(* Hence what is refunded or being refunded never exceeds the payment: the *)
(* double refund that the row lock in reserveRefundCapacity is there for.  *)
(***************************************************************************)
NeverOverRefunded == Ledger!NeverOverRefunded

(***************************************************************************)
(* A webhook announces payment.completed, and so grants a book, only for a *)
(* payment that Paymob captured in full: handlePaymobWebhook, whichever    *)
(* reports arrive, in which order and how often.                           *)
(***************************************************************************)
AnnouncedOnlyCaptured ==
    \A p \in Payments : announced[p] > 0 =>
        \E t \in Txns : OrderOf[t] = p /\ attempt[t] = "success"

(***************************************************************************)
(* submitRefundToGateway announces refund.completed, which takes the book  *)
(* back, only once the refund is recorded as processed and Paymob has      *)
(* returned the money; a refund still pending upstream announces nothing.  *)
(***************************************************************************)
AnnouncedRefundsReturned ==
    \A r \in refundNews : refund[r].status = "processed" /\ returned[r] > 0

(***************************************************************************)
(* One payment is announced by webhooks at most once for each delivery     *)
(* that can be in progress at a time, as long as no operator writes its    *)
(* status: a redelivery that starts after the status was written announces *)
(* nothing, thanks to already_processed and the transition table, whatever *)
(* refunds make of the status later; only deliveries that read before that *)
(* write can repeat the announcement.                                      *)
(***************************************************************************)
AnnouncedOncePerOverlap ==
    \A p \in Payments \ byHand : announced[p] <= Cardinality(Workers)

(***************************************************************************)
(* A payment that a webhook completed stays completed or refunded, except  *)
(* for what a delivery or an operator that had read it before writes late: *)
(* the two unconditional updates of registerPaymobCheckout are over before *)
(* anything can be captured, and refunds repair the status only between    *)
(* these two.                                                              *)
(***************************************************************************)
Sold(p) == payment[p].txn # None /\ payment[p].status \in {"completed", "refunded"}

WrittenLate(p) ==
    \/ \E w \in Workers : WebhookStore(w) /\ OrderOf[webhook[w].txn] = p
    \/ \E o \in Operators : UpdateStatusStore(o) /\ operator[o].payment = p

SoldStaysSold == [][\A p \in Payments : Sold(p) => Sold(p)' \/ WrittenLate(p)]_vars

(***************************************************************************)
(* The status refunded is derived from the refunds: where webhooks are     *)
(* handled one at a time and no operator sets it by hand, a payment reads  *)
(* refunded exactly when live refunds cover it, once no handler is running *)
(* and if none was cut short (reserveRefundCapacity, repairDerivedStatus). *)
(* Several refunds may be in progress and fail in any order before that.   *)
(***************************************************************************)
Quiescent ==
    /\ \A p \in Payments : checkout[p] = "idle"
    /\ \A w \in Workers : webhook[w].pc = "idle"
    /\ \A o \in Operators : operator[o].pc = "idle"
    /\ \A r \in Refunds : refunding[r] \in {"idle", "waiting", "done"}

RefundedIffCovered ==
    Quiescent /\ aborts = 0 /\ Operators = {} /\ Cardinality(Workers) = 1 =>
        \A p \in Payments : payment[p].status = "refunded" <=> ReservedTotal(p) = Price

(***************************************************************************)
(* payments.repository.ts:297: a payment that is failed, cancelled or      *)
(* pending is left alone by the refund path, so a payment that nobody      *)
(* captured and no operator completed never reads completed.               *)
(***************************************************************************)
UncapturedNeverCompleted ==
    \A p \in Payments : payment[p].status = "completed" => Captured(p)

(***************************************************************************)
(* A refund that was admitted is announced, is left to Paymob as pending,  *)
(* or is failed with its capacity given back (submitRefundToGateway,       *)
(* markRefundFailed, releaseRefundCapacity).                               *)
(***************************************************************************)
RefundIsResolved ==
    \A r \in Refunds : refund[r].status = "pending" ~>
        \/ r \in refundNews
        \/ refunding[r] = "waiting"
        \/ refund[r].status = "failed" /\ payment[refund[r].payment].status # "refunded"
=============================================================================
