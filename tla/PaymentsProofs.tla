--------------------------- MODULE PaymentsProofs ---------------------------
(***************************************************************************)
(* Proofs about Payments, for every set of payments, refunds, workers and  *)
(* operators, every price and every number of retries and aborts.          *)
(***************************************************************************)
EXTENDS Payments, FiniteSetTheorems, TLAPS

-----------------------------------------------------------------------------
(***************************************************************************)
(* Amounts of money as sets of (refund, cent) pairs: the sum over refunds  *)
(* is the number of pairs.  These lemmas let a proof add an amount to such *)
(* a sum without induction.                                                *)
(***************************************************************************)
\* The cents of an amount paid back by r.
CentsOf(r, amount) == {r} \X (1..amount)

(***************************************************************************)
(* A set of cents is finite, so its sum is a natural number, and a smaller *)
(* set has a smaller sum.                                                  *)
(***************************************************************************)
LEMMA CentsFinite ==
    ASSUME NEW R, IsFiniteSet(R), NEW price \in Nat,
           NEW S \in SUBSET (R \X (1..price)), NEW T \in SUBSET S
    PROVE  /\ IsFiniteSet(S)
           /\ Cardinality(S) \in Nat
           /\ Cardinality(T) \in Nat
           /\ Cardinality(T) <= Cardinality(S)
<1>1. IsFiniteSet(1..price)
  BY FS_Interval
<1>2. IsFiniteSet(R \X (1..price))
  BY <1>1, FS_Product
<1>3. IsFiniteSet(S)
  BY <1>2, FS_Subset
<1>4. IsFiniteSet(T) /\ Cardinality(T) <= Cardinality(S)
  BY <1>3, FS_Subset
<1>5. QED
  BY <1>3, <1>4, FS_CardinalityType

(***************************************************************************)
(* The cents of an amount are as many as the amount.                       *)
(***************************************************************************)
LEMMA CentsOfAmount ==
    ASSUME NEW r, NEW amount \in Nat
    PROVE  IsFiniteSet(CentsOf(r, amount)) /\ Cardinality(CentsOf(r, amount)) = amount
<1>1. IsFiniteSet({r}) /\ Cardinality({r}) = 1
  BY FS_Singleton
<1>2. IsFiniteSet(1..amount) /\ Cardinality(1..amount) = amount
  BY FS_Interval
<1>3. /\ IsFiniteSet({r} \X (1..amount))
      /\ Cardinality({r} \X (1..amount)) = Cardinality({r}) * Cardinality(1..amount)
  BY <1>1, <1>2, FS_Product
<1>4. QED
  BY <1>1, <1>2, <1>3 DEF CentsOf

(***************************************************************************)
(* Adding the cents of a refund that has none yet adds its amount.         *)
(***************************************************************************)
LEMMA CentsAdd ==
    ASSUME NEW R, IsFiniteSet(R), NEW price \in Nat,
           NEW S \in SUBSET (R \X (1..price)),
           NEW r, \A s \in S : s[1] # r,
           NEW amount \in Nat
    PROVE  Cardinality(S \cup CentsOf(r, amount)) = Cardinality(S) + amount
<1>1. IsFiniteSet(S) /\ Cardinality(S) \in Nat
  BY CentsFinite
<1>2. IsFiniteSet(CentsOf(r, amount)) /\ Cardinality(CentsOf(r, amount)) = amount
  BY CentsOfAmount
<1>3. S \cap CentsOf(r, amount) = {}
  BY DEF CentsOf
<1>4. Cardinality(S \cap CentsOf(r, amount)) = 0
  BY <1>3, FS_EmptySet
<1>5. Cardinality(S \cup CentsOf(r, amount)) =
        Cardinality(S) + Cardinality(CentsOf(r, amount)) - Cardinality(S \cap CentsOf(r, amount))
  BY <1>1, <1>2, FS_Union
<1>6. QED
  BY <1>1, <1>2, <1>4, <1>5

-----------------------------------------------------------------------------
(***************************************************************************)
(* The ledger counts with the same cardinality.                            *)
(***************************************************************************)
LEMMA SameCardinality == ASSUME NEW S PROVE Ledger!Cardinality(S) = Cardinality(S)
BY Zenon DEF Ledger!Cardinality, Cardinality

(***************************************************************************)
(* The ledger is well typed: each refund is in one of the four states that *)
(* the refunds table distinguishes.                                        *)
(***************************************************************************)
LEMMA LedgerTypeCorrect == Ledger!Spec => []Ledger!TypeOK
<1>1. Ledger!Init => Ledger!TypeOK
  BY PaymentsAssumption DEF Ledger!Init, Ledger!TypeOK, Ledger!Entry
<1>2. Ledger!TypeOK /\ [Ledger!Next]_LedgerView => Ledger!TypeOK'
  BY PaymentsAssumption DEF Ledger!TypeOK, Ledger!Entry, Ledger!Next, Ledger!Hold, Ledger!Settle, Ledger!Release
<1>3. QED
  BY <1>1, <1>2, PTL DEF Ledger!Spec

(***************************************************************************)
(* A step that leaves the cents of p alone, or takes some away, keeps its  *)
(* sum within the price.                                                   *)
(***************************************************************************)
LEMMA HeldShrinks ==
    ASSUME NEW p, Ledger!Held(p) <= Price, Ledger!HeldCents(p)' \subseteq Ledger!HeldCents(p)
    PROVE  Ledger!Held(p)' <= Price
<1>1. Ledger!HeldCents(p) \in SUBSET (Refunds \X (1..Price))
  BY DEF Ledger!HeldCents
<1>2. /\ Cardinality(Ledger!HeldCents(p)) \in Nat
      /\ Cardinality(Ledger!HeldCents(p)') \in Nat
      /\ Cardinality(Ledger!HeldCents(p)') <= Cardinality(Ledger!HeldCents(p))
  <2>1. IsFiniteSet(Refunds) /\ Price \in Nat
    BY PaymentsAssumption
  <2>2. Ledger!HeldCents(p)' \in SUBSET Ledger!HeldCents(p)
    OBVIOUS
  <2>3. QED
    BY <1>1, <2>1, <2>2, CentsFinite
<1>3. QED
  BY <1>2, SameCardinality, PaymentsAssumption DEF Ledger!Held

(***************************************************************************)
(* Never more is held or returned than was paid.  Only Hold adds cents,    *)
(* and it adds as many as its guard counts.                                *)
(***************************************************************************)
THEOREM LedgerNeverOverRefunded == Ledger!Spec => []Ledger!NeverOverRefunded
<1>1. Ledger!Init => Ledger!NeverOverRefunded
  <2> SUFFICES ASSUME Ledger!Init, NEW p \in Payments
               PROVE  Ledger!Held(p) <= Price
    BY DEF Ledger!NeverOverRefunded
  <2>1. Ledger!HeldCents(p) = {}
    BY DEF Ledger!Init, Ledger!HeldCents
  <2>2. QED
    BY <2>1, FS_EmptySet, SameCardinality, PaymentsAssumption DEF Ledger!Held
<1>2. Ledger!TypeOK /\ Ledger!NeverOverRefunded /\ [Ledger!Next]_LedgerView => Ledger!NeverOverRefunded'
  <2> SUFFICES ASSUME Ledger!TypeOK, Ledger!NeverOverRefunded, [Ledger!Next]_LedgerView, NEW q \in Payments
               PROVE  Ledger!Held(q)' <= Price
    BY DEF Ledger!NeverOverRefunded
  <2>0. Ledger!Held(q) <= Price
    BY DEF Ledger!NeverOverRefunded
  <2>1. CASE UNCHANGED LedgerView
    BY <2>0, <2>1, HeldShrinks DEF Ledger!HeldCents
  <2>2. ASSUME NEW r \in Refunds, NEW p \in Payments, NEW amount \in 1..Price, Ledger!Hold(r, p, amount)
        PROVE  Ledger!Held(q)' <= Price
    <3>1. CASE q # p
      <4>1. Ledger!HeldCents(q)' \subseteq Ledger!HeldCents(q)
        BY <2>2, <3>1 DEF Ledger!TypeOK, Ledger!Entry, Ledger!Hold, Ledger!HeldCents
      <4>2. QED
        BY <2>0, <4>1, HeldShrinks
    <3>2. CASE q = p
      <4>1. Ledger!HeldCents(p)' = Ledger!HeldCents(p) \cup CentsOf(r, amount)
        <5>1. /\ LedgerView[r].state = "none"
              /\ LedgerView'[r] = [payment |-> p, amount |-> amount, state |-> "held"]
              /\ \A x \in Refunds \ {r} : LedgerView'[x] = LedgerView[x]
          BY <2>2 DEF Ledger!Hold, Ledger!TypeOK
        <5>2. amount \in Nat /\ 1..amount \subseteq 1..Price /\ (1..amount = {c \in 1..Price : c <= amount})
          BY PaymentsAssumption
        <5>3. ASSUME NEW x \in Refunds, NEW c \in 1..Price
              PROVE  <<x, c>> \in Ledger!HeldCents(p)' <=> <<x, c>> \in Ledger!HeldCents(p) \cup CentsOf(r, amount)
          <6>1. CASE x = r
            BY <5>1, <5>2, <6>1 DEF Ledger!HeldCents, CentsOf
          <6>2. CASE x # r
            BY <5>1, <6>2 DEF Ledger!HeldCents, CentsOf
          <6>3. QED
            BY <6>1, <6>2
        <5>4. /\ Ledger!HeldCents(p)' \subseteq Refunds \X (1..Price)
              /\ Ledger!HeldCents(p) \cup CentsOf(r, amount) \subseteq Refunds \X (1..Price)
          BY <5>2 DEF Ledger!HeldCents, CentsOf
        <5>5. QED
          BY <5>3, <5>4
      <4>2. \A s \in Ledger!HeldCents(p) : s[1] # r
        BY <2>2 DEF Ledger!Hold, Ledger!HeldCents
      <4>3. Ledger!HeldCents(p) \in SUBSET (Refunds \X (1..Price)) /\ amount \in Nat
        BY DEF Ledger!HeldCents
      <4>4. IsFiniteSet(Refunds) /\ Price \in Nat
        BY PaymentsAssumption
      <4>5. Cardinality(Ledger!HeldCents(p) \cup CentsOf(r, amount)) = Cardinality(Ledger!HeldCents(p)) + amount
        BY <4>2, <4>3, <4>4, CentsAdd
      <4>6. QED
        BY <2>2, <3>2, <4>1, <4>5, SameCardinality DEF Ledger!Hold, Ledger!Held
    <3>3. QED
      BY <3>1, <3>2
  <2>3. ASSUME NEW r \in Refunds, Ledger!Settle(r)
        PROVE  Ledger!Held(q)' <= Price
    <3>1. Ledger!HeldCents(q)' \subseteq Ledger!HeldCents(q)
      BY <2>3 DEF Ledger!TypeOK, Ledger!Entry, Ledger!Settle, Ledger!HeldCents
    <3>2. QED
      BY <2>0, <3>1, HeldShrinks
  <2>4. ASSUME NEW r \in Refunds, Ledger!Release(r)
        PROVE  Ledger!Held(q)' <= Price
    <3>1. Ledger!HeldCents(q)' \subseteq Ledger!HeldCents(q)
      BY <2>4 DEF Ledger!TypeOK, Ledger!Entry, Ledger!Release, Ledger!HeldCents
    <3>2. QED
      BY <2>0, <3>1, HeldShrinks
  <2>5. QED
    BY <2>1, <2>2, <2>3, <2>4 DEF Ledger!Next
<1>3. QED
  BY <1>1, <1>2, LedgerTypeCorrect, PTL DEF Ledger!Spec

-----------------------------------------------------------------------------
(***************************************************************************)
(* The tables and the handlers' local state are well typed.                *)
(***************************************************************************)
THEOREM PaymentsTypeCorrect == Spec => []TypeOK
<1>1. Init => TypeOK
  BY PaymentsAssumption DEF Init, TypeOK, IdleWorker, IdleOperator, PaymentStatus
<1>2. TypeOK /\ [Next]_vars => TypeOK'
  <2> SUFFICES ASSUME TypeOK, [Next]_vars
               PROVE  TypeOK'
    OBVIOUS
  <2> USE PaymentsAssumption
  <2>1. CASE UNCHANGED vars
    BY <2>1 DEF TypeOK, vars, gatewayVars, eventVars
  <2>2. ASSUME NEW p \in Payments, CreatePayment(p)
        PROVE  TypeOK'
    BY <2>2 DEF TypeOK, CreatePayment, WithStatus, PaymentStatus, gatewayVars, eventVars
  <2>3. ASSUME NEW p \in Payments, CheckoutRegistered(p)
        PROVE  TypeOK'
    BY <2>3 DEF TypeOK, CheckoutRegistered, PaymentStatus, gatewayVars, eventVars
  <2>4. ASSUME NEW p \in Payments, CheckoutFailed(p)
        PROVE  TypeOK'
    BY <2>4 DEF TypeOK, CheckoutFailed, WithStatus, PaymentStatus, gatewayVars, eventVars
  <2>5. ASSUME NEW w \in Workers, NEW t \in Txns, NEW report, WebhookCheck(w, t, report)
        PROVE  TypeOK'
    BY <2>5 DEF TypeOK, WebhookCheck, resolveWebhookStatus, gatewayVars, eventVars
  <2>6. ASSUME NEW w \in Workers, WebhookStore(w)
        PROVE  TypeOK'
    BY <2>6 DEF TypeOK, WebhookStore, PaymentStatus, gatewayVars, eventVars
  <2>7. ASSUME NEW w \in Workers, WebhookRecord(w)
        PROVE  TypeOK'
    <3>1. announced' \in [Payments -> Nat]
      <4>1. \A q \in Payments : announced[q] + 1 \in Nat
        BY DEF TypeOK
      <4>2. QED
        BY <2>7, <4>1 DEF TypeOK, WebhookRecord
    <3>2. QED
      BY <2>7, <3>1 DEF TypeOK, WebhookRecord, IdleWorker, gatewayVars
  <2>21. ASSUME NEW w \in Workers, WebhookRecordRefused(w)
         PROVE  TypeOK'
    BY <2>21 DEF TypeOK, WebhookRecordRefused, IdleWorker, gatewayVars, eventVars
  <2>8. ASSUME NEW o \in Operators, NEW p \in Payments, NEW status \in PaymentStatus,
               UpdateStatusCheck(o, p, status)
        PROVE  TypeOK'
    BY <2>8 DEF TypeOK, UpdateStatusCheck, gatewayVars, eventVars
  <2>9. ASSUME NEW o \in Operators, UpdateStatusStore(o)
        PROVE  TypeOK'
    BY <2>9 DEF TypeOK, UpdateStatusStore, WithStatus, IdleOperator, PaymentStatus, gatewayVars, eventVars
  <2>10. ASSUME NEW o \in Operators, UpdateStatusAnnounce(o)
         PROVE  TypeOK'
    <3>1. forced' \in [Payments -> Nat]
      <4>1. \A q \in Payments : forced[q] + 1 \in Nat
        BY DEF TypeOK
      <4>2. QED
        BY <2>10, <4>1 DEF TypeOK, UpdateStatusAnnounce
    <3>2. QED
      BY <2>10, <3>1 DEF TypeOK, UpdateStatusAnnounce, IdleOperator, PaymentStatus, gatewayVars
  <2>11. ASSUME NEW r \in Refunds, NEW p \in Payments, NEW amount \in 1..Price,
                ReserveRefund(r, p, amount)
         PROVE  TypeOK'
    BY <2>11 DEF TypeOK, ReserveRefund, WithStatus, PaymentStatus, gatewayVars, eventVars
  <2>12. ASSUME NEW r \in Refunds, RefundSettled(r)
         PROVE  TypeOK'
    BY <2>12 DEF TypeOK, RefundSettled, WithRefundStatus, gatewayVars, eventVars
  <2>13. ASSUME NEW r \in Refunds, AnnounceRefund(r)
         PROVE  TypeOK'
    BY <2>13 DEF TypeOK, AnnounceRefund, gatewayVars, eventVars
  <2>14. ASSUME NEW r \in Refunds, RefundStillPending(r) \/ RefundRejected(r)
         PROVE  TypeOK'
    BY <2>14 DEF TypeOK, RefundStillPending, RefundRejected, gatewayVars, eventVars
  <2>15. ASSUME NEW r \in Refunds, MarkRefundFailed(r)
         PROVE  TypeOK'
    BY <2>15 DEF TypeOK, MarkRefundFailed, WithRefundStatus, gatewayVars, eventVars
  <2>16. ASSUME NEW r \in Refunds, ReleaseRefundCapacity(r)
         PROVE  TypeOK'
    <3>1. \A p \in Payments : RepairedStatus(p) \in PaymentStatus \cup {"none"}
      BY DEF TypeOK, RepairedStatus, PaymentStatus
    <3>2. \A p \in Payments :
            WithStatus(payment[p], RepairedStatus(p))
              \in [status: PaymentStatus \cup {"none"}, order: BOOLEAN, txn: Txns \cup {None}]
      BY <3>1 DEF TypeOK, WithStatus
    <3>3. payment' \in [Payments -> [status: PaymentStatus \cup {"none"}, order: BOOLEAN,
                                     txn: Txns \cup {None}]]
      BY <2>16, <3>2 DEF TypeOK, ReleaseRefundCapacity
    <3>4. QED
      BY <2>16, <3>3 DEF TypeOK, ReleaseRefundCapacity, gatewayVars, eventVars
  <2>17. CASE Abort
    <3>1. /\ aborts' \in 0..MaxAborts
          /\ UNCHANGED <<payment, refund, gatewayVars, eventVars>>
      BY <2>17 DEF TypeOK, Abort
    <3>2. checkout' \in [Payments -> {"idle", "calling"}]
      BY <2>17 DEF TypeOK, Abort
    <3>3. webhook' \in [Workers -> [pc: {"idle", "checked", "stored"},
                                    txn: Txns \cup {None},
                                    outcome: {"completed", "failed"}]]
      <4>1. UNCHANGED webhook \/ \E w \in Workers : webhook' = [webhook EXCEPT ![w] = IdleWorker]
        BY <2>17 DEF Abort
      <4>2. IdleWorker \in [pc: {"idle", "checked", "stored"},
                            txn: Txns \cup {None},
                            outcome: {"completed", "failed"}]
        BY DEF IdleWorker
      <4>3. QED
        BY <4>1, <4>2 DEF TypeOK
    <3>4. operator' \in [Operators -> [pc: {"idle", "checked", "stored"},
                                       payment: Payments \cup {None},
                                       to: PaymentStatus]]
      <4>1. UNCHANGED operator \/ \E o \in Operators : operator' = [operator EXCEPT ![o] = IdleOperator]
        BY <2>17 DEF Abort
      <4>2. QED
        BY <4>1 DEF TypeOK, IdleOperator, PaymentStatus
    <3>5. refunding' \in [Refunds -> {"idle", "calling", "settled", "waiting",
                                      "undo", "release", "done"}]
      BY <2>17 DEF TypeOK, Abort
    <3>6. QED
      BY <3>1, <3>2, <3>3, <3>4, <3>5 DEF TypeOK, gatewayVars, eventVars
  <2>18. ASSUME NEW t \in Txns, NEW report \in AllReports, Pay(t, report) \/ SettlePending(t, report)
         PROVE  TypeOK'
    <3>1. /\ attempt' = [attempt EXCEPT ![t] = report]
          /\ notices' = notices \cup {<<t, report>>}
          /\ UNCHANGED <<payment, refund, checkout, webhook, operator, refunding, returned, eventVars, aborts>>
      BY <2>18 DEF Pay, SettlePending
    <3>2. /\ attempt' \in [Txns -> AllReports \cup {"none"}]
          /\ notices' \in SUBSET (Txns \X AllReports)
      BY <3>1 DEF TypeOK
    <3>3. QED
      BY <3>1, <3>2 DEF TypeOK, eventVars
  <2>19. ASSUME NEW r \in Refunds, PaymobReturnsMoney(r)
         PROVE  TypeOK'
    BY <2>19 DEF TypeOK, PaymobReturnsMoney, eventVars
  <2>20. QED
    BY <2>1, <2>2, <2>3, <2>4, <2>5, <2>6, <2>7, <2>8, <2>9, <2>10, <2>11, <2>12, <2>13,
       <2>14, <2>15, <2>16, <2>17, <2>18, <2>19, <2>21
       DEF Next, Checkout, Webhook, UpdateStatus, Refund, Paymob, AllReports
<1>3. QED
  BY <1>1, <1>2, PTL DEF Spec
-----------------------------------------------------------------------------
(***************************************************************************)
(* Where createRefund of a refund stands and what its row and Paymob say   *)
(* of it agree: it is called or undone while pending, and announced once   *)
(* processed and returned.                                                 *)
(***************************************************************************)
RefundFlow ==
    \A r \in Refunds :
        /\ refunding[r] \in {"calling", "undo"} => refund[r].status = "pending"
        /\ refunding[r] = "settled" => refund[r].status = "processed" /\ returned[r] > 0
        /\ r \in refundNews =>
              refunding[r] = "done" /\ refund[r].status = "processed" /\ returned[r] > 0

(***************************************************************************)
(* The steps that are no step of a refund, of Paymob's refunds or an abort *)
(* leave the refunds alone.                                                *)
(***************************************************************************)
LEMMA OtherSteps ==
    ASSUME [Next]_vars,
           \A r \in Refunds : ~ Refund(r) /\ ~ PaymobReturnsMoney(r),
           ~ Abort
    PROVE  UNCHANGED <<refund, refunding, returned, refundNews>>
<1>1. CASE UNCHANGED vars
  BY <1>1 DEF vars
<1>2. ASSUME NEW p \in Payments, Checkout(p)
      PROVE  UNCHANGED <<refund, refunding, returned, refundNews>>
  BY <1>2 DEF Checkout, CreatePayment, CheckoutRegistered, CheckoutFailed, gatewayVars, eventVars
<1>3. ASSUME NEW w \in Workers, Webhook(w)
      PROVE  UNCHANGED <<refund, refunding, returned, refundNews>>
  BY <1>3 DEF Webhook, WebhookCheck, WebhookStore, WebhookRecord, WebhookRecordRefused,
              gatewayVars, eventVars
<1>4. ASSUME NEW o \in Operators, UpdateStatus(o)
      PROVE  UNCHANGED <<refund, refunding, returned, refundNews>>
  BY <1>4 DEF UpdateStatus, UpdateStatusCheck, UpdateStatusStore, UpdateStatusAnnounce,
              gatewayVars, eventVars
<1>5. ASSUME NEW t, NEW report, Pay(t, report) \/ SettlePending(t, report)
      PROVE  UNCHANGED <<refund, refunding, returned, refundNews>>
  BY <1>5 DEF Pay, SettlePending, eventVars
<1>6. QED
  BY <1>1, <1>2, <1>3, <1>4, <1>5 DEF Next, Paymob

(***************************************************************************)
(* RefundFlow is inductive.                                                *)
(***************************************************************************)
LEMMA RefundFlowStep == TypeOK /\ RefundFlow /\ [Next]_vars => RefundFlow'
<1> SUFFICES ASSUME TypeOK, RefundFlow, [Next]_vars
             PROVE  RefundFlow'
  OBVIOUS
<1>1. ASSUME NEW r \in Refunds, NEW p \in Payments, NEW amount \in 1..Price,
             ReserveRefund(r, p, amount)
      PROVE  RefundFlow'
  BY <1>1 DEF TypeOK, RefundFlow, ReserveRefund, gatewayVars, eventVars
<1>2. ASSUME NEW r \in Refunds, RefundSettled(r)
      PROVE  RefundFlow'
  BY <1>2 DEF TypeOK, RefundFlow, RefundSettled, WithRefundStatus, gatewayVars, eventVars
<1>3. ASSUME NEW r \in Refunds, AnnounceRefund(r)
      PROVE  RefundFlow'
  BY <1>3 DEF TypeOK, RefundFlow, AnnounceRefund, gatewayVars
<1>4. ASSUME NEW r \in Refunds, RefundStillPending(r) \/ RefundRejected(r)
      PROVE  RefundFlow'
  BY <1>4 DEF TypeOK, RefundFlow, RefundStillPending, RefundRejected, gatewayVars, eventVars
<1>5. ASSUME NEW r \in Refunds, MarkRefundFailed(r)
      PROVE  RefundFlow'
  BY <1>5 DEF TypeOK, RefundFlow, MarkRefundFailed, WithRefundStatus, gatewayVars, eventVars
<1>6. ASSUME NEW r \in Refunds, ReleaseRefundCapacity(r)
      PROVE  RefundFlow'
  BY <1>6 DEF TypeOK, RefundFlow, ReleaseRefundCapacity, gatewayVars, eventVars
<1>7. ASSUME NEW r \in Refunds, PaymobReturnsMoney(r)
      PROVE  RefundFlow'
  BY <1>7, PaymentsAssumption DEF TypeOK, RefundFlow, PaymobReturnsMoney, eventVars
<1>8. CASE Abort
  <2>1. UNCHANGED <<refund, returned, refundNews>>
    BY <1>8 DEF Abort, gatewayVars, eventVars
  <2>2. \A r \in Refunds :
          \/ refunding'[r] = refunding[r]
          \/ refunding[r] = "calling" /\ refunding'[r] = "waiting"
          \/ refunding[r] \in {"settled", "undo", "release"} /\ refunding'[r] = "done"
    BY <1>8 DEF Abort, TypeOK
  <2>3. QED
    BY <2>1, <2>2 DEF RefundFlow
<1>9. CASE /\ \A r \in Refunds : ~ Refund(r) /\ ~ PaymobReturnsMoney(r)
           /\ ~ Abort
  BY <1>9, OtherSteps DEF RefundFlow
<1>10. QED
  BY <1>1, <1>2, <1>3, <1>4, <1>5, <1>6, <1>7, <1>8, <1>9 DEF Refund

(***************************************************************************)
(* A refund that was announced is recorded as processed and its money was  *)
(* returned.                                                               *)
(***************************************************************************)
THEOREM RefundsAnnouncedRight == Spec => []AnnouncedRefundsReturned
<1>1. Init => RefundFlow
  BY DEF Init, RefundFlow
<1>2. TypeOK /\ RefundFlow => AnnouncedRefundsReturned
  BY DEF TypeOK, RefundFlow, AnnouncedRefundsReturned
<1>3. QED
  BY <1>1, <1>2, RefundFlowStep, PaymentsTypeCorrect, PTL DEF Spec

-----------------------------------------------------------------------------
(***************************************************************************)
(* What reserveRefundCapacity sums is what the ledger holds.               *)
(***************************************************************************)
LEMMA SameCents ==
    ASSUME TypeOK, NEW p
    PROVE  /\ Ledger!HeldCents(p) = ReservedCents(p)
           /\ Ledger!Held(p) = ReservedTotal(p)
<1>1. \A r \in Refunds :
        /\ LedgerView[r].payment = refund[r].payment
        /\ LedgerView[r].amount = refund[r].amount
        /\ LedgerView[r].state \in {"held", "settled"} <=> refund[r].status \in REFUND_CAPACITY_STATUSES
  BY DEF TypeOK, LedgerView, LedgerState, REFUND_CAPACITY_STATUSES
<1>2. \A rc \in Refunds \X (1..Price) : rc \in Ledger!HeldCents(p) <=> rc \in ReservedCents(p)
  BY <1>1 DEF Ledger!HeldCents, ReservedCents
<1>3. Ledger!HeldCents(p) = ReservedCents(p)
  BY <1>2 DEF Ledger!HeldCents, ReservedCents
<1>4. QED
  BY <1>3, SameCardinality DEF Ledger!Held, ReservedTotal

(***************************************************************************)
(* Each step of the payments module is a step of the ledger or leaves it   *)
(* alone.                                                                  *)
(***************************************************************************)
LEMMA LedgerStep == TypeOK /\ RefundFlow /\ [Next]_vars => [Ledger!Next]_LedgerView
<1> SUFFICES ASSUME TypeOK, RefundFlow, [Next]_vars
             PROVE  Ledger!Next \/ UNCHANGED LedgerView
  OBVIOUS
<1>1. ASSUME NEW r \in Refunds, NEW p \in Payments, NEW amount \in 1..Price,
             ReserveRefund(r, p, amount)
      PROVE  Ledger!Next
  <2>1. LedgerView[r].state = "none"
    BY <1>1 DEF ReserveRefund, LedgerView, LedgerState
  <2>2. Ledger!Held(p) + amount <= Price
    BY <1>1, SameCents DEF ReserveRefund
  <2>3. LedgerView' = [LedgerView EXCEPT ![r] = [payment |-> p, amount |-> amount, state |-> "held"]]
    BY <1>1 DEF ReserveRefund, LedgerView, LedgerState, TypeOK
  <2>4. Ledger!Hold(r, p, amount)
    BY <2>1, <2>2, <2>3 DEF Ledger!Hold
  <2>5. QED
    BY <2>4 DEF Ledger!Next
<1>2. ASSUME NEW r \in Refunds, RefundSettled(r)
      PROVE  Ledger!Next
  <2>1. refund[r].status = "pending" /\ LedgerView[r].state = "held"
    BY <1>2 DEF RefundSettled, RefundFlow, LedgerView, LedgerState
  <2>2. LedgerView' = [LedgerView EXCEPT ![r].state = "settled"]
    BY <1>2 DEF RefundSettled, WithRefundStatus, LedgerView, LedgerState, TypeOK
  <2>3. QED
    BY <2>1, <2>2 DEF Ledger!Next, Ledger!Settle
<1>3. ASSUME NEW r \in Refunds, MarkRefundFailed(r)
      PROVE  Ledger!Next
  <2>1. refund[r].status = "pending" /\ LedgerView[r].state = "held"
    BY <1>3 DEF MarkRefundFailed, RefundFlow, LedgerView, LedgerState
  <2>2. LedgerView' = [LedgerView EXCEPT ![r].state = "released"]
    BY <1>3 DEF MarkRefundFailed, WithRefundStatus, LedgerView, LedgerState, TypeOK
  <2>3. QED
    BY <2>1, <2>2 DEF Ledger!Next, Ledger!Release
<1>4. ASSUME UNCHANGED refund
      PROVE  UNCHANGED LedgerView
  BY <1>4 DEF LedgerView
<1>5. ASSUME NEW r \in Refunds,
             AnnounceRefund(r) \/ RefundStillPending(r) \/ RefundRejected(r) \/ ReleaseRefundCapacity(r)
      PROVE  UNCHANGED refund
  BY <1>5 DEF AnnounceRefund, RefundStillPending, RefundRejected, ReleaseRefundCapacity
<1>6. ASSUME NEW r \in Refunds, PaymobReturnsMoney(r)
      PROVE  UNCHANGED refund
  BY <1>6 DEF PaymobReturnsMoney
<1>7. ASSUME Abort
      PROVE  UNCHANGED refund
  BY <1>7 DEF Abort
<1>8. QED
  BY <1>1, <1>2, <1>3, <1>4, <1>5, <1>6, <1>7, OtherSteps DEF Refund

(***************************************************************************)
(* The payments module implements the ledger: capacity is checked against  *)
(* every live refund, and a settled or released refund is final.           *)
(***************************************************************************)
THEOREM PaymentsImplementLedger == Spec => ImplementsLedger
<1>1. Init => Ledger!Init /\ RefundFlow
  BY DEF Init, Ledger!Init, LedgerView, LedgerState, RefundFlow
<1>2. QED
  BY <1>1, LedgerStep, RefundFlowStep, PaymentsTypeCorrect, PTL
     DEF Spec, ImplementsLedger, Ledger!Spec

(***************************************************************************)
(* So no sequence of concurrent, failed or cut short refunds reserves more *)
(* than was paid.                                                          *)
(***************************************************************************)
THEOREM PaymentsNeverOverRefunded == Spec => []NeverOverRefunded
BY LedgerNeverOverRefunded, PaymentsImplementLedger, PTL DEF ImplementsLedger, NeverOverRefunded
-----------------------------------------------------------------------------
(***************************************************************************)
(* A report of success, the delivery that carries it from check to emit    *)
(* and the announcement all stem from an attempt that was captured in full *)
(* (handlePaymobWebhook, assertCapturedAmountMatches).                     *)
(***************************************************************************)
CaptureFlow ==
    /\ \A t \in Txns : <<t, "success">> \in notices => attempt[t] = "success"
    /\ \A w \in Workers : webhook[w].pc # "idle" =>
          /\ webhook[w].txn \in Txns
          /\ webhook[w].outcome = "completed" => attempt[webhook[w].txn] = "success"
    /\ AnnouncedOnlyCaptured

(***************************************************************************)
(* An attempt captured in full stays so: Paymob's own steps.               *)
(***************************************************************************)
LEMMA PaymobKeepsCaptures ==
    ASSUME TypeOK, CaptureFlow, NEW t \in Txns, NEW report,
           Pay(t, report) \/ SettlePending(t, report)
    PROVE  CaptureFlow'
<1>1. /\ attempt[t] # "success"
      /\ attempt' = [attempt EXCEPT ![t] = report]
      /\ notices' = notices \cup {<<t, report>>}
      /\ UNCHANGED <<webhook, announced>>
  BY DEF Pay, SettlePending, eventVars
<1>2. \A u \in Txns : attempt[u] = "success" => attempt'[u] = "success"
  BY <1>1 DEF TypeOK
<1>3. \A u \in Txns : <<u, "success">> \in notices' => attempt'[u] = "success"
  BY <1>1, <1>2 DEF TypeOK, CaptureFlow
<1>4. \A w \in Workers : webhook'[w].pc # "idle" =>
          /\ webhook'[w].txn \in Txns
          /\ webhook'[w].outcome = "completed" => attempt'[webhook'[w].txn] = "success"
  BY <1>1, <1>2 DEF CaptureFlow
<1>5. AnnouncedOnlyCaptured'
  BY <1>1, <1>2 DEF CaptureFlow, AnnouncedOnlyCaptured
<1>6. QED
  BY <1>3, <1>4, <1>5 DEF CaptureFlow

(***************************************************************************)
(* CaptureFlow is inductive.                                               *)
(***************************************************************************)
LEMMA CaptureFlowStep == TypeOK /\ CaptureFlow /\ [Next]_vars => CaptureFlow'
<1> SUFFICES ASSUME TypeOK, CaptureFlow, [Next]_vars
             PROVE  CaptureFlow'
  OBVIOUS
<1>1. ASSUME UNCHANGED <<webhook, attempt, notices, announced>>
      PROVE  CaptureFlow'
  BY <1>1 DEF CaptureFlow, AnnouncedOnlyCaptured
<1>2. ASSUME NEW w \in Workers, NEW t \in Txns, NEW report \in AllReports, WebhookCheck(w, t, report)
      PROVE  CaptureFlow'
  <2>1. /\ UNCHANGED <<attempt, notices, announced>>
        /\ webhook'[w].txn = t
        /\ \A v \in Workers \ {w} : webhook'[v] = webhook[v]
    BY <1>2 DEF WebhookCheck, TypeOK, gatewayVars, eventVars
  <2>2. webhook'[w].outcome = "completed" => attempt[t] = "success"
    BY <1>2 DEF WebhookCheck, TypeOK, CaptureFlow, resolveWebhookStatus, CapturedAmountMatches
  <2>3. QED
    BY <2>1, <2>2 DEF CaptureFlow, AnnouncedOnlyCaptured
<1>3. ASSUME NEW w \in Workers, WebhookStore(w)
      PROVE  CaptureFlow'
  <2>1. /\ UNCHANGED <<attempt, notices, announced>>
        /\ webhook[w].pc # "idle"
        /\ webhook'[w].txn = webhook[w].txn
        /\ webhook'[w].outcome = webhook[w].outcome
        /\ \A v \in Workers \ {w} : webhook'[v] = webhook[v]
    BY <1>3 DEF WebhookStore, TypeOK, gatewayVars, eventVars
  <2>2. QED
    BY <2>1 DEF CaptureFlow, AnnouncedOnlyCaptured
<1>4. ASSUME NEW w \in Workers, WebhookRecord(w)
      PROVE  CaptureFlow'
  <2> DEFINE p == OrderOf[webhook[w].txn]
  <2>1. /\ UNCHANGED <<attempt, notices>>
        /\ webhook[w].pc # "idle"
        /\ webhook'[w].pc = "idle"
        /\ \A v \in Workers \ {w} : webhook'[v] = webhook[v]
    BY <1>4 DEF WebhookRecord, IdleWorker, TypeOK, gatewayVars
  <2>2. \A q \in Payments : announced'[q] = announced[q] \/ (q = p /\ webhook[w].outcome = "completed")
    BY <1>4 DEF WebhookRecord, TypeOK
  <2>3. webhook[w].txn \in Txns /\ (webhook[w].outcome = "completed" => attempt[webhook[w].txn] = "success")
    BY <2>1 DEF CaptureFlow
  <2>4. AnnouncedOnlyCaptured'
    BY <2>1, <2>2, <2>3 DEF CaptureFlow, AnnouncedOnlyCaptured
  <2>5. QED
    BY <2>1, <2>4 DEF CaptureFlow
<1>5. ASSUME Abort \/ \E w \in Workers : WebhookRecordRefused(w)
      PROVE  CaptureFlow'
  <2>1. UNCHANGED <<attempt, notices, announced>>
    BY <1>5 DEF Abort, WebhookRecordRefused, gatewayVars, eventVars
  <2>2. \A w \in Workers : webhook'[w] = webhook[w] \/ webhook'[w].pc = "idle"
    BY <1>5 DEF Abort, WebhookRecordRefused, IdleWorker, TypeOK
  <2>3. QED
    BY <2>1, <2>2 DEF CaptureFlow, AnnouncedOnlyCaptured
<1>6. ASSUME NEW p \in Payments, Checkout(p)
      PROVE  CaptureFlow'
  BY <1>1, <1>6 DEF Checkout, CreatePayment, CheckoutRegistered, CheckoutFailed, gatewayVars, eventVars
<1>7. ASSUME NEW o \in Operators, UpdateStatus(o)
      PROVE  CaptureFlow'
  BY <1>1, <1>7 DEF UpdateStatus, UpdateStatusCheck, UpdateStatusStore, UpdateStatusAnnounce,
                    gatewayVars, eventVars
<1>8. ASSUME NEW r \in Refunds, Refund(r)
      PROVE  CaptureFlow'
  BY <1>1, <1>8 DEF Refund, ReserveRefund, RefundSettled, AnnounceRefund, RefundStillPending,
                    RefundRejected, MarkRefundFailed, ReleaseRefundCapacity, gatewayVars, eventVars
<1>9. ASSUME NEW r \in Refunds, PaymobReturnsMoney(r)
      PROVE  CaptureFlow'
  BY <1>1, <1>9 DEF PaymobReturnsMoney, eventVars
<1>10. CASE UNCHANGED vars
  BY <1>1, <1>10 DEF vars
<1>11. Reports \cup {"success", "declined"} \subseteq AllReports
  BY PaymentsAssumption DEF AllReports
<1>12. QED
  BY <1>2, <1>3, <1>4, <1>5, <1>6, <1>7, <1>8, <1>9, <1>10, <1>11, PaymobKeepsCaptures
     DEF Next, Webhook, Paymob

(***************************************************************************)
(* Only a payment that was captured in full is ever announced by a         *)
(* webhook, whatever is reported, how often and in which order.            *)
(***************************************************************************)
THEOREM OnlyCapturedAnnounced == Spec => []AnnouncedOnlyCaptured
<1>1. Init => CaptureFlow
  BY DEF Init, CaptureFlow, AnnouncedOnlyCaptured, IdleWorker
<1>2. CaptureFlow => AnnouncedOnlyCaptured
  BY DEF CaptureFlow
<1>3. QED
  BY <1>1, <1>2, CaptureFlowStep, PaymentsTypeCorrect, PTL DEF Spec

-----------------------------------------------------------------------------
(***************************************************************************)
(* The deliveries of payment p that are being handled.                     *)
(***************************************************************************)
BusyWith(p) == {w \in Workers : webhook[w].pc # "idle" /\ OrderOf[webhook[w].txn] = p}

(***************************************************************************)
(* Before its Paymob order is stored nothing can be paid for a payment, so *)
(* no delivery is about it; its checkout is over once the order is stored. *)
(* That keeps the unconditional update of registerPaymobCheckout from      *)
(* overwriting what a webhook wrote.                                       *)
(***************************************************************************)
Opening ==
    /\ \A w \in Workers : webhook[w].pc # "idle" => webhook[w].txn \in Txns
    /\ \A p \in Payments :
          /\ payment[p].status = "none" \/ checkout[p] = "calling" => ~ payment[p].order
          /\ ~ payment[p].order =>
                payment[p].txn = None /\ BusyWith(p) = {} /\ announced[p] = 0

(***************************************************************************)
(* Of a payment that no operator has written: while no webhook wrote its   *)
(* status, nothing is announced and every delivery in progress has only    *)
(* read; afterwards each delivery in progress may still announce, and no   *)
(* new one starts.                                                         *)
(***************************************************************************)
Open == {"none", "pending", "processing"}

Announcing ==
    \A p \in Payments \ byHand :
        /\ payment[p].status \in Open =>
              announced[p] = 0 /\ \A w \in BusyWith(p) : webhook[w].pc = "checked"
        /\ announced[p] + Cardinality(BusyWith(p)) <= Cardinality(Workers)

(***************************************************************************)
(* The instance of RefundedIffCovered: nothing was cut short, one delivery *)
(* at a time, no operator.                                                 *)
(***************************************************************************)
Alone == aborts = 0 /\ Operators = {} /\ Cardinality(Workers) = 1

\* r reserves capacity of p.
Live(r, p) == refund[r].payment = p /\ refund[r].status \in REFUND_CAPACITY_STATUSES

(***************************************************************************)
(* How status and refunds of p are related while refunds are in progress.  *)
(* Until a webhook stored a transaction every live refund is to be undone; *)
(* after that no webhook writes the status.  A payment reads refunded      *)
(* while it is covered, or a failed refund has yet to release it; it is    *)
(* covered while it reads refunded, or a refund has yet to be undone.      *)
(***************************************************************************)
CoverOf(p) ==
    /\ payment[p].txn # None =>
          /\ payment[p].status \in {"completed", "failed", "refunded"}
          /\ \A w \in BusyWith(p) : webhook[w].pc = "stored"
    /\ payment[p].txn = None =>
          \A r \in Refunds : Live(r, p) => refunding[r] = "undo"
    /\ payment[p].status = "refunded" =>
          \/ ReservedTotal(p) = Price
          \/ \E r \in Refunds : refund[r].payment = p /\ refunding[r] = "release"
    /\ ReservedTotal(p) = Price =>
          \/ payment[p].status = "refunded"
          \/ \E r \in Refunds : refund[r].payment = p /\ refunding[r] = "undo"

(***************************************************************************)
(* A live refund is a positive part of a payment; one that releases its    *)
(* capacity has failed.                                                    *)
(***************************************************************************)
RefundRows ==
    \A r \in Refunds :
        /\ refund[r].status # "none" => refund[r].payment \in Payments /\ refund[r].amount \in 1..Price
        /\ refunding[r] = "release" => refund[r].status = "failed"
        /\ refunding[r] # "idle" => refund[r].status # "none"

Covering == RefundRows /\ (Alone => \A p \in Payments : CoverOf(p))

-----------------------------------------------------------------------------
(***************************************************************************)
(* The steps that touch the payments table, a checkout or a delivery.      *)
(***************************************************************************)
LEMMA PaymentSteps ==
    ASSUME [Next]_vars
    PROVE  \/ \E p \in Payments : Checkout(p)
           \/ \E w \in Workers, t \in Txns, report \in AllReports : WebhookCheck(w, t, report)
           \/ \E w \in Workers : WebhookStore(w) \/ WebhookRecord(w) \/ WebhookRecordRefused(w)
           \/ \E o \in Operators : UpdateStatus(o)
           \/ \E r \in Refunds, p \in Payments, amount \in 1..Price : ReserveRefund(r, p, amount)
           \/ \E r \in Refunds : ReleaseRefundCapacity(r)
           \/ Abort
           \/ UNCHANGED <<payment, checkout, webhook, announced>>
<1>1. CASE UNCHANGED vars
  BY <1>1 DEF vars
<1>2. ASSUME NEW w \in Workers, Webhook(w)
      PROVE  \/ \E t \in Txns, report \in AllReports : WebhookCheck(w, t, report)
             \/ WebhookStore(w) \/ WebhookRecord(w) \/ WebhookRecordRefused(w)
  BY <1>2, PaymentsAssumption DEF Webhook, AllReports
<1>3. ASSUME NEW r \in Refunds,
             \/ RefundSettled(r) \/ AnnounceRefund(r) \/ RefundStillPending(r)
             \/ RefundRejected(r) \/ MarkRefundFailed(r) \/ PaymobReturnsMoney(r)
      PROVE  UNCHANGED <<payment, checkout, webhook, announced>>
  BY <1>3 DEF RefundSettled, AnnounceRefund, RefundStillPending, RefundRejected,
              MarkRefundFailed, PaymobReturnsMoney, eventVars
<1>4. ASSUME NEW t, NEW report, Pay(t, report) \/ SettlePending(t, report)
      PROVE  UNCHANGED <<payment, checkout, webhook, announced>>
  BY <1>4 DEF Pay, SettlePending, eventVars
<1>5. QED
  BY <1>1, <1>2, <1>3, <1>4 DEF Next, Refund, Paymob

(***************************************************************************)
(* How the deliveries in progress change.                                  *)
(***************************************************************************)
LEMMA BusyUnchanged == UNCHANGED webhook => \A p : BusyWith(p)' = BusyWith(p)
BY DEF BusyWith

LEMMA BusyChecks ==
    ASSUME TypeOK, NEW w \in Workers, NEW t \in Txns, NEW report, WebhookCheck(w, t, report)
    PROVE  \A p : /\ w \notin BusyWith(p)
                  /\ BusyWith(p)' = IF p = OrderOf[t] THEN BusyWith(p) \cup {w} ELSE BusyWith(p)
<1>1. /\ webhook[w].pc = "idle"
      /\ webhook'[w].pc = "checked" /\ webhook'[w].txn = t
      /\ \A v \in Workers \ {w} : webhook'[v] = webhook[v]
  BY DEF WebhookCheck, TypeOK
<1>2. QED
  BY <1>1 DEF BusyWith

LEMMA BusyStores ==
    ASSUME TypeOK, NEW w \in Workers, WebhookStore(w)
    PROVE  \A p : BusyWith(p)' = BusyWith(p)
<1>1. /\ webhook[w].pc = "checked"
      /\ webhook'[w].pc = "stored" /\ webhook'[w].txn = webhook[w].txn
      /\ \A v \in Workers \ {w} : webhook'[v] = webhook[v]
  BY DEF WebhookStore, TypeOK
<1>2. QED
  BY <1>1 DEF BusyWith

LEMMA BusyEnds ==
    ASSUME TypeOK, \A v \in Workers : webhook'[v] = webhook[v] \/ webhook'[v].pc = "idle"
    PROVE  \A p : BusyWith(p)' \subseteq BusyWith(p)
BY DEF BusyWith

(***************************************************************************)
(* Opening is inductive.                                                   *)
(***************************************************************************)
LEMMA OpeningStep == TypeOK /\ Opening /\ [Next]_vars => Opening'
<1> SUFFICES ASSUME TypeOK, Opening, [Next]_vars
             PROVE  Opening'
  OBVIOUS
<1>1. ASSUME NEW p \in Payments, Checkout(p)
      PROVE  Opening'
  <2>1. UNCHANGED <<webhook, announced>>
    BY <1>1 DEF Checkout, CreatePayment, CheckoutRegistered, CheckoutFailed, eventVars
  <2>2. \A q \in Payments \ {p} : payment'[q] = payment[q] /\ checkout'[q] = checkout[q]
    BY <1>1 DEF Checkout, CreatePayment, CheckoutRegistered, CheckoutFailed, TypeOK
  <2>3. /\ payment'[p].txn = payment[p].txn
        /\ payment'[p].status # "none"
        /\ checkout'[p] = "calling" => ~ payment'[p].order
        /\ ~ payment'[p].order => ~ payment[p].order
    BY <1>1 DEF Checkout, CreatePayment, CheckoutRegistered, CheckoutFailed, WithStatus, TypeOK, Opening
  <2>4. QED
    BY <2>1, <2>2, <2>3, BusyUnchanged DEF Opening
<1>2. ASSUME NEW w \in Workers, NEW t \in Txns, NEW report \in AllReports, WebhookCheck(w, t, report)
      PROVE  Opening'
  <2>1. UNCHANGED <<payment, checkout, announced>> /\ payment[OrderOf[t]].order
    BY <1>2 DEF WebhookCheck, eventVars
  <2>2. /\ webhook'[w].txn = t
        /\ \A v \in Workers \ {w} : webhook'[v] = webhook[v]
    BY <1>2 DEF WebhookCheck, TypeOK
  <2>3. QED
    BY <1>2, <2>1, <2>2, BusyChecks DEF Opening
<1>3. ASSUME NEW w \in Workers, WebhookStore(w)
      PROVE  Opening'
  <2> DEFINE p == OrderOf[webhook[w].txn]
  <2>1. UNCHANGED <<checkout, announced>> /\ w \in BusyWith(p) /\ webhook[w].txn \in Txns
    BY <1>3 DEF WebhookStore, BusyWith, eventVars, Opening
  <2>2. /\ webhook'[w].txn = webhook[w].txn
        /\ \A v \in Workers \ {w} : webhook'[v] = webhook[v]
    BY <1>3 DEF WebhookStore, TypeOK
  <2>3. p \in Payments /\ payment[p].order
    BY <2>1, PaymentsAssumption DEF Opening
  <2>4. /\ payment'[p].order
        /\ \A q \in Payments \ {p} : payment'[q] = payment[q]
    BY <1>3, <2>3 DEF WebhookStore, TypeOK
  <2>5. checkout[p] # "calling" /\ payment'[p].status # "none"
    BY <1>3, <2>3 DEF Opening, WebhookStore, TypeOK
  <2>6. QED
    BY <1>3, <2>1, <2>2, <2>3, <2>4, <2>5, BusyStores DEF Opening
<1>4. ASSUME NEW w \in Workers, WebhookRecord(w)
      PROVE  Opening'
  <2> DEFINE p == OrderOf[webhook[w].txn]
  <2>1. UNCHANGED <<payment, checkout>> /\ w \in BusyWith(p)
    BY <1>4 DEF WebhookRecord, BusyWith
  <2>2. \A v \in Workers : webhook'[v] = webhook[v] \/ webhook'[v].pc = "idle"
    BY <1>4 DEF WebhookRecord, IdleWorker, TypeOK
  <2>3. \A q \in Payments : q # p => announced'[q] = announced[q]
    BY <1>4 DEF WebhookRecord, TypeOK
  <2>4. \A q : BusyWith(q)' \subseteq BusyWith(q)
    BY <2>2, BusyEnds
  <2>5. \A q \in Payments : ~ payment[q].order => q # p
    BY <2>1 DEF Opening
  <2>6. QED
    BY <2>1, <2>2, <2>3, <2>4, <2>5 DEF Opening
<1>5. ASSUME NEW o \in Operators, UpdateStatus(o)
      PROVE  Opening'
  <2>1. UNCHANGED <<checkout, webhook, announced>>
    BY <1>5 DEF UpdateStatus, UpdateStatusCheck, UpdateStatusStore, UpdateStatusAnnounce, eventVars
  <2>2. \A q \in Payments : /\ payment'[q].order = payment[q].order
                            /\ payment'[q].txn = payment[q].txn
                            /\ payment'[q].status = "none" => payment[q].status = "none"
    <3>1. CASE UpdateStatusStore(o)
      BY <3>1 DEF UpdateStatusStore, WithStatus, TypeOK, PaymentStatus
    <3>2. CASE ~ UpdateStatusStore(o)
      BY <1>5, <3>2 DEF UpdateStatus, UpdateStatusCheck, UpdateStatusAnnounce
    <3>3. QED
      BY <3>1, <3>2
  <2>3. QED
    BY <2>1, <2>2, BusyUnchanged DEF Opening
<1>6. ASSUME NEW r \in Refunds, NEW p \in Payments, NEW amount \in 1..Price, ReserveRefund(r, p, amount)
      PROVE  Opening'
  <2>1. UNCHANGED <<checkout, webhook, announced>>
    BY <1>6 DEF ReserveRefund, eventVars
  <2>2. \A q \in Payments : /\ payment'[q].order = payment[q].order
                            /\ payment'[q].txn = payment[q].txn
                            /\ payment'[q].status = "none" => payment[q].status = "none"
    BY <1>6 DEF ReserveRefund, WithStatus, TypeOK
  <2>3. QED
    BY <2>1, <2>2, BusyUnchanged DEF Opening
<1>7. ASSUME NEW r \in Refunds, ReleaseRefundCapacity(r)
      PROVE  Opening'
  <2>1. UNCHANGED <<checkout, webhook, announced>>
    BY <1>7 DEF ReleaseRefundCapacity, eventVars
  <2>2. \A q \in Payments : /\ payment'[q].order = payment[q].order
                            /\ payment'[q].txn = payment[q].txn
                            /\ payment'[q].status = "none" => payment[q].status = "none"
    BY <1>7 DEF ReleaseRefundCapacity, RepairedStatus, WithStatus, TypeOK
  <2>3. QED
    BY <2>1, <2>2, BusyUnchanged DEF Opening
<1>8. CASE Abort
  <2>1. UNCHANGED <<payment, announced>>
    BY <1>8 DEF Abort, eventVars
  <2>2. \A q \in Payments : checkout'[q] = "calling" => checkout[q] = "calling"
    BY <1>8 DEF Abort, TypeOK
  <2>3. \A v \in Workers : webhook'[v] = webhook[v] \/ webhook'[v].pc = "idle"
    BY <1>8 DEF Abort, IdleWorker, TypeOK
  <2>4. \A q : BusyWith(q)' \subseteq BusyWith(q)
    BY <2>3, BusyEnds
  <2>5. QED
    BY <2>1, <2>2, <2>3, <2>4 DEF Opening
<1>9. ASSUME NEW w \in Workers, WebhookRecordRefused(w)
      PROVE  Opening'
  <2>1. UNCHANGED <<payment, checkout, announced>>
    BY <1>9 DEF WebhookRecordRefused, eventVars
  <2>2. \A v \in Workers : webhook'[v] = webhook[v] \/ webhook'[v].pc = "idle"
    BY <1>9 DEF WebhookRecordRefused, IdleWorker, TypeOK
  <2>3. \A q : BusyWith(q)' \subseteq BusyWith(q)
    BY <2>2, BusyEnds
  <2>4. QED
    BY <2>1, <2>2, <2>3 DEF Opening
<1>10. CASE UNCHANGED <<payment, checkout, webhook, announced>>
  BY <1>10, BusyUnchanged DEF Opening
<1>11. QED
  BY <1>1, <1>2, <1>3, <1>4, <1>5, <1>6, <1>7, <1>8, <1>9, <1>10, PaymentSteps

(***************************************************************************)
(* The number of deliveries in progress is a natural number.               *)
(***************************************************************************)
LEMMA BusyFinite ==
    ASSUME NEW p
    PROVE  /\ IsFiniteSet(BusyWith(p))
           /\ Cardinality(BusyWith(p)) \in Nat
           /\ Cardinality(BusyWith(p)) <= Cardinality(Workers)
           /\ Cardinality(Workers) \in Nat
<1>1. BusyWith(p) \in SUBSET Workers /\ IsFiniteSet(Workers)
  BY PaymentsAssumption DEF BusyWith
<1>2. QED
  BY <1>1, FS_Subset, FS_CardinalityType

(***************************************************************************)
(* What an operator has written stays noted.                               *)
(***************************************************************************)
LEMMA ByHandGrows == [Next]_vars => byHand \subseteq byHand'
<1> SUFFICES ASSUME [Next]_vars PROVE byHand \subseteq byHand'
  OBVIOUS
<1>1. CASE UNCHANGED vars
  BY <1>1 DEF vars
<1>2. ASSUME NEW p \in Payments, Checkout(p) PROVE byHand \subseteq byHand'
  BY <1>2 DEF Checkout, CreatePayment, CheckoutRegistered, CheckoutFailed, eventVars
<1>3. ASSUME NEW w \in Workers, Webhook(w) PROVE byHand \subseteq byHand'
  BY <1>3 DEF Webhook, WebhookCheck, WebhookStore, WebhookRecord, WebhookRecordRefused, eventVars
<1>4. ASSUME NEW o \in Operators, UpdateStatus(o) PROVE byHand \subseteq byHand'
  BY <1>4 DEF UpdateStatus, UpdateStatusCheck, UpdateStatusStore, UpdateStatusAnnounce, eventVars
<1>5. ASSUME NEW r \in Refunds, Refund(r) PROVE byHand \subseteq byHand'
  BY <1>5 DEF Refund, ReserveRefund, RefundSettled, AnnounceRefund, RefundStillPending,
              RefundRejected, MarkRefundFailed, ReleaseRefundCapacity, eventVars
<1>6. CASE Abort
  BY <1>6 DEF Abort, eventVars
<1>7. CASE Paymob
  BY <1>7 DEF Paymob, Pay, SettlePending, PaymobReturnsMoney, eventVars
<1>8. QED
  BY <1>1, <1>2, <1>3, <1>4, <1>5, <1>6, <1>7 DEF Next

(***************************************************************************)
(* A step that announces nothing and starts no delivery keeps Announcing,  *)
(* if it does not reopen a payment.                                        *)
(***************************************************************************)
LEMMA AnnouncingKept ==
    ASSUME TypeOK, Announcing,
           UNCHANGED announced,
           \A v \in Workers : webhook'[v] = webhook[v] \/ webhook'[v].pc = "idle",
           byHand \subseteq byHand',
           \A q \in Payments \ byHand' : payment'[q].status \in Open => payment[q].status \in Open
    PROVE  Announcing'
<1> SUFFICES ASSUME NEW q \in Payments, q \notin byHand'
             PROVE  /\ payment'[q].status \in Open =>
                          announced'[q] = 0 /\ \A w \in BusyWith(q)' : webhook'[w].pc = "checked"
                    /\ announced'[q] + Cardinality(BusyWith(q)') <= Cardinality(Workers)
  BY DEF Announcing
<1>1. /\ payment[q].status \in Open =>
            announced[q] = 0 /\ \A w \in BusyWith(q) : webhook[w].pc = "checked"
      /\ announced[q] + Cardinality(BusyWith(q)) <= Cardinality(Workers)
  BY DEF Announcing
<1>2. BusyWith(q)' \in SUBSET BusyWith(q)
  BY BusyEnds
<1>3. \A w \in BusyWith(q)' : webhook'[w] = webhook[w]
  BY DEF BusyWith
<1>4. Cardinality(BusyWith(q)') \in Nat /\ Cardinality(BusyWith(q)') <= Cardinality(BusyWith(q))
  BY <1>2, BusyFinite, FS_Subset, FS_CardinalityType
<1>5. announced[q] \in Nat
  BY DEF TypeOK
<1>6. QED
  BY <1>1, <1>2, <1>3, <1>4, <1>5, BusyFinite

(***************************************************************************)
(* Announcing is inductive.                                                *)
(***************************************************************************)
LEMMA AnnouncingStep == TypeOK /\ Opening /\ Announcing /\ [Next]_vars => Announcing'
<1> SUFFICES ASSUME TypeOK, Opening, Announcing, [Next]_vars
             PROVE  Announcing'
  OBVIOUS
<1>0. byHand \subseteq byHand'
  BY ByHandGrows
<1>1. ASSUME NEW p \in Payments, Checkout(p)
      PROVE  Announcing'
  <2>1. UNCHANGED <<webhook, announced>>
    BY <1>1 DEF Checkout, CreatePayment, CheckoutRegistered, CheckoutFailed, eventVars
  <2>2. \A q \in Payments \ {p} : payment'[q] = payment[q]
    BY <1>1 DEF Checkout, CreatePayment, CheckoutRegistered, CheckoutFailed, TypeOK
  <2>3. BusyWith(p) = {} /\ announced[p] = 0
    BY <1>1 DEF Checkout, CreatePayment, CheckoutRegistered, CheckoutFailed, Opening
  <2>4. \A q : BusyWith(q)' = BusyWith(q)
    BY <2>1, BusyUnchanged
  <2>5. QED
    BY <1>0, <2>1, <2>2, <2>3, <2>4 DEF Announcing
<1>2. ASSUME NEW w \in Workers, NEW t \in Txns, NEW report \in AllReports, WebhookCheck(w, t, report)
      PROVE  Announcing'
  <2> DEFINE p == OrderOf[t]
  <2>1. UNCHANGED <<payment, announced>> /\ p \in Payments
    BY <1>2, PaymentsAssumption DEF WebhookCheck, eventVars
  <2>2. webhook'[w].pc = "checked" /\ \A v \in Workers \ {w} : webhook'[v] = webhook[v]
    BY <1>2 DEF WebhookCheck, TypeOK
  <2>3. payment[p].status \in Open
    <3>1. resolveWebhookStatus(report) \in PAYMENT_TRANSITIONS[payment[p].status]
      BY <1>2 DEF WebhookCheck
    <3>2. resolveWebhookStatus(report) \in {"completed", "failed"}
      BY DEF resolveWebhookStatus
    <3>3. payment[p].status \in PaymentStatus \cup {"none"}
      BY <2>1 DEF TypeOK
    <3>4. QED
      BY <3>1, <3>2, <3>3 DEF PAYMENT_TRANSITIONS, PaymentStatus, Open
  <2>4. p \notin byHand => announced[p] = 0 /\ \A v \in BusyWith(p) : webhook[v].pc = "checked"
    BY <2>1, <2>3 DEF Announcing
  <2>5. /\ w \notin BusyWith(p)
        /\ \A q : BusyWith(q)' = IF q = p THEN BusyWith(p) \cup {w} ELSE BusyWith(q)
    BY <1>2, BusyChecks
  <2>6. BusyWith(p)' \in SUBSET Workers /\ IsFiniteSet(Workers)
    BY PaymentsAssumption DEF BusyWith
  <2>7. Cardinality(BusyWith(p)') <= Cardinality(Workers) /\ Cardinality(BusyWith(p)') \in Nat
    BY <2>6, FS_Subset, FS_CardinalityType
  <2>8. ASSUME NEW q \in Payments, q \notin byHand
        PROVE  /\ payment'[q].status \in Open =>
                     announced'[q] = 0 /\ \A v \in BusyWith(q)' : webhook'[v].pc = "checked"
               /\ announced'[q] + Cardinality(BusyWith(q)') <= Cardinality(Workers)
    <3>1. CASE q = p
      <4>1. \A v \in BusyWith(p) : v \in Workers \ {w}
        BY <2>5 DEF BusyWith
      <4>2. \A v \in BusyWith(p)' : webhook'[v].pc = "checked"
        BY <2>2, <2>4, <2>5, <2>8, <3>1, <4>1
      <4>3. QED
        BY <2>1, <2>4, <2>7, <2>8, <3>1, <4>2
    <3>2. CASE q # p
      <4>1. BusyWith(q)' = BusyWith(q) /\ w \notin BusyWith(q)
        BY <1>2, <3>2, BusyChecks
      <4>2. \A v \in BusyWith(q) : webhook'[v] = webhook[v]
        BY <2>2, <4>1 DEF BusyWith
      <4>3. QED
        BY <2>1, <2>8, <4>1, <4>2 DEF Announcing
    <3>3. QED
      BY <3>1, <3>2
  <2>9. QED
    BY <1>0, <2>8 DEF Announcing
<1>3. ASSUME NEW w \in Workers, WebhookStore(w)
      PROVE  Announcing'
  <2> DEFINE p == OrderOf[webhook[w].txn]
  <2>1. UNCHANGED announced /\ \A q : BusyWith(q)' = BusyWith(q)
    BY <1>3, BusyStores DEF WebhookStore, eventVars
  <2>2. p \in Payments
    BY <1>3, PaymentsAssumption DEF WebhookStore, Opening
  <2>3. payment'[p].status \notin Open /\ \A q \in Payments \ {p} : payment'[q] = payment[q]
    BY <1>3, <2>2 DEF WebhookStore, TypeOK, Open
  <2>4. \A q \in Payments \ {p} : w \notin BusyWith(q)
    BY DEF BusyWith
  <2>5. \A v \in Workers \ {w} : webhook'[v] = webhook[v]
    BY <1>3 DEF WebhookStore, TypeOK
  <2>6. \A q \in Payments \ {p} : \A v \in BusyWith(q) : webhook'[v] = webhook[v]
    BY <2>4, <2>5 DEF BusyWith
  <2>7. QED
    BY <1>0, <2>1, <2>3, <2>6 DEF Announcing
<1>4. ASSUME NEW w \in Workers, WebhookRecord(w)
      PROVE  Announcing'
  <2>2. PICK p \in Payments : p = OrderOf[webhook[w].txn]
    BY <1>4, PaymentsAssumption DEF WebhookRecord, Opening
  <2>1. UNCHANGED payment /\ w \in BusyWith(p) /\ webhook[w].pc = "stored"
    BY <1>4, <2>2 DEF WebhookRecord, BusyWith
  <2>3. p \notin byHand => payment[p].status \notin Open
    BY <2>1 DEF Announcing
  <2>4. webhook'[w].pc = "idle" /\ \A v \in Workers \ {w} : webhook'[v] = webhook[v]
    BY <1>4 DEF WebhookRecord, IdleWorker, TypeOK
  <2>5. BusyWith(p)' = BusyWith(p) \ {w} /\ \A q \in Payments \ {p} : BusyWith(q)' = BusyWith(q)
    BY <2>2, <2>4 DEF BusyWith
  <2>6. Cardinality(BusyWith(p)') = Cardinality(BusyWith(p)) - 1
    BY <2>1, <2>5, BusyFinite, FS_RemoveElement
  <2>7. /\ \A q \in Payments \ {p} : announced'[q] = announced[q]
        /\ announced'[p] \in {announced[p], announced[p] + 1}
    BY <1>4, <2>2 DEF WebhookRecord, TypeOK
  <2>8. p \notin byHand => announced'[p] + Cardinality(BusyWith(p)') <= Cardinality(Workers)
    <3>1. p \notin byHand =>
            announced[p] + Cardinality(BusyWith(p)) <= Cardinality(Workers) /\ announced[p] \in Nat
      BY DEF Announcing, TypeOK
    <3>2. QED
      BY <2>6, <2>7, <3>1, BusyFinite
  <2>9. \A q \in Payments \ {p} : \A v \in BusyWith(q) : webhook'[v] = webhook[v]
    BY <2>2, <2>4 DEF BusyWith
  <2>10. ASSUME NEW q \in Payments \ {p}, q \notin byHand
         PROVE  /\ payment'[q].status \in Open =>
                      announced'[q] = 0 /\ \A v \in BusyWith(q)' : webhook'[v].pc = "checked"
                /\ announced'[q] + Cardinality(BusyWith(q)') <= Cardinality(Workers)
    <3>1. BusyWith(q)' = BusyWith(q) /\ announced'[q] = announced[q] /\ payment' = payment
      BY <2>1, <2>5, <2>7
    <3>2. QED
      BY <2>9, <2>10, <3>1 DEF Announcing
  <2>11. QED
    BY <1>0, <2>1, <2>3, <2>8, <2>10 DEF Announcing
<1>5. ASSUME NEW r \in Refunds, NEW p \in Payments, NEW amount \in 1..Price, ReserveRefund(r, p, amount)
      PROVE  Announcing'
  <2>1. UNCHANGED <<webhook, announced>>
    BY <1>5 DEF ReserveRefund, eventVars
  <2>2. \A q \in Payments : payment'[q].status \in Open => payment[q].status \in Open
    BY <1>5 DEF ReserveRefund, WithStatus, TypeOK, Open
  <2>3. QED
    BY <1>0, <2>1, <2>2, AnnouncingKept
<1>6. ASSUME NEW r \in Refunds, ReleaseRefundCapacity(r)
      PROVE  Announcing'
  <2>1. UNCHANGED <<webhook, announced>>
    BY <1>6 DEF ReleaseRefundCapacity, eventVars
  <2>2. \A q \in Payments : payment'[q].status \in Open => payment[q].status \in Open
    BY <1>6 DEF ReleaseRefundCapacity, RepairedStatus, WithStatus, TypeOK, Open
  <2>3. QED
    BY <1>0, <2>1, <2>2, AnnouncingKept
<1>7. ASSUME Abort \/ \E w \in Workers : WebhookRecordRefused(w)
      PROVE  Announcing'
  <2>1. UNCHANGED <<payment, announced>>
    BY <1>7 DEF Abort, WebhookRecordRefused, eventVars
  <2>2. \A v \in Workers : webhook'[v] = webhook[v] \/ webhook'[v].pc = "idle"
    BY <1>7 DEF Abort, WebhookRecordRefused, IdleWorker, TypeOK
  <2>3. QED
    BY <1>0, <2>1, <2>2, AnnouncingKept
<1>8. CASE UNCHANGED <<payment, checkout, webhook, announced>>
  BY <1>0, <1>8, AnnouncingKept
<1>9. ASSUME NEW o \in Operators, UpdateStatus(o)
      PROVE  Announcing'
  <2>1. UNCHANGED <<webhook, announced>>
    BY <1>9 DEF UpdateStatus, UpdateStatusCheck, UpdateStatusStore, UpdateStatusAnnounce, eventVars
  <2>2. \A p \in Payments \ byHand' : payment'[p] = payment[p]
    BY <1>9 DEF UpdateStatus, UpdateStatusCheck, UpdateStatusStore, UpdateStatusAnnounce, TypeOK
  <2>3. QED
    BY <1>0, <2>1, <2>2, AnnouncingKept
<1>10. QED
  BY <1>1, <1>2, <1>3, <1>4, <1>5, <1>6, <1>7, <1>8, <1>9, PaymentSteps

(***************************************************************************)
(* A payment whose status no operator writes is announced at most once for *)
(* each delivery that can be in progress at a time, however often Paymob   *)
(* repeats its reports and whatever is refunded, for any number of workers *)
(* and of operators at work on other payments.                             *)
(***************************************************************************)
THEOREM AnnouncementsBounded == Spec => []AnnouncedOncePerOverlap
<1>1. Init => Opening /\ Announcing
  <2> SUFFICES ASSUME Init PROVE Opening /\ Announcing
    OBVIOUS
  <2>1. \A p : BusyWith(p) = {}
    BY DEF Init, IdleWorker, BusyWith
  <2>2. Opening
    BY <2>1 DEF Init, IdleWorker, Opening
  <2>3. Cardinality(Workers) \in Nat
    BY PaymentsAssumption, FS_CardinalityType
  <2>4. \A p : Cardinality(BusyWith(p)) = 0
    BY <2>1, FS_EmptySet
  <2>5. Announcing
    BY <2>1, <2>3, <2>4 DEF Init, Announcing
  <2>6. QED
    BY <2>2, <2>5
<1>2. TypeOK /\ Announcing => AnnouncedOncePerOverlap
  <2> SUFFICES ASSUME TypeOK, Announcing, NEW p \in Payments \ byHand
               PROVE  announced[p] <= Cardinality(Workers)
    BY DEF AnnouncedOncePerOverlap
  <2>1. announced[p] + Cardinality(BusyWith(p)) <= Cardinality(Workers) /\ announced[p] \in Nat
    BY DEF Announcing, TypeOK
  <2>2. QED
    BY <2>1, BusyFinite
<1>3. QED
  BY <1>1, <1>2, OpeningStep, AnnouncingStep, PaymentsTypeCorrect, PTL DEF Spec

(***************************************************************************)
(* What a webhook completed is only completed or refunded from then on,    *)
(* but for what read it before: the checkout, whose updates look at        *)
(* nothing, has ended before the order can be paid (Opening), and refunds  *)
(* derive one of the two statuses from the other.                          *)
(***************************************************************************)
THEOREM SalesStaySold == Spec => SoldStaysSold
<1>1. Init => Opening
  BY DEF Init, IdleWorker, Opening, BusyWith
<1>2. TypeOK /\ Opening /\ [Next]_vars =>
        \A p \in Payments : Sold(p) => Sold(p)' \/ WrittenLate(p)
  <2> SUFFICES ASSUME TypeOK, Opening, [Next]_vars, NEW p \in Payments, Sold(p), ~ WrittenLate(p)
               PROVE  Sold(p)'
    OBVIOUS
  <2>1. ASSUME payment'[p] = payment[p] PROVE Sold(p)'
    BY <2>1 DEF Sold
  <2>2. payment[p].status # "none" /\ checkout[p] # "calling"
    BY DEF Sold, Opening
  <2>3. ASSUME NEW q \in Payments, Checkout(q) PROVE Sold(p)'
    BY <2>1, <2>2, <2>3 DEF Checkout, CreatePayment, CheckoutRegistered, CheckoutFailed, TypeOK
  <2>4. ASSUME NEW w \in Workers, NEW t \in Txns, NEW report \in AllReports, WebhookCheck(w, t, report)
        PROVE  Sold(p)'
    BY <2>1, <2>4 DEF WebhookCheck
  <2>5. ASSUME NEW w \in Workers, WebhookStore(w) PROVE Sold(p)'
    BY <2>1, <2>5 DEF WebhookStore, WrittenLate, TypeOK
  <2>6. ASSUME NEW w \in Workers, WebhookRecord(w) \/ WebhookRecordRefused(w) PROVE Sold(p)'
    BY <2>1, <2>6 DEF WebhookRecord, WebhookRecordRefused
  <2>7. ASSUME NEW o \in Operators, UpdateStatus(o) PROVE Sold(p)'
    BY <2>1, <2>7 DEF UpdateStatus, UpdateStatusCheck, UpdateStatusStore, UpdateStatusAnnounce,
                      WrittenLate, TypeOK
  <2>8. ASSUME NEW r \in Refunds, NEW q \in Payments, NEW amount \in 1..Price, ReserveRefund(r, q, amount)
        PROVE  Sold(p)'
    BY <2>8 DEF ReserveRefund, WithStatus, Sold, TypeOK
  <2>9. ASSUME NEW r \in Refunds, ReleaseRefundCapacity(r) PROVE Sold(p)'
    BY <2>9 DEF ReleaseRefundCapacity, RepairedStatus, WithStatus, Sold, TypeOK
  <2>10. CASE Abort
    BY <2>1, <2>10 DEF Abort
  <2>11. QED
    BY <2>1, <2>3, <2>4, <2>5, <2>6, <2>7, <2>8, <2>9, <2>10, PaymentSteps
<1>3. QED
  BY <1>1, <1>2, OpeningStep, PaymentsTypeCorrect, PTL DEF Spec, SoldStaysSold

-----------------------------------------------------------------------------
(***************************************************************************)
(* The capacity that live refunds reserve, as far as the invariants need   *)
(* it: a refund that is not live counts for nothing.                       *)
(***************************************************************************)
Bounded == \A p \in Payments : ReservedTotal(p) \in 0..Price

LEMMA ReservedBounded == TypeOK /\ NeverOverRefunded => Bounded
<1> SUFFICES ASSUME TypeOK, NeverOverRefunded, NEW p \in Payments
             PROVE  ReservedTotal(p) \in 0..Price
  BY DEF Bounded
<1>1. Ledger!Held(p) <= Price
  BY DEF NeverOverRefunded, Ledger!NeverOverRefunded
<1>2. ReservedTotal(p) <= Price
  BY <1>1, SameCents
<1>3. ReservedCents(p) \in SUBSET (Refunds \X (1..Price)) /\ IsFiniteSet(Refunds) /\ Price \in Nat
  BY PaymentsAssumption DEF ReservedCents
<1>4. Cardinality(ReservedCents(p)) \in Nat
  BY <1>3, CentsFinite
<1>5. QED
  BY <1>2, <1>3, <1>4 DEF ReservedTotal

LEMMA SameReserved ==
    ASSUME NEW p,
           \A r \in Refunds : Live(r, p)' <=> Live(r, p),
           \A r \in Refunds : Live(r, p) => refund'[r].amount = refund[r].amount
    PROVE  ReservedTotal(p)' = ReservedTotal(p)
<1>1. ReservedCents(p)' = ReservedCents(p)
  BY DEF ReservedCents, Live
<1>2. QED
  BY <1>1 DEF ReservedTotal

(***************************************************************************)
(* A covered payment has a live refund.                                    *)
(***************************************************************************)
LEMMA CoveredByRefunds ==
    ASSUME NEW p, ReservedTotal(p) = Price
    PROVE  \E r \in Refunds : Live(r, p)
<1>1. ReservedCents(p) # {}
  BY FS_EmptySet, PaymentsAssumption DEF ReservedTotal
<1>2. PICK rc \in Refunds \X (1..Price) : rc \in ReservedCents(p)
  BY <1>1 DEF ReservedCents
<1>3. rc[1] \in Refunds /\ Live(rc[1], p)
  BY <1>2 DEF ReservedCents, Live
<1>4. QED
  BY <1>3

(***************************************************************************)
(* A refund that is reserved adds its amount; one that is failed takes     *)
(* some away.                                                              *)
(***************************************************************************)
LEMMA ReserveAdds ==
    ASSUME TypeOK, NEW r \in Refunds, NEW p \in Payments, NEW amount \in 1..Price,
           ReserveRefund(r, p, amount)
    PROVE  ReservedTotal(p)' = ReservedTotal(p) + amount
<1>1. /\ refund[r].status = "none"
      /\ refund'[r] = [payment |-> p, amount |-> amount, status |-> "pending"]
      /\ \A x \in Refunds \ {r} : refund'[x] = refund[x]
  BY DEF ReserveRefund, TypeOK
<1>2. amount \in Nat /\ Price \in Nat /\ 1..amount = {c \in 1..Price : c <= amount}
  BY PaymentsAssumption
<1>3. ASSUME NEW x \in Refunds, NEW c \in 1..Price
      PROVE  <<x, c>> \in ReservedCents(p)' <=> <<x, c>> \in ReservedCents(p) \cup CentsOf(r, amount)
  <2>1. CASE x = r
    BY <1>1, <1>2, <2>1 DEF ReservedCents, CentsOf, REFUND_CAPACITY_STATUSES
  <2>2. CASE x # r
    BY <1>1, <2>2 DEF ReservedCents, CentsOf
  <2>3. QED
    BY <2>1, <2>2
<1>4. /\ ReservedCents(p)' \subseteq Refunds \X (1..Price)
      /\ ReservedCents(p) \cup CentsOf(r, amount) \subseteq Refunds \X (1..Price)
  BY <1>2 DEF ReservedCents, CentsOf
<1>5. ReservedCents(p)' = ReservedCents(p) \cup CentsOf(r, amount)
  BY <1>3, <1>4
<1>6. \A s \in ReservedCents(p) : s[1] # r
  BY <1>1 DEF ReservedCents, REFUND_CAPACITY_STATUSES
<1>7. ReservedCents(p) \in SUBSET (Refunds \X (1..Price)) /\ IsFiniteSet(Refunds)
  BY PaymentsAssumption DEF ReservedCents
<1>8. Cardinality(ReservedCents(p) \cup CentsOf(r, amount)) = Cardinality(ReservedCents(p)) + amount
  BY <1>2, <1>6, <1>7, CentsAdd
<1>9. QED
  BY <1>5, <1>8 DEF ReservedTotal

LEMMA FailingTakes ==
    ASSUME TypeOK, Bounded, NEW r \in Refunds, NEW p \in Payments, Live(r, p),
           refund[r].amount \in 1..Price, MarkRefundFailed(r)
    PROVE  ReservedTotal(p)' < ReservedTotal(p)
<1>1. /\ refund'[r].status = "failed"
      /\ \A x \in Refunds \ {r} : refund'[x] = refund[x]
  BY DEF MarkRefundFailed, WithRefundStatus, TypeOK
<1>2. ReservedCents(p)' \subseteq ReservedCents(p)
  BY <1>1 DEF ReservedCents, REFUND_CAPACITY_STATUSES
<1>3. <<r, 1>> \in ReservedCents(p) /\ <<r, 1>> \notin ReservedCents(p)'
  BY <1>1, PaymentsAssumption DEF ReservedCents, Live, REFUND_CAPACITY_STATUSES
<1>4. ReservedCents(p) \in SUBSET (Refunds \X (1..Price)) /\ IsFiniteSet(Refunds) /\ Price \in Nat
  BY PaymentsAssumption DEF ReservedCents
<1>5. IsFiniteSet(ReservedCents(p))
  BY <1>4, CentsFinite
<1>6. Cardinality(ReservedCents(p)') < Cardinality(ReservedCents(p))
  <2>1. /\ Cardinality(ReservedCents(p)') \in Nat /\ Cardinality(ReservedCents(p)) \in Nat
        /\ Cardinality(ReservedCents(p)') <= Cardinality(ReservedCents(p))
    BY <1>2, <1>4, CentsFinite
  <2>2. ReservedCents(p)' # ReservedCents(p)
    BY <1>3
  <2>3. Cardinality(ReservedCents(p)) = Cardinality(ReservedCents(p)') => ReservedCents(p)' = ReservedCents(p)
    BY <1>2, <1>5, FS_Subset
  <2>4. QED
    BY <2>1, <2>2, <2>3
<1>7. QED
  BY <1>6 DEF ReservedTotal

(***************************************************************************)
(* RefundRows is inductive.                                                *)
(***************************************************************************)
LEMMA RefundRowsStep == TypeOK /\ RefundFlow /\ RefundRows /\ [Next]_vars => RefundRows'
<1> SUFFICES ASSUME TypeOK, RefundFlow, RefundRows, [Next]_vars
             PROVE  RefundRows'
  OBVIOUS
<1>1. ASSUME NEW r \in Refunds, NEW p \in Payments, NEW amount \in 1..Price, ReserveRefund(r, p, amount)
      PROVE  RefundRows'
  BY <1>1 DEF TypeOK, RefundRows, ReserveRefund
<1>2. ASSUME NEW r \in Refunds, RefundSettled(r) \/ MarkRefundFailed(r)
      PROVE  RefundRows'
  BY <1>2 DEF TypeOK, RefundRows, RefundSettled, MarkRefundFailed, WithRefundStatus
<1>3. ASSUME NEW r \in Refunds,
             AnnounceRefund(r) \/ RefundStillPending(r) \/ RefundRejected(r) \/ ReleaseRefundCapacity(r)
      PROVE  RefundRows'
  BY <1>3 DEF TypeOK, RefundRows, AnnounceRefund, RefundStillPending, RefundRejected, ReleaseRefundCapacity
<1>4. ASSUME NEW r \in Refunds, PaymobReturnsMoney(r)
      PROVE  RefundRows'
  BY <1>4 DEF RefundRows, PaymobReturnsMoney
<1>5. CASE Abort
  <2>1. UNCHANGED refund
    BY <1>5 DEF Abort
  <2>2. \A r \in Refunds : \/ refunding'[r] = refunding[r]
                           \/ refunding[r] # "idle" /\ refunding'[r] \in {"waiting", "done"}
    BY <1>5 DEF Abort, TypeOK
  <2>3. QED
    BY <2>1, <2>2 DEF RefundRows
<1>6. CASE ~ Abort /\ \A r \in Refunds : ~ Refund(r) /\ ~ PaymobReturnsMoney(r)
  BY <1>6, OtherSteps DEF RefundRows
<1>7. QED
  BY <1>1, <1>2, <1>3, <1>4, <1>5, <1>6 DEF Refund

(***************************************************************************)
(* Only an abort is counted as one.                                        *)
(***************************************************************************)
LEMMA AbortsCounted ==
    ASSUME TypeOK, [Next]_vars, Alone'
    PROVE  Alone /\ ~ Abort
<1>1. aborts' = aborts \/ Abort
  <2>1. CASE UNCHANGED vars
    BY <2>1 DEF vars
  <2>2. ASSUME NEW p \in Payments, Checkout(p) PROVE UNCHANGED aborts
    BY <2>2 DEF Checkout, CreatePayment, CheckoutRegistered, CheckoutFailed
  <2>3. ASSUME NEW w \in Workers, Webhook(w) PROVE UNCHANGED aborts
    BY <2>3 DEF Webhook, WebhookCheck, WebhookStore, WebhookRecord, WebhookRecordRefused
  <2>4. ASSUME NEW o \in Operators, UpdateStatus(o) PROVE UNCHANGED aborts
    BY <2>4 DEF UpdateStatus, UpdateStatusCheck, UpdateStatusStore, UpdateStatusAnnounce
  <2>5. ASSUME NEW r \in Refunds, Refund(r) PROVE UNCHANGED aborts
    BY <2>5 DEF Refund, ReserveRefund, RefundSettled, AnnounceRefund, RefundStillPending,
                RefundRejected, MarkRefundFailed, ReleaseRefundCapacity
  <2>6. ASSUME Paymob PROVE UNCHANGED aborts
    BY <2>6 DEF Paymob, Pay, SettlePending, PaymobReturnsMoney
  <2>7. QED
    BY <2>1, <2>2, <2>3, <2>4, <2>5, <2>6 DEF Next
<1>2. aborts' = 0 /\ aborts \in Nat
  BY PaymentsAssumption DEF Alone, TypeOK
<1>3. ~ Abort
  BY <1>2 DEF Abort
<1>4. QED
  BY <1>1, <1>3 DEF Alone

(***************************************************************************)
(* A step that leaves the refunds alone keeps CoverOf if it keeps what it  *)
(* says of deliveries, does not take a transaction away, and writes the    *)
(* status only where no transaction was stored yet.                        *)
(***************************************************************************)
LEMMA CoverKept ==
    ASSUME NEW p \in Payments, CoverOf(p),
           UNCHANGED <<refund, refunding>>,
           payment'[p].txn # None =>
              /\ payment'[p].status \in {"completed", "failed", "refunded"}
              /\ \A w \in BusyWith(p)' : webhook'[w].pc = "stored",
           payment'[p].txn = None => payment[p].txn = None,
           \/ payment'[p].status = payment[p].status
           \/ payment'[p].status # "refunded" /\ payment[p].txn = None
    PROVE  CoverOf(p)'
<1>1. ReservedTotal(p)' = ReservedTotal(p) /\ \A r \in Refunds : Live(r, p)' <=> Live(r, p)
  BY DEF ReservedTotal, ReservedCents, Live
<1>2. \A r \in Refunds : Live(r, p) => refund[r].payment = p
  BY DEF Live
<1>3. ReservedTotal(p) = Price => payment'[p].status = "refunded"
                                    \/ \E r \in Refunds : refund[r].payment = p /\ refunding[r] = "undo"
  BY <1>2, CoveredByRefunds DEF CoverOf
<1>4. QED
  BY <1>1, <1>3 DEF CoverOf

(***************************************************************************)
(* The steps of checkout and of deliveries.                                *)
(***************************************************************************)
LEMMA CoverOpen ==
    ASSUME TypeOK, Opening, Alone, NEW q \in Payments, CoverOf(q),
           UNCHANGED <<refund, refunding>>,
           \/ \E p \in Payments : Checkout(p)
           \/ \E w \in Workers, t \in Txns, report \in AllReports : WebhookCheck(w, t, report)
           \/ \E w \in Workers : WebhookStore(w) \/ WebhookRecord(w) \/ WebhookRecordRefused(w)
           \/ UNCHANGED <<payment, checkout, webhook, announced>>
    PROVE  CoverOf(q)'
<1>1. ASSUME NEW p \in Payments, Checkout(p)
      PROVE  CoverOf(q)'
  <2>1. UNCHANGED webhook /\ \A x : BusyWith(x)' = BusyWith(x)
    BY <1>1, BusyUnchanged DEF Checkout, CreatePayment, CheckoutRegistered, CheckoutFailed
  <2>2. q # p => payment'[q] = payment[q]
    BY <1>1 DEF Checkout, CreatePayment, CheckoutRegistered, CheckoutFailed, TypeOK
  <2>3. /\ payment[p].txn = None
        /\ payment'[p].txn = payment[p].txn
        /\ payment'[p].status # "refunded"
    BY <1>1 DEF Checkout, CreatePayment, CheckoutRegistered, CheckoutFailed, WithStatus, TypeOK, Opening
  <2>4. QED
    BY <2>1, <2>2, <2>3, CoverKept DEF CoverOf
<1>2. ASSUME NEW w \in Workers, NEW t \in Txns, NEW report \in AllReports, WebhookCheck(w, t, report)
      PROVE  CoverOf(q)'
  <2>1. UNCHANGED payment /\ \A v \in Workers \ {w} : webhook'[v] = webhook[v]
    BY <1>2 DEF WebhookCheck, TypeOK
  <2>2. CASE q = OrderOf[t]
    <3>1. resolveWebhookStatus(report) \in PAYMENT_TRANSITIONS[payment[q].status]
      BY <1>2, <2>2 DEF WebhookCheck
    <3>2. payment[q].status \notin {"completed", "failed", "refunded"}
      BY <3>1 DEF PAYMENT_TRANSITIONS, resolveWebhookStatus
    <3>3. payment[q].txn = None
      BY <3>2 DEF CoverOf
    <3>4. QED
      BY <2>1, <3>3, CoverKept
  <2>3. CASE q # OrderOf[t]
    <3>1. BusyWith(q)' = BusyWith(q) /\ w \notin BusyWith(q)
      BY <1>2, <2>3, BusyChecks
    <3>2. \A v \in BusyWith(q)' : webhook'[v] = webhook[v]
      BY <2>1, <3>1 DEF BusyWith
    <3>3. QED
      BY <2>1, <3>1, <3>2, CoverKept DEF CoverOf
  <2>4. QED
    BY <2>2, <2>3
<1>3. ASSUME NEW w \in Workers, WebhookStore(w)
      PROVE  CoverOf(q)'
  <2>1. PICK x : Workers = {x}
    BY PaymentsAssumption, FS_Singleton DEF Alone
  <2>2. PICK p \in Payments : p = OrderOf[webhook[w].txn]
    BY <1>3, PaymentsAssumption DEF WebhookStore, Opening
  <2>3. /\ webhook[w].pc = "checked" /\ webhook[w].txn \in Txns
        /\ webhook'[w].pc = "stored" /\ webhook'[w].txn = webhook[w].txn
        /\ \A y \in Payments \ {p} : payment'[y] = payment[y]
        /\ payment'[p].status = webhook[w].outcome /\ payment'[p].txn = webhook[w].txn
    BY <1>3, <2>2 DEF WebhookStore, TypeOK, Opening
  <2>4. \A v \in Workers : webhook'[v].pc = "stored"
    BY <2>1, <2>3
  <2>5. BusyWith(q)' \subseteq Workers
    BY DEF BusyWith
  <2>6. CASE q = p
    <3>1. payment[q].txn = None
      BY <2>2, <2>3, <2>6 DEF CoverOf, BusyWith
    <3>2. payment'[q].status \in {"completed", "failed"} /\ payment'[q].txn # None
      BY <2>3, <2>6, PaymentsAssumption DEF TypeOK
    <3>3. QED
      BY <2>4, <2>5, <3>1, <3>2, CoverKept
  <2>7. CASE q # p
    BY <2>3, <2>4, <2>5, <2>7, CoverKept DEF CoverOf
  <2>8. QED
    BY <2>6, <2>7
<1>4. ASSUME NEW w \in Workers, WebhookRecord(w) \/ WebhookRecordRefused(w)
      PROVE  CoverOf(q)'
  <2>1. UNCHANGED payment /\ \A v \in Workers : webhook'[v] = webhook[v] \/ webhook'[v].pc = "idle"
    BY <1>4 DEF WebhookRecord, WebhookRecordRefused, IdleWorker, TypeOK
  <2>2. BusyWith(q)' \subseteq BusyWith(q) /\ \A v \in BusyWith(q)' : webhook'[v] = webhook[v]
    BY <2>1 DEF BusyWith
  <2>3. QED
    BY <2>1, <2>2, CoverKept DEF CoverOf
<1>5. CASE UNCHANGED <<payment, checkout, webhook, announced>>
  BY <1>5, BusyUnchanged, CoverKept DEF CoverOf
<1>6. QED
  BY <1>1, <1>2, <1>3, <1>4, <1>5

(***************************************************************************)
(* A refund is asked for.                                                  *)
(***************************************************************************)
LEMMA CoverReserves ==
    ASSUME TypeOK, RefundRows, Bounded, Bounded', NEW q \in Payments, CoverOf(q),
           NEW r \in Refunds, NEW p \in Payments, NEW amount \in 1..Price, ReserveRefund(r, p, amount)
    PROVE  CoverOf(q)'
<1>1. /\ refund[r].status = "none" /\ refunding[r] = "idle"
      /\ refund'[r] = [payment |-> p, amount |-> amount, status |-> "pending"]
      /\ \A x \in Refunds \ {r} : refund'[x] = refund[x] /\ refunding'[x] = refunding[x]
      /\ refunding'[r] \in {"calling", "undo"}
      /\ payment[p].txn = None => refunding'[r] = "undo"
  BY DEF ReserveRefund, TypeOK, RefundRows
<1>2. \A y \in Payments : BusyWith(y)' = BusyWith(y)
  BY BusyUnchanged DEF ReserveRefund
<1>3. CASE q # p
  <2>1. payment'[q] = payment[q] /\ UNCHANGED webhook
    BY <1>3 DEF ReserveRefund, TypeOK
  <2>2. \A x \in Refunds : Live(x, q)' <=> Live(x, q)
    BY <1>1, <1>3 DEF Live, REFUND_CAPACITY_STATUSES
  <2>3. \A x \in Refunds : Live(x, q) => x # r
    BY <1>1 DEF Live, REFUND_CAPACITY_STATUSES
  <2>4. ReservedTotal(q)' = ReservedTotal(q)
    BY <1>1, <2>2, <2>3, SameReserved
  <2>5. \A x \in Refunds : refunding[x] \in {"undo", "release"} => x # r
    BY <1>1
  <2>6. QED
    BY <1>1, <1>2, <2>1, <2>2, <2>3, <2>4, <2>5 DEF CoverOf
<1>4. CASE q = p
  <2>1. /\ ReservedTotal(p)' = ReservedTotal(p) + amount
        /\ ReservedTotal(p) \in Nat /\ amount \in 1..Price /\ Price \in Nat
    BY ReserveAdds, PaymentsAssumption DEF Bounded
  <2>2. /\ UNCHANGED webhook
        /\ payment'[p].txn = payment[p].txn
        /\ payment'[p].status = payment[p].status \/ payment'[p].status = "refunded"
        /\ ReservedTotal(p)' = Price => payment'[p].status = "refunded"
        /\ ReservedTotal(p)' # Price => payment'[p].status = payment[p].status
    BY <2>1 DEF ReserveRefund, WithStatus, TypeOK
  <2>3. payment[p].txn = None => \A x \in Refunds : Live(x, p)' => refunding'[x] = "undo"
    <3>1. \A x \in Refunds \ {r} : Live(x, p)' <=> Live(x, p)
      BY <1>1 DEF Live
    <3>2. QED
      BY <1>1, <1>4, <3>1 DEF CoverOf
  <2>4. ReservedTotal(p)' # Price /\ payment[p].status = "refunded" =>
          \E x \in Refunds : refund'[x].payment = p /\ refunding'[x] = "release"
    <3>1. ReservedTotal(p)' \in 0..Price
      BY DEF Bounded
    <3>2. ReservedTotal(p) # Price
      BY <2>1, <3>1
    <3>3. QED
      BY <1>1, <1>4, <3>2 DEF CoverOf
  <2>5. QED
    BY <1>2, <1>4, <2>2, <2>3, <2>4 DEF CoverOf
<1>5. QED
  BY <1>3, <1>4

(***************************************************************************)
(* Paymob answers a refund, or its answer is announced.                    *)
(***************************************************************************)
LEMMA CoverAnswers ==
    ASSUME TypeOK, RefundFlow, NEW q \in Payments, CoverOf(q), NEW r \in Refunds,
           \/ RefundSettled(r) \/ AnnounceRefund(r)
           \/ RefundStillPending(r) \/ RefundRejected(r)
    PROVE  CoverOf(q)'
<1>1. /\ UNCHANGED <<payment, webhook>>
      /\ refunding[r] \in {"calling", "settled"}
      /\ refunding'[r] \in {"settled", "done", "waiting", "undo"}
      /\ \A x \in Refunds \ {r} : refund'[x] = refund[x] /\ refunding'[x] = refunding[x]
  BY DEF RefundSettled, AnnounceRefund, RefundStillPending, RefundRejected, TypeOK
<1>2. /\ refund'[r].payment = refund[r].payment
      /\ refund'[r].amount = refund[r].amount
      /\ refund'[r].status \in REFUND_CAPACITY_STATUSES
      /\ refund[r].status \in REFUND_CAPACITY_STATUSES
  BY DEF RefundSettled, AnnounceRefund, RefundStillPending, RefundRejected, WithRefundStatus, TypeOK,
         RefundFlow, REFUND_CAPACITY_STATUSES
<1>3. \A x \in Refunds : /\ Live(x, q)' <=> Live(x, q)
                         /\ refund'[x].payment = refund[x].payment
                         /\ refund'[x].amount = refund[x].amount
  BY <1>1, <1>2 DEF Live
<1>4. ReservedTotal(q)' = ReservedTotal(q)
  BY <1>3, SameReserved
<1>5. BusyWith(q)' = BusyWith(q)
  BY <1>1, BusyUnchanged
<1>6. payment[q].txn = None => ~ Live(r, q)
  BY <1>1 DEF CoverOf
<1>7. payment[q].txn = None => \A x \in Refunds : Live(x, q)' => refunding'[x] = "undo"
  BY <1>1, <1>3, <1>6 DEF CoverOf
<1>8. \A x \in Refunds : refunding[x] \in {"undo", "release"} => refunding'[x] = refunding[x]
  BY <1>1
<1>9. QED
  BY <1>1, <1>3, <1>4, <1>5, <1>7, <1>8 DEF CoverOf

(***************************************************************************)
(* A refund that was refused is marked failed.                             *)
(***************************************************************************)
LEMMA CoverFails ==
    ASSUME TypeOK, RefundFlow, RefundRows, Bounded, Bounded', NEW q \in Payments, CoverOf(q),
           NEW r \in Refunds, MarkRefundFailed(r)
    PROVE  CoverOf(q)'
<1>1. /\ UNCHANGED <<payment, webhook>>
      /\ refunding[r] = "undo" /\ refund[r].status = "pending"
      /\ refund[r].amount \in 1..Price
      /\ refunding'[r] = "release" /\ refund'[r].status = "failed"
      /\ refund'[r].payment = refund[r].payment
      /\ \A x \in Refunds \ {r} : refund'[x] = refund[x] /\ refunding'[x] = refunding[x]
  BY DEF MarkRefundFailed, WithRefundStatus, TypeOK, RefundFlow, RefundRows
<1>2. BusyWith(q)' = BusyWith(q)
  BY <1>1, BusyUnchanged
<1>3. \A x \in Refunds : Live(x, q)' => Live(x, q) /\ refunding'[x] = refunding[x]
  BY <1>1 DEF Live, REFUND_CAPACITY_STATUSES
<1>4. CASE refund[r].payment = q
  <2>1. ReservedTotal(q)' < ReservedTotal(q)
    <3>1. Live(r, q)
      BY <1>1, <1>4 DEF Live, REFUND_CAPACITY_STATUSES
    <3>2. QED
      BY <1>1, <3>1, FailingTakes
  <2>2. ReservedTotal(q)' # Price
    BY <2>1, PaymentsAssumption DEF Bounded
  <2>3. QED
    BY <1>1, <1>2, <1>3, <1>4, <2>2 DEF CoverOf
<1>5. CASE refund[r].payment # q
  <2>1. \A x \in Refunds : /\ Live(x, q)' <=> Live(x, q)
                           /\ Live(x, q) => x # r
    BY <1>1, <1>5 DEF Live
  <2>2. ReservedTotal(q)' = ReservedTotal(q)
    BY <1>1, <2>1, SameReserved
  <2>3. \A x \in Refunds : refund[x].payment = q => x # r
    BY <1>5
  <2>4. QED
    BY <1>1, <1>2, <1>3, <2>2, <2>3 DEF CoverOf
<1>6. QED
  BY <1>4, <1>5

(***************************************************************************)
(* A failed refund gives its capacity back: the status is derived anew.    *)
(***************************************************************************)
LEMMA CoverReleases ==
    ASSUME TypeOK, RefundRows, Bounded, NEW q \in Payments, CoverOf(q),
           NEW r \in Refunds, ReleaseRefundCapacity(r)
    PROVE  CoverOf(q)'
<1>1. /\ UNCHANGED <<refund, webhook>>
      /\ refunding[r] = "release" /\ refund[r].status = "failed"
      /\ refunding'[r] = "done"
      /\ refund[r].payment \in Payments
      /\ \A x \in Refunds \ {r} : refunding'[x] = refunding[x]
  BY DEF ReleaseRefundCapacity, TypeOK, RefundRows
<1>2. /\ payment'[q].txn = payment[q].txn
      /\ q # refund[r].payment => payment'[q] = payment[q]
      /\ q = refund[r].payment => payment'[q].status = RepairedStatus(q)
  BY <1>1 DEF ReleaseRefundCapacity, WithStatus, TypeOK
<1>3. BusyWith(q)' = BusyWith(q)
  BY <1>1, BusyUnchanged
<1>4. /\ \A x \in Refunds : Live(x, q)' <=> Live(x, q)
      /\ ReservedTotal(q)' = ReservedTotal(q)
  BY <1>1 DEF Live, ReservedTotal, ReservedCents
<1>5. \A x \in Refunds : Live(x, q) => x # r
  BY <1>1 DEF Live, REFUND_CAPACITY_STATUSES
<1>6. \A x \in Refunds : refunding[x] = "undo" => refunding'[x] = "undo"
  BY <1>1
<1>7. CASE q = refund[r].payment
  <2>1. ReservedTotal(q) \in 0..Price /\ Price \in Nat
    BY PaymentsAssumption DEF Bounded
  <2>2. /\ payment'[q].status = "refunded" => ReservedTotal(q) = Price
        /\ ReservedTotal(q) = Price /\ payment[q].status = "refunded" => payment'[q].status = "refunded"
        /\ payment[q].status \in {"completed", "failed", "refunded"} =>
              payment'[q].status \in {"completed", "failed", "refunded"}
    BY <1>2, <1>7, <2>1 DEF RepairedStatus
  <2>3. QED
    BY <1>1, <1>2, <1>3, <1>4, <1>5, <1>6, <2>2 DEF CoverOf
<1>8. CASE q # refund[r].payment
  <2>1. \A x \in Refunds : refund[x].payment = q => x # r
    BY <1>8
  <2>2. QED
    BY <1>1, <1>2, <1>3, <1>4, <1>5, <1>6, <1>8, <2>1 DEF CoverOf
<1>9. QED
  BY <1>7, <1>8

(***************************************************************************)
(* Covering is inductive, given what holds of the money throughout.        *)
(***************************************************************************)
LEMMA CoveringStep ==
    TypeOK /\ RefundFlow /\ Opening /\ Covering /\ Bounded /\ Bounded' /\ [Next]_vars => Covering'
<1> SUFFICES ASSUME TypeOK, RefundFlow, Opening, Covering, Bounded, Bounded', [Next]_vars
             PROVE  Covering'
  OBVIOUS
<1>1. RefundRows /\ RefundRows'
  BY RefundRowsStep DEF Covering
<1>2. ASSUME Alone', NEW q \in Payments
      PROVE  CoverOf(q)'
  <2>1. Alone /\ ~ Abort /\ CoverOf(q)
    BY <1>2, AbortsCounted DEF Covering
  <2>2. ASSUME NEW r \in Refunds, Refund(r)
        PROVE  CoverOf(q)'
    BY <1>1, <2>1, <2>2, CoverReserves, CoverAnswers, CoverFails, CoverReleases DEF Refund
  <2>3. ASSUME NEW r \in Refunds, PaymobReturnsMoney(r)
        PROVE  CoverOf(q)'
    <3>1. UNCHANGED <<payment, refund, checkout, webhook, refunding, announced>>
      BY <2>3 DEF PaymobReturnsMoney, eventVars
    <3>2. QED
      BY <2>1, <3>1, CoverOpen
  <2>4. CASE \A r \in Refunds : ~ Refund(r) /\ ~ PaymobReturnsMoney(r)
    <3>1. UNCHANGED <<refund, refunding>>
      BY <2>1, <2>4, OtherSteps
    <3>2. \A o \in Operators : FALSE
      BY <2>1 DEF Alone
    <3>3. \/ \E p \in Payments : Checkout(p)
          \/ \E w \in Workers, t \in Txns, report \in AllReports : WebhookCheck(w, t, report)
          \/ \E w \in Workers : WebhookStore(w) \/ WebhookRecord(w) \/ WebhookRecordRefused(w)
          \/ UNCHANGED <<payment, checkout, webhook, announced>>
      BY <2>1, <2>4, <3>2, PaymentSteps DEF Refund
    <3>4. QED
      BY <2>1, <3>1, <3>3, CoverOpen
  <2>5. QED
    BY <2>2, <2>3, <2>4
<1>3. QED
  BY <1>1, <1>2 DEF Covering

(***************************************************************************)
(* Once no handler is running, a payment reads refunded exactly when live  *)
(* refunds cover it: reserveRefundCapacity and repairDerivedStatus agree   *)
(* on the status, however many refunds overlap and fail, in any order.     *)
(***************************************************************************)
THEOREM StatusFollowsRefunds == Spec => []RefundedIffCovered
<1>1. Init => RefundFlow /\ Opening /\ Covering
  <2> SUFFICES ASSUME Init PROVE RefundFlow /\ Opening /\ Covering
    OBVIOUS
  <2>1. \A p : BusyWith(p) = {} /\ ReservedCents(p) = {} /\ \A r \in Refunds : ~ Live(r, p)
    BY DEF Init, IdleWorker, BusyWith, ReservedCents, Live, REFUND_CAPACITY_STATUSES
  <2>2. \A p : ReservedTotal(p) # Price
    BY <2>1, FS_EmptySet, PaymentsAssumption DEF ReservedTotal
  <2>3. \A p \in Payments : CoverOf(p)
    BY <2>1, <2>2 DEF Init, CoverOf
  <2>4. QED
    BY <2>1, <2>3 DEF Init, IdleWorker, RefundFlow, Opening, Covering, RefundRows
<1>2. Covering => RefundedIffCovered
  <2> SUFFICES ASSUME Covering, Quiescent, Alone, NEW p \in Payments
               PROVE  payment[p].status = "refunded" <=> ReservedTotal(p) = Price
    BY DEF RefundedIffCovered, Alone
  <2>1. \A r \in Refunds : refunding[r] \notin {"undo", "release"}
    BY DEF Quiescent
  <2>2. QED
    BY <2>1 DEF Covering, CoverOf
<1>3. Spec => [](TypeOK /\ RefundFlow /\ Opening /\ Bounded)
  BY <1>1, OpeningStep, RefundFlowStep, PaymentsTypeCorrect, PaymentsNeverOverRefunded, ReservedBounded,
     PTL DEF Spec
<1>4. QED
  BY <1>1, <1>2, <1>3, CoveringStep, PTL DEF Spec

=============================================================================
