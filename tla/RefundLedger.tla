---------------------------- MODULE RefundLedger ----------------------------
(***************************************************************************)
(* What the refund side of the payments component promises, and nothing    *)
(* about how: a refund first holds part of what was paid, then settles or  *)
(* is released, once; what is held or settled on a payment never exceeds   *)
(* the amount paid.  Payments.tla is shown to implement this module.       *)
(***************************************************************************)
EXTENDS Integers, FiniteSets

CONSTANTS
    Payments,   \* payment ids
    Refunds,    \* refund ids
    Price,      \* the amount of each payment, in cents
    None        \* no payment: the refund has not been asked for

VARIABLE ledger \* what became of each refund

Entry == [payment: Payments \cup {None},
          amount: 0..Price,
          state: {"none", "held", "settled", "released"}]

TypeOK == ledger \in [Refunds -> Entry]

(***************************************************************************)
(* Money is counted cent by cent: the cents that refunds hold on p.        *)
(***************************************************************************)
HeldCents(p) ==
    {rc \in Refunds \X (1..Price) :
        /\ ledger[rc[1]].payment = p
        /\ ledger[rc[1]].state \in {"held", "settled"}
        /\ rc[2] <= ledger[rc[1]].amount}

Held(p) == Cardinality(HeldCents(p))

Init == ledger = [r \in Refunds |-> [payment |-> None, amount |-> 0, state |-> "none"]]

Hold(r, p, amount) ==
    /\ ledger[r].state = "none"
    /\ Held(p) + amount <= Price
    /\ ledger' = [ledger EXCEPT ![r] = [payment |-> p, amount |-> amount, state |-> "held"]]

Settle(r) ==
    /\ ledger[r].state = "held"
    /\ ledger' = [ledger EXCEPT ![r].state = "settled"]

Release(r) ==
    /\ ledger[r].state = "held"
    /\ ledger' = [ledger EXCEPT ![r].state = "released"]

Next ==
    \E r \in Refunds :
        \/ \E p \in Payments, amount \in 1..Price : Hold(r, p, amount)
        \/ Settle(r)
        \/ Release(r)

Spec == Init /\ [][Next]_ledger

-----------------------------------------------------------------------------
(***************************************************************************)
(* Never more is held or returned than was paid: the promise that          *)
(* PaymentsRepository.reserveRefundCapacity exists for.                    *)
(***************************************************************************)
NeverOverRefunded == \A p \in Payments : Held(p) <= Price
=============================================================================
