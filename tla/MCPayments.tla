----------------------------- MODULE MCPayments -----------------------------
(* Small instances of Payments. *)
EXTENDS Payments, TLC

CONSTANTS p1, t1, r1, r2, r3, w1, w2, o1

\* Every attempt pays the same payment.
OneOrder == [t \in Txns |-> p1]

Interchangeable == Permutations(Refunds) \cup Permutations(Workers)
=============================================================================
