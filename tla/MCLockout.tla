------------------------------ MODULE MCLockout -----------------------------
(* Small instances of Lockout. *)
EXTENDS Lockout, TLC

CONSTANTS q1, q2, q3

Interchangeable == Permutations(Requests)

\* Bound: a run in which a failure was lost is followed this far.
FewTries == tried <= Limit + 1 /\ attempts <= Limit + 1
=============================================================================
