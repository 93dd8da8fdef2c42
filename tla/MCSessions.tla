----------------------------- MODULE MCSessions -----------------------------
(* Small instances of Sessions. *)
EXTENDS Sessions, TLC

CONSTANTS q1, q2

Interchangeable == Permutations(Requests)
=============================================================================
