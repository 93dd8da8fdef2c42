----------------------------- MODULE MCContests -----------------------------
(* Small instances of Contests. *)
EXTENDS Contests, TLC

CONSTANTS u1, u2, q1, q2

Interchangeable == Permutations(Users) \cup Permutations(Requests)
=============================================================================
