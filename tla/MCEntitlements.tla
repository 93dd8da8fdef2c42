--------------------------- MODULE MCEntitlements ---------------------------
(* Small instances of Entitlements. *)
EXTENDS Entitlements, TLC

CONSTANTS s1, s2, k1, k2

Interchangeable == Permutations(Sales) \cup Permutations(Slots)
=============================================================================
