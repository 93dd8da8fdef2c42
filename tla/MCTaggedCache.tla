--------------------------- MODULE MCTaggedCache ----------------------------
(* Small instances of TaggedCache. *)
EXTENDS TaggedCache, TLC

CONSTANTS a, b, r1, w1, w2

Interchangeable == Permutations(Keys) \cup Permutations(Readers) \cup Permutations(Writers)
=============================================================================
