---------------------------- MODULE MigrationChain ----------------------------
(***************************************************************************)
(* What the migration runner promises of a database: migrations are        *)
(* applied in the order of their numbers and taken back newest first,      *)
(* whoever runs them and from whichever release.                           *)
(***************************************************************************)
EXTENDS Integers

CONSTANT Ids \* the numbers of the migrations of all releases

VARIABLE applied \* the migrations in effect

Init == applied \in SUBSET Ids

Apply(m) ==
    /\ \A k \in applied : k < m
    /\ applied' = applied \cup {m}

RollBack(m) ==
    /\ m \in applied
    /\ \A k \in applied : k <= m
    /\ applied' = applied \ {m}

Next == \E m \in Ids : Apply(m) \/ RollBack(m)

Spec == Init /\ [][Next]_applied
=============================================================================
