---------------------------- MODULE MCResilience ----------------------------
(* Small instances of Resilience. *)
EXTENDS Resilience, TLC

CONSTANTS q1, q2, q3
=============================================================================
