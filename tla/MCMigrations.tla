---------------------------- MODULE MCMigrations ----------------------------
(* Small instances of Migrations: three migrations, releases that disagree. *)
EXTENDS Migrations

CONSTANTS r1, r2, x, y, current, behind, edited

\* The current release; one where 2 is missing between 1 and 3 (and is written later); one
\* from before 3, whose file 1 was edited.
MCFile == [release \in Releases |->
    CASE release = current -> <<x, x, x>>
      [] release = behind  -> <<x, None, x>>
      [] release = edited  -> <<y, x, None>>]

MCDownScript == [release \in Releases |->
    IF release = current THEN <<"empty", "reversible", "data-loss">>
                         ELSE <<"reversible", "irreversible", "reversible">>]
=============================================================================
