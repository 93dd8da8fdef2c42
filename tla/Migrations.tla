----------------------------- MODULE Migrations -----------------------------
(***************************************************************************)
(* The migration runner (db/migrations): several processes, of several     *)
(* releases, that apply and roll back migrations of one database under an  *)
(* advisory lock, with a ledger of what is applied.                        *)
(*                                                                         *)
(* A migration is a number; the releases may differ in which files they    *)
(* hold, in what a file says and in how its down script is declared.  The  *)
(* times, the durations and the read-only commands are left out.           *)
(***************************************************************************)
EXTENDS Integers

CONSTANTS
    Ids,         \* the numbers of the migrations of all releases
    Runners,     \* processes
    Releases,    \* what is deployed: a directory of migration files
    Contents,    \* what a file says, that is, its checksum
    File,        \* File[release][m]: the content, or None
    DownScript,  \* DownScript[release][m]: how the down script is declared
    MaxCommands, \* how many commands are run
    Legacy,      \* the empty checksum of the previous runner
    None         \* no file, nobody

Reversibility == {"reversible", "data-loss", "irreversible", "empty"}

ASSUME MigrationsAssumption ==
    /\ Ids \subseteq Nat \ {0}
    /\ MaxCommands \in Nat
    /\ File \in [Releases -> [Ids -> Contents \cup {None}]]
    /\ DownScript \in [Releases -> [Ids -> Reversibility]]
    /\ None \notin Contents \cup Runners \cup {Legacy}

VARIABLES
    schema,   \* the content of each migration in effect, Legacy when nobody recorded it
    ledger,   \* drizzle_migrations: is the row active, and its checksum
    lock,     \* who holds the advisory lock
    run,      \* what each process does: command, release, where it is, what it still has to do
    commands  \* commands started so far

vars == <<schema, ledger, lock, run, commands>>

Idle == [cmd |-> "none", release |-> None, pc |-> "idle", todo |-> {}]

LedgerRow == [state: {"none", "active", "rolled_back"}, checksum: Contents \cup {Legacy}]

Run == [cmd: {"none", "up", "down"}, release: Releases \cup {None},
        pc: {"idle", "ensure", "waiting", "locked", "working"}, todo: SUBSET Ids]

\* The types, and the lock belongs to whoever is between lock and unlock.
TypeOK ==
    /\ schema \in [Ids -> Contents \cup {Legacy, None}]
    /\ ledger \in [Ids -> LedgerRow]
    /\ lock \in Runners \cup {None}
    /\ run \in [Runners -> Run]
    /\ commands \in 0..MaxCommands
    /\ \A r \in Runners :
          /\ run[r].pc # "idle" => run[r].release \in Releases
          /\ run[r].pc \in {"locked", "working"} <=> lock = r

Active == {m \in Ids : ledger[m].state = "active"}

InEffect == {m \in Ids : schema[m] # None}

\* An empty database, or one that the previous runner brought some way.
Init ==
    \E newest \in Ids \cup {0} :
        /\ schema = [m \in Ids |-> IF m <= newest THEN Legacy ELSE None]
        /\ ledger = [m \in Ids |-> [state |-> IF m <= newest THEN "active" ELSE "none",
                                    checksum |-> Legacy]]
        /\ lock = None
        /\ run = [r \in Runners |-> Idle]
        /\ commands = 0

Files(release) == {m \in Ids : File[release][m] # None}

Goto(r, pc, todo) ==
    run' = [run EXCEPT ![r] = [cmd |-> @.cmd, release |-> @.release, pc |-> pc, todo |-> todo]]

\* Mutant: without the finally, a run that fails keeps the lock.
EndKeepingLock(r) ==
    /\ run' = [run EXCEPT ![r] = Idle]
    /\ lock' = lock

\* A command ends: the lock it holds is released.
End(r) ==
    /\ run' = [run EXCEPT ![r] = Idle]
    /\ lock' = IF lock = r THEN None ELSE lock

-----------------------------------------------------------------------------
(***************************************************************************)
(* Up to the lock.                                                         *)
(***************************************************************************)
Start(r, cmd, release) ==
    /\ run[r] = Idle
    /\ commands < MaxCommands
    /\ run' = [run EXCEPT ![r] = [cmd |-> cmd, release |-> release, pc |-> "ensure", todo |-> {}]]
    /\ commands' = commands + 1
    /\ UNCHANGED <<schema, ledger, lock>>

\* The DDL of the ledger, before the lock is asked for.
EnsureLedgerTable(r) ==
    /\ run[r].pc = "ensure"
    /\ Goto(r, "waiting", {})
    /\ UNCHANGED <<schema, ledger, lock, commands>>

\* Mutant: nobody waits for the lock, the last to ask has it.
AcquireUnguarded(r) ==
    /\ run[r].pc = "waiting"
    /\ lock' = r
    /\ Goto(r, "locked", {})
    /\ UNCHANGED <<schema, ledger, commands>>

\* pg_advisory_lock blocks until the lock is free.
Acquire(r) ==
    /\ run[r].pc = "waiting"
    /\ lock = None
    /\ lock' = r
    /\ Goto(r, "locked", {})
    /\ UNCHANGED <<schema, ledger, commands>>

-----------------------------------------------------------------------------
(***************************************************************************)
(* Under the lock.  The ledger is read once.                               *)
(***************************************************************************)

\* The active rows without a checksum for which this release has the file.
Unadopted(r) == {m \in Active : ledger[m].checksum = Legacy /\ File[run[r].release][m] # None}

\* up() gives such a row the checksum of the file of today.
AdoptLegacyRow(r, m) ==
    /\ run[r].pc = "locked" /\ run[r].cmd = "up"
    /\ m \in Unadopted(r)
    /\ ledger' = [ledger EXCEPT ![m] = [state |-> @.state, checksum |-> File[run[r].release][m]]]
    /\ UNCHANGED <<schema, lock, run, commands>>

\* Mutant: a pending file may be followed by an applied one.
NoDriftInContent(release) ==
    \A m \in Active : /\ File[release][m] # None
                      /\ ledger[m].checksum \in {Legacy, File[release][m]}

\* Every applied migration has its file, unchanged, and they are a prefix of the files.
NoDrift(release) ==
    /\ \A m \in Active : /\ File[release][m] # None
                         /\ ledger[m].checksum \in {Legacy, File[release][m]}
    /\ \A m \in Files(release) : (\E n \in Active : m < n) => m \in Active

PlanUp(r) ==
    /\ run[r].pc = "locked" /\ run[r].cmd = "up"
    /\ Unadopted(r) = {}
    /\ NoDrift(run[r].release)
    /\ Goto(r, "working", Files(run[r].release) \ Active)
    /\ UNCHANGED <<schema, ledger, lock, commands>>

\* assertReversible: an empty script that is declared reversible passes.
Reversible(release, m, allowDataLoss) ==
    \/ DownScript[release][m] \in {"reversible", "empty"}
    \/ DownScript[release][m] = "data-loss" /\ allowDataLoss

\* What is newer than t: a request names t, or the number of rows that gives it.
Targets(t) == {m \in Active : t < m}

\* Back to the applied migration t, or (0, by a number of steps) to nothing.
PlanDown(r, t, allowDataLoss) ==
    /\ run[r].pc = "locked" /\ run[r].cmd = "down"
    /\ NoDrift(run[r].release)
    /\ t \in Active \cup {0}
    /\ \A m \in Targets(t) : Reversible(run[r].release, m, allowDataLoss)
    /\ Goto(r, "working", Targets(t))
    /\ UNCHANGED <<schema, ledger, lock, commands>>

\* Drift, or a request for more than is applied or can be taken back.
Refuse(r) ==
    /\ run[r].pc = "locked"
    /\ run[r].cmd = "up" => Unadopted(r) = {} /\ ~NoDrift(run[r].release)
    /\ End(r)
    /\ UNCHANGED <<schema, ledger, commands>>

\* Mutant: the ledger row is not written in the transaction of the migration.
ApplyFileThenRow(r) ==
    \E m \in run[r].todo, recorded \in BOOLEAN :
        /\ run[r].pc = "working" /\ run[r].cmd = "up"
        /\ \A k \in run[r].todo : m <= k
        /\ schema' = [schema EXCEPT ![m] = File[run[r].release][m]]
        /\ ledger' = IF recorded
                     THEN [ledger EXCEPT ![m] = [state |-> "active", checksum |-> File[run[r].release][m]]]
                     ELSE ledger
        /\ Goto(r, "working", run[r].todo \ {m})
        /\ UNCHANGED <<lock, commands>>

\* The first pending file, in one transaction with its row of the ledger.
ApplyFile(r) ==
    \E m \in run[r].todo :
        /\ run[r].pc = "working" /\ run[r].cmd = "up"
        /\ \A k \in run[r].todo : m <= k
        /\ schema' = [schema EXCEPT ![m] = File[run[r].release][m]]
        /\ ledger' = [ledger EXCEPT ![m] = [state |-> "active", checksum |-> File[run[r].release][m]]]
        /\ Goto(r, "working", run[r].todo \ {m})
        /\ UNCHANGED <<lock, commands>>

\* The newest target, in one transaction with its row of the ledger.
RollbackMigration(r) ==
    \E m \in run[r].todo :
        /\ run[r].pc = "working" /\ run[r].cmd = "down"
        /\ \A k \in run[r].todo : k <= m
        /\ DownScript[run[r].release][m] # "empty"
        /\ schema' = [schema EXCEPT ![m] = None]
        /\ ledger' = [ledger EXCEPT ![m] = [state |-> "rolled_back", checksum |-> @.checksum]]
        /\ Goto(r, "working", run[r].todo \ {m})
        /\ UNCHANGED <<lock, commands>>

\* An empty script is found out only when its turn comes.
RollbackRefused(r) ==
    /\ run[r].pc = "working" /\ run[r].cmd = "down"
    /\ \E m \in run[r].todo : /\ \A k \in run[r].todo : k <= m
                              /\ DownScript[run[r].release][m] = "empty"
    /\ End(r)
    /\ UNCHANGED <<schema, ledger, commands>>

Finish(r) ==
    /\ run[r].pc = "working"
    /\ run[r].todo = {}
    /\ End(r)
    /\ UNCHANGED <<schema, ledger, commands>>

\* A statement rejects or the process dies: the transaction is undone, and finally or the
\* end of the session releases the lock.
CutShort(r) ==
    /\ run[r].pc # "idle"
    /\ End(r)
    /\ UNCHANGED <<schema, ledger, commands>>

-----------------------------------------------------------------------------
Step(r) ==
    \/ EnsureLedgerTable(r) \/ Acquire(r)
    \/ \E m \in Ids : AdoptLegacyRow(r, m)
    \/ PlanUp(r) \/ \E t \in Ids \cup {0}, allow \in BOOLEAN : PlanDown(r, t, allow)
    \/ Refuse(r)
    \/ ApplyFile(r) \/ RollbackMigration(r) \/ RollbackRefused(r) \/ Finish(r)

Next ==
    \E r \in Runners :
        \/ \E cmd \in {"up", "down"}, release \in Releases : Start(r, cmd, release)
        \/ Step(r)
        \/ CutShort(r)

\* Statements end: each migration runs under a lock timeout and a statement timeout.
Fairness == \A r \in Runners : WF_vars(Step(r))

Spec == Init /\ [][Next]_vars /\ Fairness

-----------------------------------------------------------------------------
(***************************************************************************)
(* Properties.                                                             *)
(***************************************************************************)

\* The ledger tells what is in effect, whatever was cut short: a migration is in the schema
\* exactly if its row is active, and the row's checksum is of the file that was executed,
\* unless the previous runner did.  The transactions of applyFile and rollbackMigration.
LedgerTellsSchema ==
    /\ Active = InEffect
    /\ \A m \in InEffect : schema[m] \in {Legacy, ledger[m].checksum}

Chain == INSTANCE MigrationChain WITH applied <- InEffect

\* Processes of different releases, together, apply migrations in order and take them back
\* newest first: the lock, the prefix check of assertNoDrift, and a ledger read under the lock.
ImplementsChain == Chain!Spec

\* A command that has started ends: the lock is released by whoever holds it, on every path
\* out of withAdvisoryLock and at the end of the session.
CommandsEnd == \A r \in Runners : run[r].pc # "idle" ~> run[r].pc = "idle"
=============================================================================
