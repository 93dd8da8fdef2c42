-------------------------- MODULE MigrationsProofs --------------------------
(***************************************************************************)
(* The migration runner for any number of processes, releases and          *)
(* migrations.  The strengthening says what a process under the lock still *)
(* has to do: everything to apply is newer than all that is in effect,     *)
(* everything to take back is newer than all that stays.                   *)
(***************************************************************************)
EXTENDS Migrations, TLAPS

WorkOK ==
    \A r \in Runners : run[r].pc = "working" =>
        /\ run[r].cmd = "up" =>
              \A m \in run[r].todo : /\ File[run[r].release][m] # None
                                     /\ \A k \in InEffect : k < m
        /\ run[r].cmd = "down" =>
              /\ run[r].todo \subseteq InEffect
              /\ \A m \in run[r].todo, k \in InEffect \ run[r].todo : k < m

IInv == TypeOK /\ LedgerTellsSchema /\ WorkOK

\* The database the runner finds satisfies the strengthening.
LEMMA InitInv == Init => IInv
<1> SUFFICES ASSUME Init PROVE IInv
  OBVIOUS
<1> USE MigrationsAssumption
<1>1. PICK newest \in Ids \cup {0} :
        /\ schema = [m \in Ids |-> IF m <= newest THEN Legacy ELSE None]
        /\ ledger = [m \in Ids |-> [state |-> IF m <= newest THEN "active" ELSE "none",
                                    checksum |-> Legacy]]
        /\ lock = None
        /\ run = [r \in Runners |-> Idle]
        /\ commands = 0
  BY DEF Init
<1>2. TypeOK
  BY <1>1 DEF TypeOK, LedgerRow, Run, Idle
<1>3. LedgerTellsSchema
  BY <1>1 DEF LedgerTellsSchema, Active, InEffect
<1>4. WorkOK
  BY <1>1 DEF WorkOK, Idle
<1> QED
  BY <1>2, <1>3, <1>4 DEF IInv

\* A step that leaves the database alone and gives no process work to do.
LEMMA QuietStep ==
    ASSUME IInv, TypeOK', UNCHANGED <<schema, ledger>>,
           \A r \in Runners : run'[r].pc = "working" => run'[r] = run[r]
    PROVE  IInv'
<1>1. LedgerTellsSchema'
  BY DEF IInv, LedgerTellsSchema, Active, InEffect
<1>2. WorkOK'
  BY DEF IInv, WorkOK, InEffect
<1> QED
  BY <1>1, <1>2 DEF IInv

\* Every command that starts, waits, ends or is cut short, and the adoption of a legacy row.
LEMMA QuietInv ==
    ASSUME IInv, NEW r \in Runners,
           \/ \E cmd \in {"up", "down"}, release \in Releases : Start(r, cmd, release)
           \/ EnsureLedgerTable(r) \/ Acquire(r)
           \/ Refuse(r) \/ RollbackRefused(r) \/ Finish(r) \/ CutShort(r)
    PROVE  IInv'
<1> USE MigrationsAssumption DEF IInv, TypeOK, Run, Idle, Goto, End
<1>1. CASE \E cmd \in {"up", "down"}, release \in Releases : Start(r, cmd, release)
  <2>1. TypeOK'
    BY <1>1 DEF Start
  <2> QED
    BY <2>1, <1>1, QuietStep DEF Start
<1>2. CASE EnsureLedgerTable(r)
  BY <1>2, QuietStep DEF EnsureLedgerTable
<1>3. CASE Acquire(r)
  BY <1>3, QuietStep DEF Acquire
<1>4. CASE Refuse(r) \/ RollbackRefused(r) \/ Finish(r) \/ CutShort(r)
  <2>1. End(r) /\ UNCHANGED <<schema, ledger, commands>>
    BY <1>4 DEF Refuse, RollbackRefused, Finish, CutShort
  <2>2. TypeOK'
    BY <2>1
  <2> QED
    BY <2>1, <2>2, QuietStep
<1> QED
  BY <1>1, <1>2, <1>3, <1>4

LEMMA AdoptInv == ASSUME IInv, NEW r \in Runners, NEW m \in Ids, AdoptLegacyRow(r, m)
                  PROVE  IInv'
<1> USE MigrationsAssumption
<1>1. ledger[m].state = "active" /\ ledger[m].checksum = Legacy
      /\ File[run[r].release][m] \in Contents
  BY DEF AdoptLegacyRow, Unadopted, Active, IInv, TypeOK
<1>2. TypeOK'
  BY <1>1 DEF AdoptLegacyRow, IInv, TypeOK, LedgerRow, Run
<1>3. LedgerTellsSchema'
  BY <1>1 DEF AdoptLegacyRow, IInv, TypeOK, LedgerRow, LedgerTellsSchema, Active, InEffect
<1>4. WorkOK'
  BY DEF AdoptLegacyRow, IInv, WorkOK, InEffect
<1> QED
  BY <1>2, <1>3, <1>4 DEF IInv

\* Only one process is under the lock: the others have no work.
LEMMA Alone == ASSUME IInv, NEW r \in Runners, run[r].pc \in {"locked", "working"},
                      NEW q \in Runners, q # r
               PROVE  run[q].pc # "working"
  BY DEF IInv, TypeOK

LEMMA PlanUpInv == ASSUME IInv, NEW r \in Runners, PlanUp(r) PROVE IInv'
<1> USE MigrationsAssumption
<1>1. TypeOK'
  BY DEF PlanUp, Goto, IInv, TypeOK, Run, Files
<1>2. LedgerTellsSchema'
  BY DEF PlanUp, IInv, LedgerTellsSchema, Active, InEffect
<1>3. ASSUME NEW m \in Files(run[r].release) \ Active, NEW k \in InEffect
      PROVE  File[run[r].release][m] # None /\ k < m
  <2>1. m \in Ids /\ k \in Ids /\ k \in Active
    BY <1>3 DEF Files, IInv, LedgerTellsSchema, InEffect
  <2>2. ~(m < k) /\ m # k
    BY <1>3, <2>1 DEF PlanUp, NoDrift
  <2>3. k < m
    BY <2>1, <2>2
  <2> QED
    BY <2>3, <1>3 DEF Files
<1>4. WorkOK'
  BY <1>3 DEF PlanUp, Goto, IInv, TypeOK, Run, WorkOK, InEffect, Files
<1> QED
  BY <1>1, <1>2, <1>4 DEF IInv

LEMMA PlanDownInv == ASSUME IInv, NEW r \in Runners, NEW t \in Ids \cup {0}, NEW allow \in BOOLEAN,
                            PlanDown(r, t, allow)
                     PROVE  IInv'
<1> USE MigrationsAssumption
<1> DEFINE targets == Targets(t)
<1>1. TypeOK'
  <2>1. run' = [run EXCEPT ![r] = [cmd |-> @.cmd, release |-> @.release, pc |-> "working",
                                   todo |-> targets]]
        /\ targets \subseteq Ids /\ run[r].pc = "locked"
        /\ UNCHANGED <<schema, ledger, lock, commands>>
    BY DEF PlanDown, Goto, Active, Targets
  <2> HIDE DEF targets
  <2> QED
    BY <2>1 DEF IInv, TypeOK, Run
<1>2. LedgerTellsSchema'
  BY DEF PlanDown, IInv, LedgerTellsSchema, Active, InEffect
<1>3. targets \subseteq InEffect /\ InEffect \subseteq Nat /\ t \in Nat
  <2>1. Active = InEffect
    BY DEF IInv, LedgerTellsSchema
  <2>2. Ids \subseteq Nat
    OBVIOUS
  <2>3. InEffect \subseteq Ids
    BY DEF InEffect
  <2>4. t \in Nat
    BY <2>2
  <2> QED
    BY <2>1, <2>2, <2>3, <2>4 DEF Targets
<1>4. ASSUME NEW m \in targets, NEW k \in InEffect \ targets
      PROVE  k < m
  <2>1. k \in Nat /\ m \in Nat /\ t < m
    BY <1>3, <1>4 DEF Targets
  <2>2. ~(t < k)
    BY <1>4 DEF IInv, LedgerTellsSchema, Targets
  <2> QED
    BY <1>3, <2>1, <2>2
<1>5. run'[r].todo = targets /\ run'[r].cmd = "down"
  BY DEF PlanDown, Goto, IInv, TypeOK, Run
<1>6. WorkOK'
  BY <1>3, <1>4, <1>5 DEF PlanDown, Goto, IInv, TypeOK, Run, WorkOK, InEffect
<1> QED
  BY <1>1, <1>2, <1>6 DEF IInv

\* The step adds a migration newer than all that is in effect.
LEMMA ApplyAdds == ASSUME IInv, NEW r \in Runners, ApplyFile(r)
                   PROVE  \E m \in Ids : /\ \A k \in InEffect : k < m
                                         /\ InEffect' = InEffect \cup {m}
<1> USE MigrationsAssumption
<1>1. PICK m \in run[r].todo :
        /\ run[r].pc = "working" /\ run[r].cmd = "up"
        /\ schema' = [schema EXCEPT ![m] = File[run[r].release][m]]
  BY DEF ApplyFile
<1>2. m \in Ids /\ File[run[r].release][m] # None /\ \A k \in InEffect : k < m
  BY <1>1 DEF IInv, TypeOK, Run, WorkOK
<1>3. InEffect' = InEffect \cup {m}
  BY <1>1, <1>2 DEF IInv, TypeOK, InEffect
<1> QED
  BY <1>2, <1>3

\* The step takes the newest migration back.
LEMMA RollbackRemoves == ASSUME IInv, NEW r \in Runners, RollbackMigration(r)
                         PROVE  \E m \in InEffect : /\ \A k \in InEffect : k <= m
                                                    /\ InEffect' = InEffect \ {m}
<1> USE MigrationsAssumption
<1>1. PICK m \in run[r].todo :
        /\ run[r].pc = "working" /\ run[r].cmd = "down"
        /\ \A k \in run[r].todo : k <= m
        /\ schema' = [schema EXCEPT ![m] = None]
  BY DEF RollbackMigration
<1>2. m \in InEffect /\ \A k \in InEffect \ run[r].todo : k < m
  BY <1>1 DEF IInv, WorkOK
<1>3. InEffect \subseteq Nat
  BY DEF InEffect
<1>4. \A k \in InEffect : k <= m
  BY <1>1, <1>2, <1>3
<1>5. InEffect' = InEffect \ {m}
  BY <1>1, <1>2 DEF IInv, TypeOK, InEffect
<1> QED
  BY <1>2, <1>4, <1>5

LEMMA ApplyInv == ASSUME IInv, NEW r \in Runners, ApplyFile(r) PROVE IInv'
<1> USE MigrationsAssumption
<1>1. PICK m \in run[r].todo :
        /\ run[r].pc = "working" /\ run[r].cmd = "up"
        /\ \A k \in run[r].todo : m <= k
        /\ schema' = [schema EXCEPT ![m] = File[run[r].release][m]]
        /\ ledger' = [ledger EXCEPT ![m] = [state |-> "active", checksum |-> File[run[r].release][m]]]
        /\ Goto(r, "working", run[r].todo \ {m})
        /\ UNCHANGED <<lock, commands>>
  BY DEF ApplyFile
<1>2. m \in Ids /\ File[run[r].release][m] \in Contents /\ \A k \in InEffect : k < m
  BY <1>1 DEF IInv, TypeOK, Run, WorkOK
<1>3. TypeOK'
  BY <1>1, <1>2 DEF Goto, IInv, TypeOK, Run, LedgerRow
<1>4. Active' = Active \cup {m} /\ InEffect' = InEffect \cup {m}
  BY <1>1, <1>2 DEF IInv, TypeOK, LedgerRow, Active, InEffect
<1>5. LedgerTellsSchema'
  BY <1>1, <1>2, <1>4 DEF IInv, TypeOK, LedgerRow, LedgerTellsSchema
<1>6. ASSUME NEW n \in run[r].todo \ {m}
      PROVE  File[run[r].release][n] # None /\ \A k \in InEffect' : k < n
  <2>1. n \in Nat /\ m \in Nat /\ m < n
    BY <1>1, <1>2, <1>6 DEF IInv, TypeOK, Run
  <2> QED
    BY <1>1, <1>4, <1>6, <2>1 DEF IInv, WorkOK
<1>7. run'[r].todo = run[r].todo \ {m} /\ run'[r].cmd = "up" /\ run'[r].release = run[r].release
  BY <1>1 DEF Goto, IInv, TypeOK, Run
<1>8. \A q \in Runners : q # r => run'[q].pc # "working"
  BY <1>1, Alone DEF Goto, IInv, TypeOK
<1>9. WorkOK'
  BY <1>6, <1>7, <1>8 DEF WorkOK
<1> QED
  BY <1>3, <1>5, <1>9 DEF IInv

LEMMA RollbackInv == ASSUME IInv, NEW r \in Runners, RollbackMigration(r) PROVE IInv'
<1> USE MigrationsAssumption
<1>1. PICK m \in run[r].todo :
        /\ run[r].pc = "working" /\ run[r].cmd = "down"
        /\ schema' = [schema EXCEPT ![m] = None]
        /\ ledger' = [ledger EXCEPT ![m] = [state |-> "rolled_back", checksum |-> @.checksum]]
        /\ Goto(r, "working", run[r].todo \ {m})
        /\ UNCHANGED <<lock, commands>>
  BY DEF RollbackMigration
<1>2. m \in Ids
  BY <1>1 DEF IInv, TypeOK, Run
<1>3. TypeOK'
  BY <1>1, <1>2 DEF Goto, IInv, TypeOK, Run, LedgerRow
<1>4. Active' = Active \ {m} /\ InEffect' = InEffect \ {m}
  BY <1>1, <1>2 DEF IInv, TypeOK, LedgerRow, Active, InEffect
<1>5. LedgerTellsSchema'
  BY <1>1, <1>2, <1>4 DEF IInv, TypeOK, LedgerRow, LedgerTellsSchema
<1>6. run'[r].todo = run[r].todo \ {m} /\ run'[r].cmd = "down"
  BY <1>1 DEF Goto, IInv, TypeOK, Run
<1>7. \A q \in Runners : q # r => run'[q].pc # "working"
  BY <1>1, Alone DEF Goto, IInv, TypeOK
<1>8. WorkOK'
  BY <1>1, <1>4, <1>6, <1>7 DEF IInv, WorkOK
<1> QED
  BY <1>3, <1>5, <1>8 DEF IInv

LEMMA NextInv == IInv /\ [Next]_vars => IInv'
<1> SUFFICES ASSUME IInv, [Next]_vars PROVE IInv'
  OBVIOUS
<1>1. CASE UNCHANGED vars
  BY <1>1 DEF vars, IInv, TypeOK, LedgerTellsSchema, WorkOK, Active, InEffect
<1>2. CASE Next
  <2>1. PICK r \in Runners :
          \/ \E cmd \in {"up", "down"}, release \in Releases : Start(r, cmd, release)
          \/ Step(r) \/ CutShort(r)
    BY <1>2 DEF Next
  <2> QED
    BY <2>1, QuietInv, AdoptInv, PlanUpInv, PlanDownInv, ApplyInv, RollbackInv DEF Step
<1> QED
  BY <1>1, <1>2

\* The strengthening holds in every state the runners reach.
THEOREM MigrationsInvariant == Spec => []IInv
<1> QED
  BY InitInv, NextInv, PTL DEF Spec

\* TypeOK: the ledger, the lock and the processes are well typed, and one process at a time
\* is between lock and unlock.
THEOREM MigrationsTypeCorrect == Spec => []TypeOK
<1>1. IInv => TypeOK
  BY DEF IInv
<1> QED
  BY <1>1, MigrationsInvariant, PTL

\* LedgerTellsSchema, for any processes, releases and failures.
THEOREM LedgerIsTheSchema == Spec => []LedgerTellsSchema
<1>1. IInv => LedgerTellsSchema
  BY DEF IInv
<1> QED
  BY <1>1, MigrationsInvariant, PTL

\* What is in effect is changed by ApplyFile and RollbackMigration only.
LEMMA OthersKeep == ASSUME IInv, [Next]_vars,
                           ~\E r \in Runners : ApplyFile(r) \/ RollbackMigration(r)
                    PROVE  InEffect' = InEffect
<1>1. UNCHANGED schema
  BY DEF Next, vars, Step, Start, EnsureLedgerTable, Acquire, AdoptLegacyRow, PlanUp, PlanDown,
         Refuse, RollbackRefused, Finish, CutShort
<1> QED
  BY <1>1 DEF InEffect

\* ImplementsChain: migrations are applied in order and taken back newest first, whichever
\* processes of whichever releases do it.
THEOREM MigrationsImplementChain == Spec => ImplementsChain
<1>1. Init => Chain!Init
  BY DEF Chain!Init, InEffect
<1>2. IInv /\ [Next]_vars => [Chain!Next]_InEffect
  <2> SUFFICES ASSUME IInv, [Next]_vars PROVE [Chain!Next]_InEffect
    OBVIOUS
  <2>1. CASE \E r \in Runners : ApplyFile(r)
    BY <2>1, ApplyAdds DEF Chain!Next, Chain!Apply
  <2>2. CASE \E r \in Runners : RollbackMigration(r)
    <3>1. PICK r \in Runners : RollbackMigration(r)
      BY <2>2
    <3>2. PICK m \in InEffect : /\ \A k \in InEffect : k <= m
                                /\ InEffect' = InEffect \ {m}
      BY <3>1, RollbackRemoves
    <3> QED
      BY <3>2 DEF Chain!Next, Chain!RollBack, InEffect
  <2>3. CASE ~\E r \in Runners : ApplyFile(r) \/ RollbackMigration(r)
    BY <2>3, OthersKeep
  <2> QED
    BY <2>1, <2>2, <2>3
<1> QED
  BY <1>1, <1>2, MigrationsInvariant, PTL DEF Spec, Chain!Spec, ImplementsChain
=============================================================================
