------------------------------ MODULE Lockout -------------------------------
(***************************************************************************)
(* The lockout of one subject, a user or an address, after failed logins   *)
(* (auth/account-lockout.service.ts as auth.service.ts's login uses it):   *)
(* a counter and a lock in Valkey, each with a lifetime, and logins that   *)
(* check, compare the password and record, one command at a time.          *)
(*                                                                         *)
(* The user's and the address's keys are handled by the same code and      *)
(* share nothing.  The progressive delay, which nothing waits for, the     *)
(* captcha and what a login does with its tokens (see Sessions) are left   *)
(* out.                                                                    *)
(***************************************************************************)
EXTENDS Integers, FiniteSets

CONSTANTS
    Requests,         \* the logins in progress at the same time
    MaxFailedAttempts \* maxFailedAttempts

ASSUME LockoutAssumption == IsFiniteSet(Requests) /\ MaxFailedAttempts \in Nat \ {0}

VARIABLES
    attempts, \* auth:lockout:user:<id> or :ip:<ip>, 0 when it is absent
    locked,   \* auth:lockout:user:lock:<id> or :ip:lock:<ip>
    request,  \* where each login is
    tried,    \* history: passwords compared and found wrong since a success or an expiry
    lost      \* history: a failure was not recorded, its login cut short, or was deleted
              \* by a login whose lock a success had cleared before

vars == <<attempts, locked, request, tried, lost>>

Steps == {"idle", "compare", "locked?", "count", "lock", "forget", "clear", "unlock"}
Recording == {"locked?", "count", "lock", "forget"}

\* The most attempts that can be counted, or passwords compared, before a lock stops it.
Limit == MaxFailedAttempts - 1 + Cardinality(Requests)

\* The types; the counter starts again with each lock, so it stays within the limit
\* unless a login that was locking was cut short.
TypeOK ==
    /\ attempts \in Nat /\ (attempts <= Limit \/ lost)
    /\ locked \in BOOLEAN
    /\ request \in [Requests -> Steps]
    /\ tried \in Nat /\ lost \in BOOLEAN

Init ==
    /\ attempts = 0 /\ locked = FALSE
    /\ request = [q \in Requests |-> "idle"]
    /\ tried = 0 /\ lost = FALSE

Goto(q, from, to) == request[q] = from /\ request' = [request EXCEPT ![q] = to]

-----------------------------------------------------------------------------
\* Mutant: the lock is looked at after the comparison only.
CheckNothing(q) ==
    /\ Goto(q, "idle", "compare")
    /\ UNCHANGED <<attempts, locked, tried, lost>>

\* checkStatus: a locked subject is turned away.
CheckStatus(q) ==
    /\ ~locked
    /\ Goto(q, "idle", "compare")
    /\ UNCHANGED <<attempts, locked, tried, lost>>

\* The password is wrong, or nobody has that address.
Wrong(q) ==
    /\ Goto(q, "compare", "locked?")
    /\ tried' = tried + 1
    /\ UNCHANGED <<attempts, locked, lost>>

Right(q) ==
    /\ Goto(q, "compare", "clear")
    /\ UNCHANGED <<attempts, locked, tried, lost>>

\* A login refused for another reason: captcha, ban.
Refused(q) ==
    /\ Goto(q, "compare", "idle")
    /\ UNCHANGED <<attempts, locked, tried, lost>>

\* recordFailedAttempt: locked meanwhile, so there is nothing to count.
AlreadyLocked(q) ==
    /\ IF locked THEN Goto(q, "locked?", "idle") ELSE Goto(q, "locked?", "count")
    /\ UNCHANGED <<attempts, locked, tried, lost>>

\* Mutant: off by one.
CountPast(q) ==
    /\ attempts' = attempts + 1
    /\ IF attempts' > MaxFailedAttempts THEN Goto(q, "count", "lock") ELSE Goto(q, "count", "idle")
    /\ UNCHANGED <<locked, tried, lost>>

\* incrWithTtl, and what its answer asks for.
Count(q) ==
    /\ attempts' = attempts + 1
    /\ IF attempts' >= MaxFailedAttempts THEN Goto(q, "count", "lock") ELSE Goto(q, "count", "idle")
    /\ UNCHANGED <<locked, tried, lost>>

\* Mutant: the counter is kept.
LockOnly(q) ==
    /\ Goto(q, "lock", "idle")
    /\ locked' = TRUE
    /\ UNCHANGED <<attempts, tried, lost>>

Lock(q) ==
    /\ Goto(q, "lock", "forget")
    /\ locked' = TRUE
    /\ UNCHANGED <<attempts, tried, lost>>

\* The counter is deleted, also what others have counted since.
Forget(q) ==
    /\ Goto(q, "forget", "idle")
    /\ attempts' = 0
    /\ lost' = (lost \/ ~locked)
    /\ UNCHANGED <<locked, tried>>

\* clearOnSuccess: the counter first, then the lock.
ClearAttempts(q) ==
    /\ Goto(q, "clear", "unlock")
    /\ attempts' = 0
    /\ tried' = 0
    /\ UNCHANGED <<locked, lost>>

ClearLock(q) ==
    /\ Goto(q, "unlock", "idle")
    /\ locked' = FALSE
    /\ tried' = 0
    /\ UNCHANGED <<attempts, lost>>

\* The lifetime of the lock is long compared to a login: none that set it is still there.
LockExpires ==
    /\ locked
    /\ \A q \in Requests : request[q] \notin {"count", "lock", "forget"}
    /\ locked' = FALSE
    /\ tried' = 0
    /\ UNCHANGED <<attempts, request, lost>>

\* The window of the counter, from its first attempt on, is over.
AttemptsExpire ==
    /\ attempts > 0
    /\ attempts' = 0
    /\ tried' = 0
    /\ UNCHANGED <<locked, request, lost>>

\* Valkey refuses the next command, or the process stops.
CutShort(q) ==
    /\ request[q] # "idle"
    /\ request' = [request EXCEPT ![q] = "idle"]
    /\ lost' = (lost \/ request[q] \in Recording)
    /\ UNCHANGED <<attempts, locked, tried>>

Next ==
    \/ LockExpires \/ AttemptsExpire
    \/ \E q \in Requests :
         \/ CheckStatus(q) \/ Wrong(q) \/ Right(q) \/ Refused(q)
         \/ AlreadyLocked(q) \/ Count(q) \/ Lock(q) \/ Forget(q)
         \/ ClearAttempts(q) \/ ClearLock(q)
         \/ CutShort(q)

Spec == Init /\ [][Next]_vars

-----------------------------------------------------------------------------
\* However many logins run at the same time, no more wrong passwords are compared before
\* the lock stops them than the limit and the logins already past the check; unless a
\* failure was lost.
TriesAreBounded == tried <= Limit \/ lost

\* With no login in progress, as many wrong passwords as the limit have locked the
\* subject: failures that cross the limit together do not undo each other's lock.
LimitLocks ==
    (\A q \in Requests : request[q] = "idle") /\ tried >= MaxFailedAttempts => locked \/ lost
=============================================================================
