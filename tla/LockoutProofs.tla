---------------------------- MODULE LockoutProofs ---------------------------
(***************************************************************************)
(* For any number of logins at a time and any limit: the bounds of Lockout *)
(* follow from an invariant that counts where the logins are.              *)
(***************************************************************************)
EXTENDS Lockout, FiniteSetTheorems, TLAPS

\* How many logins are at one of the steps.
At(where, steps) == Cardinality({q \in Requests : where[q] \in steps})

Locking == {"lock", "forget"}
Counting == {"locked?", "count"}
Comparing == {"compare"}

\* Unless a failure was lost: attempts past the limit belong to logins that will lock;
\* without a lock, wrong passwords that are not counted yet belong to logins about to;
\* and the passwords being compared have room under the limit.
Counted ==
    /\ attempts + 1 <= MaxFailedAttempts + At(request, Locking)
    /\ ~locked => tried <= attempts + At(request, Counting)
    /\ tried + At(request, Comparing) + 1 <= MaxFailedAttempts + Cardinality(Requests)

Typed ==
    /\ attempts \in Nat /\ tried \in Nat
    /\ locked \in BOOLEAN /\ lost \in BOOLEAN
    /\ request \in [Requests -> Steps]

LockoutInv == Typed /\ (lost \/ Counted)

-----------------------------------------------------------------------------
\* A count of logins is a natural number.
LEMMA AtIsNat ==
    ASSUME NEW where, NEW steps
    PROVE  At(where, steps) \in Nat
<1>1. IsFiniteSet({q \in Requests : where[q] \in steps})
  BY LockoutAssumption, FS_Subset
<1> QED BY <1>1, FS_CardinalityType DEF At

\* Disjoint finite sets: the union has as many elements as both.
LEMMA DisjointSum ==
    ASSUME NEW L, NEW M, IsFiniteSet(L), IsFiniteSet(M), L \cap M = {}
    PROVE  /\ IsFiniteSet(L \cup M)
           /\ Cardinality(L \cup M) = Cardinality(L) + Cardinality(M)
<1>1. Cardinality(L) \in Nat /\ Cardinality(M) \in Nat
  BY FS_CardinalityType
<1>2. Cardinality(L \cap M) = 0
  BY FS_EmptySet
<1>3. IsFiniteSet(L \cup M)
  BY FS_Union
<1>4. Cardinality(L \cup M) = Cardinality(L) + Cardinality(M) - Cardinality(L \cap M)
  BY FS_Union
<1> QED BY <1>1, <1>2, <1>3, <1>4

\* Logins at three disjoint places are no more than all of them.
LEMMA AtDisjoint ==
    ASSUME NEW where
    PROVE  At(where, Locking) + At(where, Counting) + At(where, Comparing)
             <= Cardinality(Requests)
<1> DEFINE Set(steps) == {q \in Requests : where[q] \in steps}
           Some == Set(Locking) \cup Set(Counting)
<1>1. /\ IsFiniteSet(Set(Locking)) /\ IsFiniteSet(Set(Counting)) /\ IsFiniteSet(Set(Comparing))
  BY LockoutAssumption, FS_Subset
<1>2. Set(Locking) \cap Set(Counting) = {} /\ Some \cap Set(Comparing) = {}
  BY DEF Locking, Counting, Comparing
<1>3. Cardinality(Some \cup Set(Comparing)) <= Cardinality(Requests)
  BY LockoutAssumption, FS_Subset
<1>4. /\ IsFiniteSet(Some)
      /\ Cardinality(Some) = At(where, Locking) + At(where, Counting)
  BY <1>1, <1>2, DisjointSum DEF At
<1>5. Cardinality(Some \cup Set(Comparing)) = Cardinality(Some) + At(where, Comparing)
  BY <1>1, <1>2, <1>4, DisjointSum DEF At
<1> QED BY <1>3, <1>4, <1>5

\* One login moves: each count changes by that login.
LEMMA AtMoves ==
    ASSUME NEW where \in [Requests -> Steps], NEW q \in Requests, NEW to \in Steps,
           NEW steps
    PROVE  At([where EXCEPT ![q] = to], steps)
             = At(where, steps) + (IF to \in steps THEN 1 ELSE 0)
                                - (IF where[q] \in steps THEN 1 ELSE 0)
<1> DEFINE S == {r \in Requests : where[r] \in steps}
           N == {r \in Requests : [where EXCEPT ![q] = to][r] \in steps}
<1>1. IsFiniteSet(S) /\ Cardinality(S) \in Nat
  BY LockoutAssumption, FS_Subset, FS_CardinalityType
<1>2. CASE to \in steps /\ where[q] \notin steps
  <2>1. N = S \cup {q} /\ q \notin S
    BY <1>2
  <2>2. Cardinality(N) = Cardinality(S) + 1
    <3> HIDE DEF S, N
    <3> QED BY <1>1, <2>1, FS_AddElement
  <2> QED BY <1>1, <1>2, <2>2 DEF At
<1>3. CASE to \notin steps /\ where[q] \in steps
  <2>1. N = S \ {q} /\ q \in S
    BY <1>3
  <2>2. Cardinality(N) = Cardinality(S) - 1
    <3> HIDE DEF S, N
    <3> QED BY <1>1, <2>1, FS_RemoveElement
  <2> QED BY <1>1, <1>3, <2>2 DEF At
<1>4. CASE (to \in steps) <=> (where[q] \in steps)
  <2>1. N = S
    BY <1>4
  <2> QED BY <1>1, <1>4, <2>1 DEF At
<1> QED BY <1>2, <1>3, <1>4

\* What a step of one login does to the three counts.
LEMMA CountsMove ==
    ASSUME Typed, NEW q \in Requests, NEW from \in Steps, NEW to \in Steps,
           Goto(q, from, to)
    PROVE  /\ request' \in [Requests -> Steps]
           /\ \A steps \in {Locking, Counting, Comparing} :
                At(request', steps) = At(request, steps) + (IF to \in steps THEN 1 ELSE 0)
                                                         - (IF from \in steps THEN 1 ELSE 0)
<1>1. request[q] = from /\ request' = [request EXCEPT ![q] = to]
  BY DEF Goto
<1> QED BY <1>1, AtMoves DEF Typed

\* The three counts are natural numbers, before and after a step.
LEMMA CountsAreNat ==
    \A steps \in {Locking, Counting, Comparing} :
      At(request, steps) \in Nat /\ At(request', steps) \in Nat
BY AtIsNat

\* The invariant holds initially: nobody is anywhere.
LEMMA LockoutInvInit == Init => LockoutInv
<1> SUFFICES ASSUME Init PROVE LockoutInv
  OBVIOUS
<1>1. Typed
  BY DEF Init, Typed, Steps
<1>2. /\ At(request, Locking) \in Nat /\ At(request, Counting) \in Nat
      /\ Cardinality(Requests) \in Nat
  BY AtIsNat, LockoutAssumption, FS_CardinalityType
<1>3. At(request, Comparing) = 0
  <2>1. {q \in Requests : request[q] \in Comparing} = {}
    BY DEF Init, Comparing
  <2> QED BY <2>1, FS_EmptySet DEF At
<1> QED BY <1>1, <1>2, <1>3, LockoutAssumption DEF Init, LockoutInv, Counted

\* Every step preserves the invariant.
LEMMA LockoutInvStep == LockoutInv /\ [Next]_vars => LockoutInv'
<1> SUFFICES ASSUME LockoutInv, [Next]_vars PROVE LockoutInv'
  OBVIOUS
<1> USE LockoutAssumption
<1>1. Typed
  BY DEF LockoutInv
<1>2. Cardinality(Requests) \in Nat
  BY FS_CardinalityType
<1>3. /\ At(request, Locking) \in Nat /\ At(request', Locking) \in Nat
      /\ At(request, Counting) \in Nat /\ At(request', Counting) \in Nat
      /\ At(request, Comparing) \in Nat /\ At(request', Comparing) \in Nat
  BY AtIsNat
<1>4. /\ At(request, Locking) + At(request, Counting) + At(request, Comparing)
           <= Cardinality(Requests)
      /\ At(request', Locking) + At(request', Counting) + At(request', Comparing)
           <= Cardinality(Requests)
  BY AtDisjoint
<1> DEFINE Moved(from, to, steps) ==
             At(request', steps) = At(request, steps) + (IF to \in steps THEN 1 ELSE 0)
                                                      - (IF from \in steps THEN 1 ELSE 0)
           AllMoved(from, to) == /\ request' \in [Requests -> Steps]
                                 /\ Moved(from, to, Locking)
                                 /\ Moved(from, to, Counting)
                                 /\ Moved(from, to, Comparing)
<1>5. ASSUME NEW q \in Requests, NEW from \in Steps, NEW to \in Steps, Goto(q, from, to)
      PROVE  AllMoved(from, to)
  BY <1>1, <1>5, CountsMove
<1>6. /\ "idle" \in Steps /\ "compare" \in Steps /\ "locked?" \in Steps /\ "count" \in Steps
      /\ "lock" \in Steps /\ "forget" \in Steps /\ "clear" \in Steps /\ "unlock" \in Steps
  BY DEF Steps
<1> HIDE DEF AllMoved
<1>7. CASE LockExpires
  <2>1. request' = request
    BY <1>7 DEF LockExpires
  <2>2. Typed'
    BY <1>1, <1>7, <2>1 DEF LockExpires, Typed
  <2>3. ASSUME ~lost PROVE Counted'
    <3>1. /\ attempts' = attempts /\ tried' = 0 /\ Counted
          /\ attempts \in Nat
      BY <1>1, <1>7, <2>3 DEF LockExpires, LockoutInv, Typed
    <3> QED BY <1>2, <1>3, <1>4, <2>1, <3>1 DEF Counted
  <2> QED BY <1>7, <2>2, <2>3 DEF LockExpires, LockoutInv
<1>8. CASE AttemptsExpire
  <2>1. request' = request
    BY <1>8 DEF AttemptsExpire
  <2> QED BY <1>2, <1>3, <1>4, <1>8, <2>1 DEF AttemptsExpire, LockoutInv, Typed, Counted
<1>9. ASSUME NEW q \in Requests, CheckStatus(q) PROVE LockoutInv'
  <2>1. AllMoved("idle", "compare")
    BY <1>5, <1>6, <1>9 DEF CheckStatus
  <2> QED BY <1>2, <1>3, <1>4, <1>9, <2>1
          DEF CheckStatus, AllMoved, LockoutInv, Typed, Counted, Locking, Counting, Comparing
<1>10. ASSUME NEW q \in Requests, Wrong(q) PROVE LockoutInv'
  <2>1. AllMoved("compare", "locked?")
    BY <1>5, <1>6, <1>10 DEF Wrong
  <2> QED BY <1>2, <1>3, <1>4, <1>10, <2>1
          DEF Wrong, AllMoved, LockoutInv, Typed, Counted, Locking, Counting, Comparing
<1>11. ASSUME NEW q \in Requests, Right(q) PROVE LockoutInv'
  <2>1. AllMoved("compare", "clear")
    BY <1>5, <1>6, <1>11 DEF Right
  <2> QED BY <1>2, <1>3, <1>4, <1>11, <2>1
          DEF Right, AllMoved, LockoutInv, Typed, Counted, Locking, Counting, Comparing
<1>12. ASSUME NEW q \in Requests, Refused(q) PROVE LockoutInv'
  <2>1. AllMoved("compare", "idle")
    BY <1>5, <1>6, <1>12 DEF Refused
  <2> QED BY <1>2, <1>3, <1>4, <1>12, <2>1
          DEF Refused, AllMoved, LockoutInv, Typed, Counted, Locking, Counting, Comparing
<1>13. ASSUME NEW q \in Requests, Lock(q) PROVE LockoutInv'
  <2>1. AllMoved("lock", "forget")
    BY <1>5, <1>6, <1>13 DEF Lock
  <2> QED BY <1>2, <1>3, <1>4, <1>13, <2>1
          DEF Lock, AllMoved, LockoutInv, Typed, Counted, Locking, Counting, Comparing
<1>14. ASSUME NEW q \in Requests, Forget(q) PROVE LockoutInv'
  <2>1. AllMoved("forget", "idle")
    BY <1>5, <1>6, <1>14 DEF Forget
  <2>2. Typed'
    BY <1>1, <1>14, <2>1 DEF Forget, AllMoved, Typed
  <2>3. CASE lost \/ ~locked
    BY <1>14, <2>2, <2>3 DEF Forget, LockoutInv
  <2>4. CASE ~lost /\ locked
    <3>1. attempts' = 0 /\ locked' = locked /\ tried' = tried /\ Counted
      BY <1>14, <2>4 DEF Forget, LockoutInv
    <3>2. Counted'
      BY <1>1, <1>2, <1>3, <1>4, <2>1, <2>4, <3>1
      DEF AllMoved, Typed, Counted, Locking, Counting, Comparing
    <3> QED BY <2>2, <3>2 DEF LockoutInv
  <2> QED BY <2>3, <2>4
<1>15. ASSUME NEW q \in Requests, ClearAttempts(q) PROVE LockoutInv'
  <2>1. AllMoved("clear", "unlock")
    BY <1>5, <1>6, <1>15 DEF ClearAttempts
  <2> QED BY <1>2, <1>3, <1>4, <1>15, <2>1
          DEF ClearAttempts, AllMoved, LockoutInv, Typed, Counted, Locking, Counting, Comparing
<1>16. ASSUME NEW q \in Requests, ClearLock(q) PROVE LockoutInv'
  <2>1. AllMoved("unlock", "idle")
    BY <1>5, <1>6, <1>16 DEF ClearLock
  <2>2. Typed'
    BY <1>1, <1>16, <2>1 DEF ClearLock, AllMoved, Typed
  <2>3. ASSUME ~lost PROVE Counted'
    <3>1. attempts' = attempts /\ tried' = 0 /\ Counted
      BY <1>16, <2>3 DEF ClearLock, LockoutInv
    <3> QED BY <1>1, <1>2, <1>3, <1>4, <2>1, <3>1
            DEF AllMoved, Typed, Counted, Locking, Counting, Comparing
  <2> QED BY <1>16, <2>2, <2>3 DEF ClearLock, LockoutInv
<1>17. ASSUME NEW q \in Requests, AlreadyLocked(q) PROVE LockoutInv'
  <2>1. CASE Goto(q, "locked?", "idle")
    <3>1. AllMoved("locked?", "idle")
      BY <1>5, <1>6, <2>1
    <3> QED BY <1>2, <1>3, <1>4, <1>17, <2>1, <3>1
            DEF AlreadyLocked, Goto, AllMoved, LockoutInv, Typed, Counted, Locking, Counting, Comparing
  <2>2. CASE Goto(q, "locked?", "count")
    <3>1. AllMoved("locked?", "count")
      BY <1>5, <1>6, <2>2
    <3> QED BY <1>2, <1>3, <1>4, <1>17, <2>2, <3>1
            DEF AlreadyLocked, Goto, AllMoved, LockoutInv, Typed, Counted, Locking, Counting, Comparing
  <2> QED BY <1>17, <2>1, <2>2 DEF AlreadyLocked
<1>18. ASSUME NEW q \in Requests, Count(q) PROVE LockoutInv'
  <2>1. CASE Goto(q, "count", "lock")
    <3>1. AllMoved("count", "lock")
      BY <1>5, <1>6, <2>1
    <3> QED BY <1>2, <1>3, <1>4, <1>18, <2>1, <3>1
            DEF Count, Goto, AllMoved, LockoutInv, Typed, Counted, Locking, Counting, Comparing
  <2>2. CASE Goto(q, "count", "idle")
    <3>1. AllMoved("count", "idle")
      BY <1>5, <1>6, <2>2
    <3> QED BY <1>2, <1>3, <1>4, <1>18, <2>2, <3>1
            DEF Count, Goto, AllMoved, LockoutInv, Typed, Counted, Locking, Counting, Comparing
  <2> QED BY <1>18, <2>1, <2>2 DEF Count
<1>19. ASSUME NEW q \in Requests, CutShort(q) PROVE LockoutInv'
  <2>1. Goto(q, request[q], "idle") /\ request[q] \in Steps
    BY <1>1, <1>19 DEF CutShort, Goto, Typed
  <2>2. AllMoved(request[q], "idle")
    BY <1>5, <1>6, <2>1
  <2>3. CASE request[q] \in Recording
    BY <1>1, <1>19, <2>2, <2>3 DEF CutShort, AllMoved, LockoutInv, Typed
  <2>4. CASE request[q] \notin Recording
    <3>1. /\ request[q] \notin Locking /\ request[q] \notin Counting
          /\ "idle" \notin Locking /\ "idle" \notin Counting /\ "idle" \notin Comparing
      BY <2>4 DEF Recording, Locking, Counting, Comparing
    <3>2. /\ request' \in [Requests -> Steps]
          /\ At(request', Locking) = At(request, Locking)
          /\ At(request', Counting) = At(request, Counting)
          /\ At(request', Comparing) <= At(request, Comparing)
      BY <1>3, <2>2, <3>1 DEF AllMoved
    <3>3. Typed'
      BY <1>1, <1>19, <3>2 DEF CutShort, Typed
    <3>4. ASSUME ~lost PROVE Counted'
      <4>1. attempts' = attempts /\ locked' = locked /\ tried' = tried /\ Counted
        BY <1>19, <3>4 DEF CutShort, LockoutInv
      <4> QED BY <1>1, <1>2, <1>3, <3>2, <4>1 DEF Typed, Counted
    <3> QED BY <1>19, <3>3, <3>4 DEF CutShort, LockoutInv
  <2> QED BY <2>3, <2>4
<1>20. CASE UNCHANGED vars
  BY <1>20 DEF vars, LockoutInv, Typed, Counted, At
<1> QED BY <1>7, <1>8, <1>9, <1>10, <1>11, <1>12, <1>13, <1>14, <1>15, <1>16, <1>17, <1>18, <1>19, <1>20 DEF Next

-----------------------------------------------------------------------------
\* The strengthening is an invariant.
THEOREM LockoutInvariant == Spec => []LockoutInv
<1> QED BY LockoutInvInit, LockoutInvStep, PTL DEF Spec

\* The counter, the lock and the logins are well typed, and the counter never passes the
\* limit by more than the logins at work (recordUserFailedAttempt).
THEOREM LockoutTypeCorrect == Spec => []TypeOK
<1>1. LockoutInv => TypeOK
  <2> SUFFICES ASSUME LockoutInv PROVE TypeOK
    OBVIOUS
  <2>1. /\ At(request, Locking) \in Nat /\ At(request, Counting) \in Nat
        /\ At(request, Comparing) \in Nat /\ Cardinality(Requests) \in Nat
    BY AtIsNat, LockoutAssumption, FS_CardinalityType
  <2>2. At(request, Locking) + At(request, Counting) + At(request, Comparing)
          <= Cardinality(Requests)
    BY AtDisjoint
  <2> QED BY <2>1, <2>2, LockoutAssumption DEF LockoutInv, Typed, Counted, TypeOK, Limit
<1> QED BY <1>1, LockoutInvariant, PTL

\* However many logins overlap, the passwords compared before the lock stops them are
\* bounded by the limit and their number (login's check and recordFailedAttempt).
THEOREM TriesBounded == Spec => []TriesAreBounded
<1>1. LockoutInv => TriesAreBounded
  <2> SUFFICES ASSUME LockoutInv PROVE TriesAreBounded
    OBVIOUS
  <2>1. At(request, Comparing) \in Nat /\ Cardinality(Requests) \in Nat
    BY AtIsNat, LockoutAssumption, FS_CardinalityType
  <2> QED BY <2>1, LockoutAssumption
          DEF LockoutInv, Typed, Counted, TriesAreBounded, Limit
<1> QED BY <1>1, LockoutInvariant, PTL

\* Once the logins have ended, as many wrong passwords as the limit have locked the
\* subject, however they overlapped (recordUserFailedAttempt's lock).
THEOREM TheLimitLocks == Spec => []LimitLocks
<1>1. LockoutInv => LimitLocks
  <2> SUFFICES ASSUME LockoutInv, \A q \in Requests : request[q] = "idle",
                      tried >= MaxFailedAttempts, ~lost
               PROVE  locked
    BY DEF LimitLocks
  <2>1. /\ {q \in Requests : request[q] \in Locking} = {}
        /\ {q \in Requests : request[q] \in Counting} = {}
    BY DEF Locking, Counting
  <2>2. At(request, Locking) = 0 /\ At(request, Counting) = 0
    BY <2>1, FS_EmptySet DEF At
  <2> QED BY <2>2, LockoutAssumption DEF LockoutInv, Typed, Counted
<1> QED BY <1>1, LockoutInvariant, PTL
=============================================================================
