-------------------------- MODULE ResilienceProofs --------------------------
(***************************************************************************)
(* Proofs about Resilience, for every finite set of requests, every        *)
(* threshold, every number of retries and every number of mishaps.         *)
(*                                                                         *)
(* Two ideas carry them.  Until a request holds another object than the    *)
(* Map, all of them hold the object of the Map, so what transitionTo       *)
(* writes is what execute() looked at.  And a request that was served      *)
(* never reaches a place from which it would be sent again.                *)
(***************************************************************************)
EXTENDS Resilience, FiniteSetTheorems, TLAPS

\* An open breaker that knows when it failed.
Whole(record) == record.state = "OPEN" => record.last # "none"

\* The successes of a half-open breaker are answers to its probes, or it was noted.
Earned ==
    current # None /\ heap[current].state = "HALF_OPEN" =>
        late \/ heap[current].successes <= proven

(***************************************************************************)
(* Until the objects split, there is one; the one object and its copy are  *)
(* whole, and its successes are earned.                                    *)
(***************************************************************************)
OneObject ==
    ~ split =>
        /\ \A r \in Requests : req[r].obj \in {None, current}
        /\ current # None => Whole(heap[current])
        /\ mirror # None => Whole(mirror)
        /\ Earned

\* On the way to the call a request was not served; one that was is not retried.
Honest(q) ==
    /\ q.pc \in {"idle", "loading", "storing", "admitting", "rejecting", "calling", "waiting"}
          => ~ q.served
    /\ q.pc \in {"opening", "failing"} /\ q.served => ~ q.retryable

\* The inductive invariant.
IInv == TypeOK /\ OneObject /\ \A r \in Requests : Honest(req[r])

-----------------------------------------------------------------------------
(***************************************************************************)
(* There is always an object that nobody holds: at most one per request    *)
(* and the one of the Map are in use.                                      *)
(***************************************************************************)
LEMMA FreshIsFree ==
    ASSUME TypeOK
    PROVE  Fresh \in Ids /\ Fresh \notin Held(req, current)
<1> DEFINE Objects == {req[r].obj : r \in Requests}
<1> DEFINE f == [r \in Requests |-> req[r].obj]
<1>1. IsFiniteSet(Requests) /\ Cardinality(Requests) \in Nat
  BY ResilienceAssumption, FS_CardinalityType
<1>2. f \in Surjection(Requests, Objects)
  BY DEF Surjection
<1>3. IsFiniteSet(Objects) /\ Cardinality(Objects) <= Cardinality(Requests)
  <2> HIDE DEF f, Objects
  <2>1. QED
    BY <1>1, <1>2, FS_Surjection
<1>4. Cardinality(Objects) \in Nat
  BY <1>3, FS_CardinalityType
<1> HIDE DEF f, Objects
<1>5. /\ IsFiniteSet(Objects \cup {current})
      /\ Cardinality(Objects \cup {current}) \in Nat
      /\ Cardinality(Objects \cup {current}) <= Cardinality(Requests) + 1
  <2>1. /\ IsFiniteSet(Objects \cup {current})
        /\ \/ Cardinality(Objects \cup {current}) = Cardinality(Objects)
           \/ Cardinality(Objects \cup {current}) = Cardinality(Objects) + 1
    BY <1>3, FS_AddElement
  <2>2. QED
    BY <1>1, <1>3, <1>4, <2>1
<1>6. Cardinality(Ids) = Cardinality(Requests) + 2
  BY <1>1, FS_Interval DEF Ids
<1>7. ~ (Ids \subseteq Objects \cup {current})
  <2> SUFFICES ASSUME Ids \subseteq Objects \cup {current}
               PROVE  FALSE
    OBVIOUS
  <2>1. Cardinality(Ids) <= Cardinality(Objects \cup {current})
    BY <1>5, FS_Subset
  <2>2. QED
    BY <1>1, <1>5, <1>6, <2>1
<1>8. Held(req, current) = Objects \cup {current}
  BY DEF Held, Objects
<1>9. \E i \in Ids : i \notin Held(req, current)
  BY <1>7, <1>8
<1>10. QED
  BY <1>9 DEF Fresh

-----------------------------------------------------------------------------
(***************************************************************************)
(* What every step does to the objects: those in use keep what was written *)
(* to them, and all are records.                                           *)
(***************************************************************************)
LEMMA CollectedKeeps ==
    ASSUME NEW h \in [Ids -> Record], NEW q, NEW c
    PROVE  /\ Collected(h, q, c) \in [Ids -> Record]
           /\ c \in Ids => Collected(h, q, c)[c] = h[c]
<1>1. InitialState \in Record
  BY ResilienceAssumption DEF InitialState, Record
<1>2. QED
  BY <1>1 DEF Collected, Held

LEMMA NoneIsNoId == None \notin Ids
BY ResilienceAssumption DEF Ids

\* What may be spent on a write.
LEMMA AffordableStays ==
    ASSUME TypeOK, NEW ok, Affordable(ok)
    PROVE  mishaps' \in 0..MaxMishaps
<1>1. Spent(ok) \in Nat
  BY DEF Spent
<1>2. mishaps \in Nat /\ MaxMishaps \in Nat
  BY ResilienceAssumption DEF TypeOK
<1>3. QED
  BY <1>1, <1>2 DEF Affordable

Outside == {"idle", "loading", "waiting"}

(***************************************************************************)
(* A step of one request preserves the invariant if what it leaves of that *)
(* request, of the objects and of the copy is in order.                    *)
(***************************************************************************)
LEMMA OneRequest ==
    ASSUME IInv, NEW r \in Requests, NEW q \in Request, NEW h \in [Ids -> Record], NEW c \in Ids \cup {None},
           req' = [req EXCEPT ![r] = q], current' = c, heap' = Collected(h, req', c),
           mirror' \in Record \cup {None}, mishaps' \in 0..MaxMishaps,
           probes' \subseteq Requests, proven' \in Nat, late' \in BOOLEAN, split' \in BOOLEAN,
           current # None => c # None,
           q.pc \notin Outside => q.obj # None /\ c # None,
           Honest(q), split => split',
           ~ split' => /\ q.obj \in {None, c}
                       /\ \A s \in Requests \ {r} : req[s].obj \in {None, c}
                       /\ c # None => Whole(h[c])
                       /\ mirror' # None => Whole(mirror')
                       /\ c # None /\ h[c].state = "HALF_OPEN" => late' \/ h[c].successes <= proven'
    PROVE  IInv'
<1>1. None \notin Ids
  BY NoneIsNoId
<1>2. heap' \in [Ids -> Record] /\ (c # None => heap'[c] = h[c])
  BY CollectedKeeps
<1>3. TypeOK
  BY DEF IInv
<1>4. req' \in [Requests -> Request] /\ req'[r] = q /\ \A s \in Requests \ {r} : req'[s] = req[s]
  BY <1>3 DEF TypeOK
<1>5. TypeOK'
  BY <1>2, <1>3, <1>4 DEF TypeOK, Outside
<1>6. OneObject'
  BY <1>2, <1>4 DEF OneObject, Earned
<1>7. \A s \in Requests : Honest(req'[s])
  BY <1>4 DEF IInv
<1>8. QED
  BY <1>5, <1>6, <1>7 DEF IInv

\* The same for a step that awaits a write of the copy.
LEMMA PersistStep ==
    ASSUME IInv, NEW r \in Requests, NEW pc \in {"storing", "admitting", "rejecting", "closing", "saving", "opening", "failing"},
           NEW changes \in Request, NEW h \in [Ids -> Record], NEW i \in Ids,
           Persist(r, pc, changes, h, i), current' \in Ids, changes.obj # None,
           \A ok \in BOOLEAN : Honest([changes EXCEPT !.pc = pc, !.ok = ok]),
           probes' \subseteq Requests, proven' \in Nat, late' \in BOOLEAN, split' \in BOOLEAN,
           split => split',
           ~ split' => /\ changes.obj = current' /\ Whole(h[i])
                       /\ \A s \in Requests \ {r} : req[s].obj \in {None, current'}
                       /\ Whole(h[current'])
                       /\ h[current'].state = "HALF_OPEN" => late' \/ h[current'].successes <= proven'
    PROVE  IInv'
<1>1. PICK ok \in BOOLEAN :
         /\ Affordable(ok)
         /\ req' = [req EXCEPT ![r] = [changes EXCEPT !.pc = pc, !.ok = ok]]
         /\ mirror' = IF ok THEN h[i] ELSE mirror
         /\ heap' = Collected(h, req', current')
  BY DEF Persist
<1> DEFINE q == [changes EXCEPT !.pc = pc, !.ok = ok]
<1>2. q \in Request /\ q.obj = changes.obj /\ q.pc = pc
  BY DEF Request
<1>3. mishaps' \in 0..MaxMishaps
  BY <1>1, AffordableStays DEF IInv
<1>4. mirror' \in Record \cup {None}
  BY <1>1 DEF IInv, TypeOK
<1>5. ~ split' /\ mirror' # None => Whole(mirror')
  BY <1>1 DEF IInv, OneObject
<1>6. None \notin Ids
  BY NoneIsNoId
<1>7. Honest(q) /\ req' = [req EXCEPT ![r] = q]
  BY <1>1
<1> HIDE DEF q
<1>8. QED
  BY <1>1, <1>2, <1>3, <1>4, <1>5, <1>6, <1>7, OneRequest

\* And for one that writes nothing.
LEMMA GotoStep ==
    ASSUME IInv, NEW r \in Requests, NEW q \in Request, Goto(r, q), Honest(q),
           probes' \subseteq Requests,
           q.pc \notin Outside => q.obj # None /\ current # None,
           q.obj \in {None, req[r].obj}
    PROVE  IInv'
<1>1. /\ req' = [req EXCEPT ![r] = q] /\ heap' = Collected(heap, req', current)
      /\ UNCHANGED <<current, mirror, mishaps, proven, late, split>>
  BY DEF Goto
<1>2. TypeOK
  BY DEF IInv
<1>3. ~ split => /\ q.obj \in {None, current}
                 /\ \A s \in Requests \ {r} : req[s].obj \in {None, current}
                 /\ current # None => Whole(heap[current])
                 /\ mirror # None => Whole(mirror)
                 /\ current # None /\ heap[current].state = "HALF_OPEN" =>
                       late \/ heap[current].successes <= proven
  BY DEF IInv, OneObject, Earned
<1>4. heap \in [Ids -> Record] /\ current \in Ids \cup {None}
  BY <1>2 DEF TypeOK
<1>5. QED
  BY <1>1, <1>2, <1>3, <1>4, OneRequest DEF TypeOK

-----------------------------------------------------------------------------
(***************************************************************************)
(* What the assignments to an object leave.                                *)
(***************************************************************************)
LEMMA Written ==
    ASSUME NEW h \in [Ids -> Record], NEW i \in Ids, NEW record \in Record
    PROVE  /\ [h EXCEPT ![i] = record] \in [Ids -> Record]
           /\ [h EXCEPT ![i] = record][i] = record
           /\ \A j \in Ids \ {i} : [h EXCEPT ![i] = record][j] = h[j]
OBVIOUS

LEMMA TurnedTo ==
    ASSUME NEW h \in [Ids -> Record], NEW c \in Ids, NEW state \in {"CLOSED", "OPEN", "HALF_OPEN"}
    PROVE  /\ Turned(h, c, state) \in [Ids -> Record]
           /\ Turned(h, c, state)[c] = [h[c] EXCEPT !.state = state]
<1>1. Turned(h, c, state) = [h EXCEPT ![c] = [h[c] EXCEPT !.state = state]]
  BY DEF Turned
<1>2. h[c] \in Record
  OBVIOUS
<1>3. [h[c] EXCEPT !.state = state] \in Record
  BY <1>2 DEF Record
<1>4. QED
  BY <1>1, <1>3, Written

\* A record whose counters are cleared.
LEMMA Cleared ==
    ASSUME NEW record \in Record, NEW state \in {"CLOSED", "OPEN", "HALF_OPEN"}
    PROVE  LET new == [record EXCEPT !.state = state, !.failures = 0, !.successes = 0]
           IN  new \in Record /\ new.state = state /\ new.successes = 0 /\ new.last = record.last
<1> DEFINE new == [record EXCEPT !.state = state, !.failures = 0, !.successes = 0]
<1>1. 0 \in 0..(SuccessThreshold - 1) /\ 0 \in Nat
  BY ResilienceAssumption
<1> DEFINE one == [record EXCEPT !.state = state]
<1> DEFINE two == [one EXCEPT !.failures = 0]
<1>2. one \in Record /\ one.state = state /\ one.last = record.last
  BY DEF Record
<1> HIDE DEF one
<1>3. two \in Record /\ two.state = state /\ two.last = record.last
  BY <1>1, <1>2 DEF Record
<1> HIDE DEF two
<1>4. /\ [two EXCEPT !.successes = 0] \in Record
      /\ [two EXCEPT !.successes = 0].state = state
      /\ [two EXCEPT !.successes = 0].successes = 0
      /\ [two EXCEPT !.successes = 0].last = record.last
  BY <1>1, <1>3 DEF Record
<1>5. new = [two EXCEPT !.successes = 0]
  BY DEF two, one
<1>6. QED
  BY <1>4, <1>5

LEMMA HalfOpenedTo ==
    ASSUME NEW h \in [Ids -> Record], NEW i \in Ids, NEW c \in Ids
    PROVE  /\ HalfOpened(h, i, c) \in [Ids -> Record]
           /\ i = c => /\ HalfOpened(h, i, c)[c].state = "HALF_OPEN"
                       /\ HalfOpened(h, i, c)[c].successes = 0
<1> DEFINE new == [h[i] EXCEPT !.state = "HALF_OPEN", !.failures = 0, !.successes = 0]
<1>1. h[i] \in Record
  OBVIOUS
<1>2. new \in Record /\ new.state = "HALF_OPEN" /\ new.successes = 0
  BY <1>1, Cleared
<1>3. HalfOpened(h, i, c) = Turned([h EXCEPT ![i] = new], c, "HALF_OPEN")
  BY DEF HalfOpened
<1> HIDE DEF new
<1>4. [h EXCEPT ![i] = new] \in [Ids -> Record] /\ [h EXCEPT ![i] = new][i] = new
  BY <1>2, Written
<1> DEFINE g == [h EXCEPT ![i] = new]
<1> HIDE DEF g
<1>5. g \in [Ids -> Record] /\ g[i] = new /\ HalfOpened(h, i, c) = Turned(g, c, "HALF_OPEN")
  BY <1>3, <1>4 DEF g
<1>6. /\ Turned(g, c, "HALF_OPEN") \in [Ids -> Record]
      /\ Turned(g, c, "HALF_OPEN")[c] = [g[c] EXCEPT !.state = "HALF_OPEN"]
  BY <1>5, TurnedTo
<1>7. g[c] \in Record
  BY <1>5
<1>8. [g[c] EXCEPT !.state = "HALF_OPEN"].state = "HALF_OPEN"
      /\ [g[c] EXCEPT !.state = "HALF_OPEN"].successes = g[c].successes
  BY <1>7 DEF Record
<1>9. QED
  BY <1>2, <1>5, <1>6, <1>8

-----------------------------------------------------------------------------
(***************************************************************************)
(* The decision of execute(), whichever await it follows.                  *)
(***************************************************************************)
LEMMA DecideStep ==
    ASSUME IInv, NEW r \in Requests, NEW changes \in Request, NEW h \in [Ids -> Record],
           NEW i \in Ids, NEW c \in Ids, current' = c, Decide(r, changes, h, i, c),
           ~ changes.served, split' \in BOOLEAN, split => split',
           ~ split' => /\ i = c /\ Whole(h[c])
                       /\ \A s \in Requests \ {r} : req[s].obj \in {None, c}
                       /\ h[c].state = "HALF_OPEN" => late \/ current # c \/ h[c].successes <= proven
    PROVE  IInv'
<1>1. TypeOK /\ OneObject /\ None \notin Ids
  BY NoneIsNoId DEF IInv
<1> DEFINE me == [changes EXCEPT !.obj = i]
<1>2. me \in Request /\ me.obj = i /\ ~ me.served
  BY DEF Request
<1>3. ASSUME NEW pc \in {"admitting", "rejecting"}, NEW ok \in BOOLEAN
      PROVE  Honest([me EXCEPT !.pc = pc, !.ok = ok])
  <2> HIDE DEF me
  <2>1. /\ [me EXCEPT !.pc = pc, !.ok = ok].served = me.served
        /\ [me EXCEPT !.pc = pc, !.ok = ok].pc = pc
    BY <1>2 DEF Request
  <2>2. QED
    BY <1>2, <2>1 DEF Honest
<1> DEFINE q == [me EXCEPT !.pc = "calling"]
<1>4. q \in Request /\ q.obj = i /\ q.pc = "calling" /\ Honest(q)
  <2>1. q \in Request /\ q.obj = me.obj /\ q.pc = "calling" /\ q.served = me.served
    <3> HIDE DEF me
    <3>1. QED
      BY <1>2 DEF Request
  <2> HIDE DEF q
  <2>2. QED
    BY <1>2, <2>1 DEF Honest
<1> HIDE DEF me, q
<1>5. CASE h[i].state = "OPEN" /\ h[i].last = "old"
  <2>1. /\ Persist(r, "admitting", me, HalfOpened(h, i, c), c)
        /\ probes' = {} /\ proven' = 0 /\ late' = FALSE
    BY <1>5 DEF Decide, me
  <2> DEFINE g == HalfOpened(h, i, c)
  <2>2. g \in [Ids -> Record] /\ (i = c => g[c].state = "HALF_OPEN" /\ g[c].successes = 0)
    BY HalfOpenedTo
  <2> HIDE DEF g
  <2>3. Persist(r, "admitting", me, g, c)
    BY <2>1 DEF g
  <2>4. i = c => Whole(g[c])
    BY <2>2 DEF Whole
  <2>5. /\ probes' \subseteq Requests /\ proven' \in Nat /\ late' \in BOOLEAN
        /\ me.obj # None /\ current' \in Ids
    BY <1>1, <1>2, <2>1
  <2>6. ~ split' => /\ me.obj = current' /\ Whole(g[c]) /\ Whole(g[current'])
                    /\ \A s \in Requests \ {r} : req[s].obj \in {None, current'}
                    /\ g[current'].state = "HALF_OPEN" => late' \/ g[current'].successes <= proven'
    BY <1>2, <2>1, <2>2, <2>4
  <2>7. QED
    BY <1>2, <1>3, <2>2, <2>3, <2>5, <2>6, PersistStep
<1>6. CASE h[i].state = "OPEN" /\ h[i].last # "old"
  <2>1. Persist(r, "rejecting", me, h, i) /\ UNCHANGED <<probes, proven, late>>
    BY <1>6 DEF Decide, me
  <2>2. ~ split' => h[c].state # "HALF_OPEN"
    BY <1>6
  <2>3. QED
    BY <1>1, <1>2, <1>3, <2>1, <2>2, PersistStep DEF TypeOK
<1>7. CASE h[i].state # "OPEN"
  <2>1. /\ req' = [req EXCEPT ![r] = q]
        /\ heap' = Collected(h, req', c)
        /\ Sent(r, h[c].state)
        /\ late' = (late \/ (current # c /\ h[c].state = "HALF_OPEN"))
        /\ Affordable(TRUE)
        /\ UNCHANGED <<mirror, proven>>
    BY <1>7 DEF Decide, me, q
  <2>2. mishaps' \in 0..MaxMishaps
    BY <1>1, <2>1, AffordableStays
  <2>3. probes' \subseteq Requests
    BY <1>1, <2>1 DEF Sent, TypeOK
  <2>4. ~ split' /\ h[c].state = "HALF_OPEN" => late' \/ h[c].successes <= proven'
    BY <2>1
  <2>5. ~ split' /\ mirror # None => Whole(mirror)
    BY <1>1 DEF OneObject
  <2>6. late' \in BOOLEAN /\ mirror' \in Record \cup {None} /\ proven' \in Nat /\ mirror' = mirror
    BY <1>1, <2>1 DEF TypeOK
  <2>7. QED
    BY <1>1, <1>4, <2>1, <2>2, <2>3, <2>4, <2>5, <2>6, OneRequest
<1>8. QED
  BY <1>5, <1>6, <1>7

(***************************************************************************)
(* Asking, and loading the copy.                                           *)
(***************************************************************************)
LEMMA AskStep ==
    ASSUME IInv, NEW r \in Requests, Ask(r)
    PROVE  IInv'
<1>1. TypeOK /\ OneObject /\ req[r] \in Request /\ Honest(req[r])
  BY DEF IInv, TypeOK
<1>2. req[r].pc \in {"idle", "waiting"} /\ ~ req[r].served
  BY <1>1 DEF Ask, Honest
<1>3. CASE current = None
  <2> DEFINE q == [req[r] EXCEPT !.pc = "loading"]
  <2>1. Goto(r, q) /\ UNCHANGED probes
    BY <1>3 DEF Ask
  <2>2. q \in Request /\ q.pc = "loading" /\ q.obj = req[r].obj /\ q.served = req[r].served
    BY <1>1 DEF Request
  <2> HIDE DEF q
  <2>3. Honest(q)
    BY <1>2, <2>2 DEF Honest
  <2>4. QED
    BY <1>1, <2>1, <2>2, <2>3, GotoStep DEF Outside, TypeOK
<1>4. CASE current # None
  <2>1. UNCHANGED <<current, split>> /\ Decide(r, req[r], heap, current, current)
    BY <1>4 DEF Ask
  <2>2. current \in Ids /\ heap \in [Ids -> Record] /\ split' \in BOOLEAN
    BY <1>1, <1>4, <2>1 DEF TypeOK
  <2>3. ~ split' => /\ Whole(heap[current])
                    /\ \A s \in Requests \ {r} : req[s].obj \in {None, current}
                    /\ heap[current].state = "HALF_OPEN" => late \/ heap[current].successes <= proven
    BY <1>1, <1>4, <2>1 DEF OneObject, Earned
  <2>4. QED
    BY <1>1, <1>2, <2>1, <2>2, <2>3, DecideStep
<1>5. QED
  BY <1>3, <1>4

\* The Map got another object.
LEMMA Replaced ==
    ASSUME IInv, NEW r \in Requests, Replace(r, Fresh)
    PROVE  /\ Fresh \in Ids /\ current' = Fresh /\ current # Fresh
           /\ split' \in BOOLEAN /\ (split => split')
           /\ ~ split' => \A s \in Requests \ {r} : req[s].obj \in {None, Fresh}
<1>1. Fresh \in Ids /\ Fresh \notin Held(req, current)
  BY FreshIsFree DEF IInv
<1> DEFINE new == Fresh
<1> HIDE DEF new
<1>2. /\ current' = new
      /\ split' = (split \/ \E s \in Requests \ {r} : req[s].obj \notin {None, new})
  BY DEF Replace, new
<1>3. split \in BOOLEAN
  BY DEF IInv, TypeOK
<1>4. /\ split' \in BOOLEAN /\ (split => split')
      /\ ~ split' => \A s \in Requests \ {r} : req[s].obj \in {None, new}
  BY <1>2, <1>3
<1>5. current # Fresh
  BY <1>1 DEF Held
<1>6. QED
  BY <1>1, <1>2, <1>4, <1>5 DEF new

LEMMA LoadCopyStep ==
    ASSUME IInv, NEW r \in Requests, LoadCopy(r)
    PROVE  IInv'
<1>1. TypeOK /\ OneObject /\ req[r] \in Request /\ Honest(req[r])
  BY DEF IInv, TypeOK
<1> DEFINE new == Fresh
<1> DEFINE h == [heap EXCEPT ![new] = mirror]
<1> HIDE DEF new
<1>2. /\ req[r].pc = "loading" /\ mirror # None
      /\ Replace(r, Fresh)
      /\ Decide(r, req[r], h, new, new)
  BY DEF LoadCopy, new
<1>3. /\ new \in Ids /\ current' = new /\ current # new
      /\ split' \in BOOLEAN /\ (split => split')
      /\ ~ split' => \A s \in Requests \ {r} : req[s].obj \in {None, new}
  BY <1>2, Replaced DEF new
<1>4. h \in [Ids -> Record] /\ h[new] = mirror
  BY <1>1, <1>2, <1>3 DEF TypeOK
<1>5. ~ split' => Whole(mirror)
  BY <1>1, <1>2, <1>3 DEF OneObject
<1>6. ~ req[r].served
  BY <1>1, <1>2 DEF Honest
<1> HIDE DEF h
<1>7. QED
  BY <1>1, <1>2, <1>3, <1>4, <1>5, <1>6, DecideStep

LEMMA LoadNothingStep ==
    ASSUME IInv, NEW r \in Requests, LoadNothing(r)
    PROVE  IInv'
<1>1. TypeOK /\ OneObject /\ req[r] \in Request /\ Honest(req[r])
  BY DEF IInv, TypeOK
<1> DEFINE new == Fresh
<1> DEFINE h == [heap EXCEPT ![new] = InitialState]
<1> DEFINE me == [req[r] EXCEPT !.obj = new]
<1> HIDE DEF new
<1>2. /\ req[r].pc = "loading"
      /\ Replace(r, Fresh)
      /\ Persist(r, "storing", me, h, new)
      /\ UNCHANGED <<probes, proven, late>>
  BY DEF LoadNothing, new
<1>3. /\ new \in Ids /\ current' = new
      /\ split' \in BOOLEAN /\ (split => split')
      /\ ~ split' => \A s \in Requests \ {r} : req[s].obj \in {None, new}
  BY <1>2, Replaced DEF new
<1>4. InitialState \in Record /\ InitialState.state = "CLOSED"
  BY ResilienceAssumption DEF InitialState, Record
<1>5. h \in [Ids -> Record] /\ h[new] = InitialState
  BY <1>1, <1>3, <1>4 DEF TypeOK
<1>6. me \in Request /\ me.obj = new /\ me.served = req[r].served
  BY <1>1, <1>3 DEF Request
<1>7. ~ req[r].served
  BY <1>1, <1>2 DEF Honest
<1> HIDE DEF h, me
<1>8. ASSUME NEW ok \in BOOLEAN
      PROVE  Honest([me EXCEPT !.pc = "storing", !.ok = ok])
  <2>1. /\ [me EXCEPT !.pc = "storing", !.ok = ok].served = me.served
        /\ [me EXCEPT !.pc = "storing", !.ok = ok].pc = "storing"
    BY <1>6 DEF Request
  <2>2. QED
    BY <1>6, <1>7, <2>1 DEF Honest
<1>9. Whole(h[new]) /\ h[new].state # "HALF_OPEN"
  BY <1>4, <1>5 DEF Whole
<1>10. new # None
  BY <1>3, NoneIsNoId
<1>11. QED
  BY <1>1, <1>2, <1>3, <1>5, <1>6, <1>8, <1>9, <1>10, PersistStep DEF TypeOK

(***************************************************************************)
(* The steps that go on after an await, and write nothing.                 *)
(***************************************************************************)
LEMMA AtPc ==
    ASSUME NEW q \in Request, NEW pc, NEW ok
    PROVE  LET new == [q EXCEPT !.pc = pc, !.ok = ok]
           IN  new.pc = pc /\ new.obj = q.obj /\ new.served = q.served /\ new.retryable = q.retryable
BY DEF Request

LEMMA IdleIsHonest == Idle \in Request /\ Honest(Idle) /\ Idle.pc = "idle" /\ Idle.obj = None
BY ResilienceAssumption DEF Idle, Request, Honest

LEMMA EndsIdle ==
    ASSUME IInv, NEW r \in Requests, Goto(r, Idle), UNCHANGED probes
    PROVE  IInv'
BY IdleIsHonest, GotoStep DEF Outside, IInv, TypeOK

LEMMA StoredStep ==
    ASSUME IInv, NEW r \in Requests, Stored(r)
    PROVE  IInv'
<1>1. TypeOK /\ OneObject /\ req[r] \in Request /\ Honest(req[r])
  BY DEF IInv, TypeOK
<1>2. CASE req[r].ok
  <2>1. /\ req[r].pc = "storing" /\ UNCHANGED <<current, split>>
        /\ Decide(r, req[r], heap, req[r].obj, current)
    BY <1>2 DEF Stored
  <2>2. req[r].obj \in Ids /\ current \in Ids /\ ~ req[r].served
    BY <1>1, <2>1 DEF TypeOK, Request, Honest
  <2>3. ~ split' => /\ req[r].obj = current /\ Whole(heap[current])
                    /\ \A s \in Requests \ {r} : req[s].obj \in {None, current}
                    /\ heap[current].state = "HALF_OPEN" => late \/ heap[current].successes <= proven
    BY <1>1, <2>1, <2>2, NoneIsNoId DEF OneObject, Earned
  <2>4. heap \in [Ids -> Record] /\ split' \in BOOLEAN /\ (split => split')
    BY <1>1, <2>1 DEF TypeOK
  <2>5. QED
    BY <1>1, <2>1, <2>2, <2>3, <2>4, DecideStep
<1>3. CASE ~ req[r].ok
  BY <1>3, EndsIdle DEF Stored
<1>4. QED
  BY <1>2, <1>3

LEMMA AdmittedStep ==
    ASSUME IInv, NEW r \in Requests, Admitted(r)
    PROVE  IInv'
<1>1. TypeOK /\ req[r] \in Request /\ Honest(req[r])
  BY DEF IInv, TypeOK
<1>2. CASE req[r].ok
  <2> DEFINE q == [req[r] EXCEPT !.pc = "calling"]
  <2>1. req[r].pc = "admitting" /\ Goto(r, q) /\ Sent(r, heap[current].state)
    BY <1>2 DEF Admitted
  <2>2. q \in Request /\ q.pc = "calling" /\ q.obj = req[r].obj /\ q.served = req[r].served
    BY <1>1 DEF Request
  <2> HIDE DEF q
  <2>3. Honest(q) /\ q.obj # None /\ current # None
    BY <1>1, <2>1, <2>2 DEF Honest, TypeOK
  <2>4. probes' \subseteq Requests
    BY <1>1, <2>1 DEF Sent, TypeOK
  <2>5. QED
    BY <2>1, <2>2, <2>3, <2>4, GotoStep
<1>3. CASE ~ req[r].ok
  BY <1>3, EndsIdle DEF Admitted
<1>4. QED
  BY <1>2, <1>3

LEMMA FailedStep ==
    ASSUME IInv, NEW r \in Requests, Failed(r)
    PROVE  IInv'
<1>1. TypeOK /\ req[r] \in Request /\ Honest(req[r]) /\ probes \subseteq Requests
  BY DEF IInv, TypeOK
<1>2. CASE Retries(req[r])
  <2> DEFINE q == [Idle EXCEPT !.pc = "waiting", !.attempt = req[r].attempt + 1, !.served = req[r].served]
  <2>1. req[r].pc = "failing" /\ Goto(r, q) /\ UNCHANGED probes
    BY <1>2 DEF Failed
  <2>2. req[r].attempt + 1 \in 0..MaxRetries
    BY <1>1, <1>2, ResilienceAssumption DEF Retries, Request
  <2> DEFINE one == [Idle EXCEPT !.pc = "waiting"]
  <2> DEFINE two == [one EXCEPT !.attempt = req[r].attempt + 1]
  <2>3. req[r].served \in BOOLEAN
    BY <1>1 DEF Request
  <2>4. q \in Request /\ q.pc = "waiting" /\ q.obj = None /\ q.served = req[r].served
    <3>1. one \in Request /\ one.pc = "waiting" /\ one.obj = None
      BY IdleIsHonest DEF Request
    <3> HIDE DEF one
    <3>2. two \in Request /\ two.pc = "waiting" /\ two.obj = None
      BY <2>2, <3>1 DEF Request
    <3>3. q = [two EXCEPT !.served = req[r].served]
      BY DEF one
    <3> HIDE DEF two, q
    <3>4. QED
      BY <2>3, <3>2, <3>3 DEF Request
  <2> HIDE DEF q
  <2>5. ~ req[r].served
    BY <1>1, <1>2, <2>1 DEF Honest, Retries
  <2>6. Honest(q)
    BY <2>4, <2>5 DEF Honest
  <2>7. QED
    BY <1>1, <2>1, <2>4, <2>6, GotoStep DEF Outside
<1>3. CASE ~ Retries(req[r])
  BY <1>3, EndsIdle DEF Failed
<1>4. QED
  BY <1>2, <1>3

LEMMA LoadFailsStep ==
    ASSUME IInv, NEW r \in Requests, LoadFails(r)
    PROVE  IInv'
<1>1. TypeOK /\ OneObject
  BY DEF IInv
<1>2. /\ req' = [req EXCEPT ![r] = Idle] /\ UNCHANGED <<heap, current, mirror, probes, proven, late, split>>
      /\ mishaps' \in 0..MaxMishaps
  BY <1>1, ResilienceAssumption DEF LoadFails, history, TypeOK
<1>3. /\ req' \in [Requests -> Request] /\ req'[r] = Idle
      /\ \A s \in Requests \ {r} : req'[s] = req[s]
  BY <1>1, <1>2, IdleIsHonest DEF TypeOK
<1>4. TypeOK'
  BY <1>1, <1>2, <1>3, IdleIsHonest DEF TypeOK
<1>5. OneObject'
  BY <1>1, <1>2, <1>3, IdleIsHonest DEF OneObject, Earned
<1>6. \A s \in Requests : Honest(req'[s])
  BY <1>3, IdleIsHonest DEF IInv
<1>7. QED
  BY <1>4, <1>5, <1>6 DEF IInv

-----------------------------------------------------------------------------
(***************************************************************************)
(* The answer.  Until the objects split, the one that execute() changes is *)
(* the one that transitionTo changes.                                      *)
(***************************************************************************)
LEMMA Inside ==
    ASSUME IInv, NEW r \in Requests, req[r].pc \notin Outside
    PROVE  /\ req[r] \in Request /\ Honest(req[r])
           /\ req[r].obj \in Ids /\ req[r].obj # None /\ current \in Ids
           /\ heap[req[r].obj] \in Record /\ heap \in [Ids -> Record]
           /\ ~ split => /\ req[r].obj = current /\ Whole(heap[current])
                         /\ \A s \in Requests \ {r} : req[s].obj \in {None, current}
                         /\ heap[current].state = "HALF_OPEN" => late \/ heap[current].successes <= proven
<1>1. TypeOK /\ OneObject
  BY DEF IInv
<1>2. req[r] \in Request /\ Honest(req[r]) /\ req[r].obj # None /\ current # None
  BY <1>1 DEF IInv, TypeOK, Outside
<1>3. req[r].obj \in Ids /\ current \in Ids /\ heap \in [Ids -> Record]
  BY <1>1, <1>2 DEF TypeOK, Request
<1>4. QED
  BY <1>1, <1>2, <1>3 DEF OneObject, Earned

\* What an answer adds to the history.
LEMMA AnswerNoted ==
    ASSUME IInv, NEW r \in Requests, Succeed(r)
    PROVE  /\ probes' \subseteq Requests /\ proven' \in Nat /\ late' \in BOOLEAN
           /\ UNCHANGED <<current, split>>
           /\ heap[current].state = "HALF_OPEN" => late' \/ (proven' = proven + 1 /\ late' = late)
<1>1. /\ probes \subseteq Requests /\ proven \in Nat /\ late \in BOOLEAN
  BY DEF IInv, TypeOK
<1>2. /\ IF heap[current].state = "HALF_OPEN"
           THEN /\ proven' = IF r \in probes THEN proven + 1 ELSE proven
                /\ late' = (late \/ r \notin probes)
           ELSE UNCHANGED <<proven, late>>
      /\ probes' = probes \ {r}
      /\ UNCHANGED <<current, split>>
  BY DEF Succeed
<1>3. CASE heap[current].state # "HALF_OPEN"
  BY <1>1, <1>2, <1>3
<1>4. CASE heap[current].state = "HALF_OPEN" /\ r \in probes
  <2>1. proven' = proven + 1 /\ late' = late
    BY <1>1, <1>2, <1>4
  <2>2. QED
    BY <1>1, <1>2, <2>1
<1>5. CASE heap[current].state = "HALF_OPEN" /\ r \notin probes
  <2>1. proven' = proven /\ late' = TRUE
    BY <1>2, <1>5
  <2>2. QED
    BY <1>1, <1>2, <2>1
<1>6. QED
  BY <1>3, <1>4, <1>5

LEMMA SucceedStep ==
    ASSUME IInv, NEW r \in Requests, Succeed(r)
    PROVE  IInv'
<1> DEFINE i  == req[r].obj
<1> DEFINE me == [req[r] EXCEPT !.served = TRUE]
<1>0. req[r].pc = "calling"
  BY DEF Succeed
<1>1. /\ req[r] \in Request /\ i \in Ids /\ i # None /\ current \in Ids
      /\ heap[i] \in Record /\ heap \in [Ids -> Record]
      /\ ~ split => /\ i = current /\ Whole(heap[current])
                    /\ \A s \in Requests \ {r} : req[s].obj \in {None, current}
                    /\ heap[current].state = "HALF_OPEN" => late \/ heap[current].successes <= proven
  BY <1>0, Inside DEF Outside
<1>2. /\ probes' \subseteq Requests /\ proven' \in Nat /\ late' \in BOOLEAN
      /\ UNCHANGED <<current, split>> /\ split' \in BOOLEAN
      /\ heap[current].state = "HALF_OPEN" => late' \/ (proven' = proven + 1 /\ late' = late)
  BY AnswerNoted DEF IInv, TypeOK
<1>3. me \in Request /\ me.obj = i
  BY <1>1 DEF Request
<1>4. /\ heap[i].state = "HALF_OPEN" /\ Closes(i) =>
            Persist(r, "closing", me,
                Turned([heap EXCEPT ![i] = [@ EXCEPT !.state = "CLOSED", !.failures = 0,
                                            !.successes = 0]], current, "CLOSED"), current)
      /\ heap[i].state = "HALF_OPEN" /\ ~ Closes(i) =>
            Persist(r, "saving", me, [heap EXCEPT ![i] = [heap[i] EXCEPT !.successes = heap[i].successes + 1]], i)
      /\ heap[i].state # "HALF_OPEN" =>
            Persist(r, "saving", me, [heap EXCEPT ![i] = [heap[i] EXCEPT !.failures = 0]], i)
  BY DEF Succeed
<1> HIDE DEF me, i
<1>5. \A pc \in {"closing", "saving"} : \A ok \in BOOLEAN : Honest([me EXCEPT !.pc = pc, !.ok = ok])
  BY <1>3, AtPc DEF Honest
\* Any new heap that is in order will do.
<1>6. ASSUME NEW pc \in {"closing", "saving"}, NEW h \in [Ids -> Record], NEW j \in Ids,
             Persist(r, pc, me, h, j),
             ~ split => /\ Whole(h[j]) /\ Whole(h[current])
                        /\ h[current].state = "HALF_OPEN" => late' \/ h[current].successes <= proven'
      PROVE  IInv'
  <2>1. current' \in Ids /\ me.obj # None /\ (split => split')
    BY <1>1, <1>2, <1>3
  <2>2. ~ split' => /\ me.obj = current' /\ Whole(h[j]) /\ Whole(h[current'])
                    /\ \A s \in Requests \ {r} : req[s].obj \in {None, current'}
                    /\ h[current'].state = "HALF_OPEN" => late' \/ h[current'].successes <= proven'
    BY <1>1, <1>2, <1>3, <1>6
  <2>3. /\ pc \in {"storing", "admitting", "rejecting", "closing", "saving", "opening", "failing"}
        /\ \A ok \in BOOLEAN : Honest([me EXCEPT !.pc = pc, !.ok = ok])
    BY <1>5
  <2>4. me \in Request /\ probes' \subseteq Requests /\ proven' \in Nat /\ late' \in BOOLEAN /\ split' \in BOOLEAN
    BY <1>2, <1>3
  <2>5. QED
    BY <1>6, <2>1, <2>2, <2>3, <2>4, PersistStep
<1>7. CASE heap[i].state = "HALF_OPEN" /\ Closes(i)
  <2> DEFINE new == [heap[i] EXCEPT !.state = "CLOSED", !.failures = 0, !.successes = 0]
  <2> DEFINE g == [heap EXCEPT ![i] = new]
  <2> DEFINE h == Turned(g, current, "CLOSED")
  <2>1. new \in Record
    BY <1>1, Cleared
  <2>2. Persist(r, "closing", me, h, current)
    BY <1>4, <1>7
  <2> HIDE DEF new
  <2>3. g \in [Ids -> Record]
    BY <1>1, <2>1
  <2> HIDE DEF g
  <2>4. h \in [Ids -> Record] /\ h[current] = [g[current] EXCEPT !.state = "CLOSED"]
    BY <1>1, <2>3, TurnedTo
  <2>5. g[current] \in Record
    BY <1>1, <2>3
  <2>6. h[current].state = "CLOSED"
    BY <2>4, <2>5 DEF Record
  <2> HIDE DEF h
  <2>7. QED
    BY <1>1, <1>6, <2>2, <2>4, <2>6 DEF Whole
<1>8. CASE heap[i].state = "HALF_OPEN" /\ ~ Closes(i)
  <2> DEFINE new == [heap[i] EXCEPT !.successes = heap[i].successes + 1]
  <2> DEFINE h == [heap EXCEPT ![i] = new]
  <2>1. heap[i].successes \in Nat /\ heap[i].successes + 1 \in 0..(SuccessThreshold - 1)
    BY <1>1, <1>8, ResilienceAssumption DEF Closes, Record
  <2>2. new \in Record /\ new.state = heap[i].state /\ new.successes = heap[i].successes + 1
    BY <1>1, <2>1 DEF Record
  <2>3. Persist(r, "saving", me, h, i)
    BY <1>4, <1>8
  <2> HIDE DEF new
  <2>4. h \in [Ids -> Record] /\ h[i] = new
    BY <1>1, <2>2
  <2> HIDE DEF h
  <2>5. Whole(h[i])
    BY <1>8, <2>2, <2>4 DEF Whole
  <2>6. ~ split => late' \/ h[i].successes <= proven'
    <3>1. proven \in Nat
      BY DEF IInv, TypeOK
    <3>2. QED
      BY <1>1, <1>2, <1>8, <2>1, <2>2, <2>4, <3>1
  <2>7. QED
    BY <1>1, <1>6, <2>3, <2>4, <2>5, <2>6
<1>9. CASE heap[i].state # "HALF_OPEN"
  <2> DEFINE new == [heap[i] EXCEPT !.failures = 0]
  <2> DEFINE h == [heap EXCEPT ![i] = new]
  <2>1. new \in Record /\ new.state = heap[i].state /\ new.last = heap[i].last
    BY <1>1 DEF Record
  <2>2. Persist(r, "saving", me, h, i)
    BY <1>4, <1>9
  <2> HIDE DEF new
  <2>3. h \in [Ids -> Record] /\ h[i] = new
    BY <1>1, <2>1
  <2> HIDE DEF h
  <2>4. ~ split => Whole(h[i])
    BY <1>1, <2>1, <2>3 DEF Whole
  <2>5. QED
    BY <1>1, <1>6, <1>9, <2>1, <2>2, <2>3, <2>4
<1>10. QED
  BY <1>7, <1>8, <1>9

(***************************************************************************)
(* The catch of execute().                                                 *)
(***************************************************************************)
LEMMA NotedTo ==
    ASSUME NEW h \in [Ids -> Record], NEW i \in Ids
    PROVE  /\ Noted(h, i) \in [Ids -> Record]
           /\ Noted(h, i)[i].last = "recent" /\ Noted(h, i)[i].state = h[i].state
<1> DEFINE new == [h[i] EXCEPT !.last = "recent"]
<1>1. new \in Record /\ new.last = "recent" /\ new.state = h[i].state
  <2>1. h[i] \in Record
    OBVIOUS
  <2>2. QED
    BY <2>1 DEF Record
<1>2. Noted(h, i) = [h EXCEPT ![i] = new]
  BY DEF Noted
<1> HIDE DEF new
<1>3. QED
  BY <1>1, <1>2, Written

\* The two ways its counters change.
LEMMA CountersCleared ==
    ASSUME NEW h \in [Ids -> Record], NEW i \in Ids, h[i].last = "recent"
    PROVE  LET g == [h EXCEPT ![i].failures = 0, ![i].successes = 0]
           IN  g \in [Ids -> Record] /\ g[i].last = "recent"
<1> DEFINE one == [h[i] EXCEPT !.failures = 0]
<1> DEFINE two == [one EXCEPT !.successes = 0]
<1> DEFINE half == [h EXCEPT ![i] = one]
<1>1. 0 \in 0..(SuccessThreshold - 1)
  BY ResilienceAssumption
<1>2. one \in Record /\ one.last = "recent"
  <2>1. h[i] \in Record
    OBVIOUS
  <2>2. QED
    BY <2>1 DEF Record
<1>3. [h EXCEPT ![i].failures = 0, ![i].successes = 0] = [half EXCEPT ![i] = [half[i] EXCEPT !.successes = 0]]
  OBVIOUS
<1> HIDE DEF one
<1>4. two \in Record /\ two.last = "recent"
  BY <1>1, <1>2 DEF Record
<1>5. half \in [Ids -> Record] /\ half[i] = one
  BY <1>2
<1> HIDE DEF half
<1>6. QED
  BY <1>3, <1>4, <1>5

LEMMA FailureCounted ==
    ASSUME NEW h \in [Ids -> Record], NEW i \in Ids, h[i].last = "recent"
    PROVE  LET g == [h EXCEPT ![i].failures = @ + 1]
           IN  /\ g \in [Ids -> Record] /\ g[i].last = "recent" /\ g[i].state = h[i].state
<1> DEFINE new == [h[i] EXCEPT !.failures = h[i].failures + 1]
<1>1. new \in Record /\ new.last = "recent" /\ new.state = h[i].state
  <2>1. h[i] \in Record
    OBVIOUS
  <2>2. QED
    BY <2>1 DEF Record
<1>2. [h EXCEPT ![i].failures = @ + 1] = [h EXCEPT ![i] = new]
  OBVIOUS
<1> HIDE DEF new
<1>3. QED
  BY <1>1, <1>2

LEMMA FailureStep ==
    ASSUME IInv, NEW r \in Requests, NEW retryable \in BOOLEAN, Failure(r, retryable),
           req[r].pc \notin Outside, req[r].served => ~ retryable
    PROVE  IInv'
<1> DEFINE i  == req[r].obj
<1> DEFINE h  == Noted(heap, i)
<1> DEFINE me == [req[r] EXCEPT !.retryable = retryable]
<1>1. /\ req[r] \in Request /\ i \in Ids /\ i # None /\ current \in Ids
      /\ heap \in [Ids -> Record]
      /\ ~ split => /\ i = current
                    /\ \A s \in Requests \ {r} : req[s].obj \in {None, current}
  BY Inside
<1>2. /\ probes' \subseteq Requests /\ proven' \in Nat /\ late' \in BOOLEAN
      /\ UNCHANGED <<current, split>> /\ split' \in BOOLEAN
  BY DEF Failure, IInv, TypeOK
<1>3. me \in Request /\ me.obj = i /\ me.served = req[r].served /\ me.retryable = retryable
  BY <1>1 DEF Request
<1>4. h \in [Ids -> Record] /\ h[i].last = "recent"
  BY <1>1, NotedTo
<1>5. \/ Persist(r, "opening", me, Turned([h EXCEPT ![i].failures = 0, ![i].successes = 0], current, "OPEN"), current)
      \/ Persist(r, "opening", me, Turned([h EXCEPT ![i].failures = @ + 1], current, "OPEN"), current)
      \/ h[i].state = "CLOSED" /\ Persist(r, "failing", me, [h EXCEPT ![i].failures = @ + 1], i)
      \/ h[i].state # "HALF_OPEN" /\ Persist(r, "failing", me, h, i)
  BY DEF Failure
<1> HIDE DEF me, h, i
<1>6. \A pc \in {"opening", "failing"} : \A ok \in BOOLEAN : Honest([me EXCEPT !.pc = pc, !.ok = ok])
  BY <1>3, AtPc DEF Honest
\* A transition to OPEN of what has a fresh failure.
<1>7. ASSUME NEW g \in [Ids -> Record], g[i].last = "recent",
             Persist(r, "opening", me, Turned(g, current, "OPEN"), current)
      PROVE  IInv'
  <2> DEFINE f == Turned(g, current, "OPEN")
  <2>1. f \in [Ids -> Record] /\ f[current] = [g[current] EXCEPT !.state = "OPEN"]
    BY <1>1, TurnedTo
  <2>2. g[current] \in Record
    BY <1>1
  <2>3. f[current].state = "OPEN" /\ f[current].last = g[current].last
    BY <2>1, <2>2 DEF Record
  <2>4. Persist(r, "opening", me, f, current)
    BY <1>7
  <2> HIDE DEF f
  <2>5. current' \in Ids /\ me.obj # None /\ (split => split')
    BY <1>1, <1>2, <1>3
  <2>6. ~ split' => /\ me.obj = current' /\ Whole(f[current])
                    /\ \A s \in Requests \ {r} : req[s].obj \in {None, current'}
                    /\ Whole(f[current']) /\ f[current'].state # "HALF_OPEN"
    BY <1>1, <1>2, <1>3, <1>7, <2>3 DEF Whole
  <2>7. QED
    BY <1>1, <1>2, <1>3, <1>6, <2>1, <2>4, <2>5, <2>6, PersistStep
\* A failure that is only noted.
<1>8. ASSUME NEW g \in [Ids -> Record], g[i].last = "recent", g[i].state # "HALF_OPEN",
             Persist(r, "failing", me, g, i)
      PROVE  IInv'
  <2>1. current' \in Ids /\ me.obj # None /\ (split => split')
    BY <1>1, <1>2, <1>3
  <2>2. ~ split' => /\ me.obj = current' /\ Whole(g[i])
                    /\ \A s \in Requests \ {r} : req[s].obj \in {None, current'}
                    /\ Whole(g[current']) /\ g[current'].state # "HALF_OPEN"
    BY <1>1, <1>2, <1>3, <1>8 DEF Whole
  <2>3. QED
    BY <1>1, <1>2, <1>3, <1>6, <1>8, <2>1, <2>2, PersistStep
<1>9. CASE Persist(r, "opening", me, Turned([h EXCEPT ![i].failures = 0, ![i].successes = 0], current, "OPEN"), current)
  <2> DEFINE g == [h EXCEPT ![i].failures = 0, ![i].successes = 0]
  <2>1. g \in [Ids -> Record] /\ g[i].last = "recent"
    BY <1>1, <1>4, CountersCleared
  <2>2. Persist(r, "opening", me, Turned(g, current, "OPEN"), current)
    BY <1>9
  <2> HIDE DEF g
  <2>3. QED
    BY <1>7, <2>1, <2>2
<1>10. CASE \/ Persist(r, "opening", me, Turned([h EXCEPT ![i].failures = @ + 1], current, "OPEN"), current)
            \/ h[i].state = "CLOSED" /\ Persist(r, "failing", me, [h EXCEPT ![i].failures = @ + 1], i)
  <2> DEFINE g == [h EXCEPT ![i].failures = @ + 1]
  <2>1. g \in [Ids -> Record] /\ g[i].last = "recent" /\ g[i].state = h[i].state
    BY <1>1, <1>4, FailureCounted
  <2>2. \/ Persist(r, "opening", me, Turned(g, current, "OPEN"), current)
        \/ h[i].state = "CLOSED" /\ Persist(r, "failing", me, g, i)
    BY <1>10
  <2> HIDE DEF g
  <2>3. QED
    BY <1>7, <1>8, <2>1, <2>2
<1>11. CASE h[i].state # "HALF_OPEN" /\ Persist(r, "failing", me, h, i)
  BY <1>4, <1>8, <1>11
<1>12. QED
  BY <1>5, <1>9, <1>10, <1>11

(***************************************************************************)
(* The kept object is written once the transition is.                      *)
(***************************************************************************)
LEMMA KeptWritten ==
    ASSUME IInv, NEW r \in Requests, NEW pc \in {"saving", "failing"},
           req[r].pc \notin Outside, pc = "failing" => req[r].pc = "opening",
           UNCHANGED <<current, history>>, Persist(r, pc, req[r], heap, req[r].obj)
    PROVE  IInv'
<1>1. /\ req[r] \in Request /\ Honest(req[r])
      /\ req[r].obj \in Ids /\ req[r].obj # None /\ current \in Ids
      /\ heap \in [Ids -> Record]
      /\ ~ split => /\ req[r].obj = current /\ Whole(heap[current])
                    /\ \A s \in Requests \ {r} : req[s].obj \in {None, current}
                    /\ heap[current].state = "HALF_OPEN" => late \/ heap[current].successes <= proven
  BY Inside
<1>2. /\ UNCHANGED <<current, probes, proven, late, split>>
      /\ probes' \subseteq Requests /\ proven' \in Nat /\ late' \in BOOLEAN /\ split' \in BOOLEAN
  BY DEF history, IInv, TypeOK
<1>3. \A ok \in BOOLEAN : Honest([req[r] EXCEPT !.pc = pc, !.ok = ok])
  BY <1>1, AtPc DEF Honest
<1>4. current' \in Ids /\ (split => split')
  BY <1>1, <1>2
<1> DEFINE me == req[r]
<1> DEFINE i == req[r].obj
<1>5. /\ me \in Request /\ i \in Ids /\ me.obj = i /\ me.obj # None
      /\ Persist(r, pc, me, heap, i)
      /\ \A ok \in BOOLEAN : Honest([me EXCEPT !.pc = pc, !.ok = ok])
  BY <1>1, <1>3
<1>6. ~ split' => /\ me.obj = current' /\ Whole(heap[i])
                  /\ \A s \in Requests \ {r} : req[s].obj \in {None, current'}
                  /\ Whole(heap[current'])
                  /\ heap[current'].state = "HALF_OPEN" => late' \/ heap[current'].successes <= proven'
  BY <1>1, <1>2
<1>7. pc \in {"storing", "admitting", "rejecting", "closing", "saving", "opening", "failing"}
  OBVIOUS
<1>8. heap \in [Ids -> Record]
  BY <1>1
<1> HIDE DEF me, i
<1>9. QED
  BY <1>2, <1>4, <1>5, <1>6, <1>7, <1>8, PersistStep

LEMMA AnsweredStep ==
    ASSUME IInv, NEW r \in Requests, Fail(r) \/ Closed(r) \/ Saved(r) \/ Opened(r)
    PROVE  IInv'
<1>1. CASE Fail(r)
  <2>1. req[r].pc = "calling"
    BY <1>1 DEF Fail
  <2>2. ~ req[r].served
    BY <2>1 DEF IInv, Honest
  <2>3. PICK retryable \in BOOLEAN : Failure(r, retryable)
    BY <1>1 DEF Fail
  <2>4. QED
    BY <2>1, <2>2, <2>3, FailureStep DEF Outside
<1>2. CASE Closed(r)
  <2>1. req[r].pc = "closing"
    BY <1>2 DEF Closed
  <2>2. CASE req[r].ok
    BY <1>2, <2>1, <2>2, KeptWritten DEF Closed, Outside
  <2>3. CASE ~ req[r].ok
    BY <1>2, <2>1, <2>3, FailureStep DEF Closed, Outside
  <2>4. QED
    BY <2>2, <2>3
<1>3. CASE Saved(r)
  <2>1. req[r].pc = "saving"
    BY <1>3 DEF Saved
  <2>2. CASE req[r].ok
    BY <1>3, <2>2, EndsIdle DEF Saved
  <2>3. CASE ~ req[r].ok
    BY <1>3, <2>1, <2>3, FailureStep DEF Saved, Outside
  <2>4. QED
    BY <2>2, <2>3
<1>4. CASE Opened(r)
  <2>1. req[r].pc = "opening"
    BY <1>4 DEF Opened
  <2>2. CASE req[r].ok
    BY <1>4, <2>1, <2>2, KeptWritten DEF Opened, Outside
  <2>3. CASE ~ req[r].ok
    BY <1>4, <2>3, EndsIdle DEF Opened
  <2>4. QED
    BY <2>2, <2>3
<1>5. QED
  BY <1>1, <1>2, <1>3, <1>4

-----------------------------------------------------------------------------
(***************************************************************************)
(* The surroundings: time, the copy's expiry, resets and restarts.         *)
(***************************************************************************)
LEMMA AgedStays ==
    ASSUME NEW record \in Record
    PROVE  /\ Aged(record) \in Record
           /\ Aged(record).state = record.state /\ Aged(record).successes = record.successes
           /\ Whole(record) => Whole(Aged(record))
<1>1. CASE record.last = "recent"
  <2> DEFINE new == [record EXCEPT !.last = "old"]
  <2>1. new \in Record /\ new.state = record.state /\ new.successes = record.successes /\ new.last = "old"
    BY DEF Record
  <2>2. Aged(record) = new
    BY <1>1 DEF Aged
  <2> HIDE DEF new
  <2>3. QED
    BY <2>1, <2>2 DEF Whole
<1>2. CASE record.last # "recent"
  BY <1>2 DEF Aged
<1>3. QED
  BY <1>1, <1>2

LEMMA TimePassesStep == IInv /\ TimePasses => IInv'
<1> SUFFICES ASSUME IInv, TimePasses
             PROVE  IInv'
  OBVIOUS
<1>1. TypeOK /\ OneObject
  BY DEF IInv
<1>2. /\ heap' = [i \in Ids |-> Aged(heap[i])]
      /\ mirror' = IF mirror = None THEN None ELSE Aged(mirror)
      /\ UNCHANGED <<current, req, mishaps, probes, proven, late, split>>
  BY DEF TimePasses, history
<1>3. \A i \in Ids : heap[i] \in Record
  BY <1>1 DEF TypeOK
<1>4. heap' \in [Ids -> Record]
  BY <1>2, <1>3, AgedStays
<1>5. mirror # None => mirror \in Record
  BY <1>1 DEF TypeOK
<1>6. /\ mirror' \in Record \cup {None}
      /\ mirror' # None => mirror # None /\ (Whole(mirror) => Whole(mirror'))
  BY <1>2, <1>5, AgedStays
<1>7. TypeOK'
  BY <1>1, <1>2, <1>4, <1>6 DEF TypeOK
<1>8. OneObject'
  <2> SUFFICES ASSUME ~ split
               PROVE  /\ current # None => Whole(heap'[current])
                      /\ mirror' # None => Whole(mirror')
                      /\ current # None /\ heap'[current].state = "HALF_OPEN" =>
                            late \/ heap'[current].successes <= proven
    BY <1>1, <1>2 DEF OneObject, Earned
  <2>1. mirror' # None => Whole(mirror')
    BY <1>1, <1>6 DEF OneObject
  <2>2. current # None => heap'[current] = Aged(heap[current]) /\ heap[current] \in Record
    BY <1>1, <1>2, <1>3 DEF TypeOK
  <2>3. QED
    BY <1>1, <2>1, <2>2, AgedStays DEF OneObject, Earned
<1>9. \A r \in Requests : Honest(req'[r])
  BY <1>2 DEF IInv
<1>10. QED
  BY <1>7, <1>8, <1>9 DEF IInv

LEMMA SurroundingsStep == IInv /\ (CopyExpires \/ Reset \/ Restart) => IInv'
<1> SUFFICES ASSUME IInv, CopyExpires \/ Reset \/ Restart
             PROVE  IInv'
  OBVIOUS
<1>1. TypeOK /\ OneObject
  BY DEF IInv
<1>2. InitialState \in Record /\ InitialState.state = "CLOSED"
  BY ResilienceAssumption DEF InitialState, Record
<1>3. CASE CopyExpires
  <2>1. mirror' = None /\ UNCHANGED <<heap, current, req, mishaps, probes, proven, late, split>>
    BY <1>3 DEF CopyExpires, history
  <2>2. TypeOK'
    BY <1>1, <2>1 DEF TypeOK
  <2>3. OneObject'
    BY <1>1, <2>1 DEF OneObject, Earned
  <2>4. QED
    BY <2>1, <2>2, <2>3 DEF IInv
<1>4. CASE Reset
  <2> DEFINE new == Fresh
  <2>1. new \in Ids /\ new # None
    BY <1>1, FreshIsFree, NoneIsNoId
  <2> DEFINE h == [heap EXCEPT ![new] = InitialState]
  <2>2. /\ current' = new /\ UNCHANGED <<req, probes, proven, late>>
        /\ split' = (split \/ \E s \in Requests : req[s].obj # None)
        /\ heap' = Collected(h, req, new)
        /\ mirror' \in {InitialState, mirror}
    BY <1>4 DEF Reset
  <2> HIDE DEF new
  <2>3. mishaps' \in 0..MaxMishaps
    BY <1>1, <1>4, ResilienceAssumption DEF Reset, TypeOK
  <2>4. h \in [Ids -> Record] /\ h[new] = InitialState
    BY <1>1, <1>2, <2>1 DEF TypeOK
  <2> HIDE DEF h
  <2>5. heap' \in [Ids -> Record] /\ heap'[new] = InitialState
    BY <2>1, <2>2, <2>4, CollectedKeeps
  <2>6. split' \in BOOLEAN /\ (~ split' => ~ split /\ \A s \in Requests : req[s].obj = None)
    BY <1>1, <2>2 DEF TypeOK
  <2>7. TypeOK'
    BY <1>1, <1>2, <2>1, <2>2, <2>3, <2>5, <2>6 DEF TypeOK
  <2>8. OneObject'
    <3>1. ~ split' /\ mirror' # None => Whole(mirror')
      BY <1>1, <1>2, <2>2, <2>6 DEF OneObject, Whole
    <3>2. QED
      BY <1>2, <2>1, <2>2, <2>5, <2>6, <3>1 DEF OneObject, Earned, Whole
  <2>9. QED
    BY <2>2, <2>7, <2>8 DEF IInv
<1>5. CASE Restart
  <2>1. /\ current' = None /\ req' = [r \in Requests |-> Idle]
        /\ heap' = [i \in Ids |-> InitialState]
        /\ UNCHANGED <<mirror, probes, proven, late, split>>
        /\ mishaps' \in 0..MaxMishaps
    BY <1>1, <1>5, ResilienceAssumption DEF Restart, history, TypeOK
  <2>2. TypeOK'
    BY <1>1, <1>2, <2>1, IdleIsHonest DEF TypeOK
  <2>3. OneObject'
    BY <1>1, <2>1, IdleIsHonest DEF OneObject, Earned
  <2>4. QED
    BY <2>1, <2>2, <2>3, IdleIsHonest DEF IInv
<1>6. QED
  BY <1>3, <1>4, <1>5

LEMMA RequestStep ==
    ASSUME IInv, NEW r \in Requests, Ask(r) \/ Continue(r)
    PROVE  IInv'
BY AskStep, LoadCopyStep, LoadNothingStep, LoadFailsStep, StoredStep, AdmittedStep, EndsIdle,
   SucceedStep, AnsweredStep, FailedStep DEF Continue, Rejected

-----------------------------------------------------------------------------
(***************************************************************************)
(* The invariant holds.                                                    *)
(***************************************************************************)
LEMMA InvariantStarts == Init => IInv
<1> SUFFICES ASSUME Init
             PROVE  IInv
  OBVIOUS
<1>1. InitialState \in Record
  BY ResilienceAssumption DEF InitialState, Record
<1>2. TypeOK
  <2>1. heap \in [Ids -> Record] /\ req \in [Requests -> Request]
    BY <1>1, IdleIsHonest DEF Init
  <2>2. \A r \in Requests : req[r].pc = "idle"
    BY IdleIsHonest DEF Init
  <2>3. mishaps \in 0..MaxMishaps
    BY ResilienceAssumption DEF Init
  <2>4. /\ current \in Ids \cup {None} /\ mirror \in Record \cup {None}
        /\ probes \subseteq Requests /\ proven \in Nat /\ late \in BOOLEAN /\ split \in BOOLEAN
    BY DEF Init
  <2>5. QED
    BY <2>1, <2>2, <2>3, <2>4 DEF TypeOK
<1>3. OneObject
  BY IdleIsHonest DEF Init, OneObject, Earned
<1>4. QED
  BY <1>2, <1>3, IdleIsHonest DEF Init, IInv

LEMMA InvariantStays == IInv /\ [Next]_vars => IInv'
<1>1. IInv /\ Next => IInv'
  BY RequestStep, TimePassesStep, SurroundingsStep DEF Next
<1>2. IInv /\ UNCHANGED vars => IInv'
  BY DEF vars, IInv, TypeOK, OneObject, Earned
<1>3. QED
  BY <1>1, <1>2

(***************************************************************************)
(* Every state the breaker reaches is well typed; until it has split, the  *)
(* Map's object is the one every request inside execute() keeps, and each  *)
(* request's progress is one executeWithRetry() can be at.                 *)
(***************************************************************************)
THEOREM ResilienceInvariant == Spec => []IInv
BY InvariantStarts, InvariantStays, PTL DEF Spec

(***************************************************************************)
(* The breaker's objects, its copy and the requests are well typed: whoever*)
(* is inside execute() has an object, and so has the Map.                  *)
(***************************************************************************)
THEOREM ResilienceTypeCorrect == Spec => []TypeOK
<1>1. IInv => TypeOK
  BY DEF IInv
<1>2. QED
  BY <1>1, ResilienceInvariant, PTL

(***************************************************************************)
(* An open breaker knows when it failed, so its recovery timeout can pass: *)
(* only transitionTo writing to another object than the one execute() kept *)
(* can leave it open with no failure time.                                 *)
(***************************************************************************)
THEOREM OpenBreakersCanRecover == Spec => []OpenCanRecover
<1>1. IInv => OpenCanRecover
  BY DEF IInv, OneObject, Whole, OpenCanRecover
<1>2. QED
  BY <1>1, ResilienceInvariant, PTL

-----------------------------------------------------------------------------
(***************************************************************************)
(* What a step of a request does to the object in the Map, unless it gets  *)
(* another one: it closes a half-open breaker only in Succeed.             *)
(***************************************************************************)
LEMMA PersistLeaves ==
    ASSUME NEW r, NEW pc, NEW changes, NEW h \in [Ids -> Record], NEW i,
           Persist(r, pc, changes, h, i), current' \in Ids
    PROVE  heap'[current'] = h[current']
BY CollectedKeeps DEF Persist

LEMMA GotoLeaves ==
    ASSUME TypeOK, NEW r, NEW q, Goto(r, q), current # None
    PROVE  heap'[current] = heap[current]
BY CollectedKeeps DEF Goto, TypeOK

LEMMA DecideLeaves ==
    ASSUME NEW r, NEW changes, NEW h \in [Ids -> Record], NEW c \in Ids,
           current' = c, Decide(r, changes, h, c, c)
    PROVE  heap'[c] = h[c] \/ heap'[c].state = "HALF_OPEN"
<1> DEFINE g == HalfOpened(h, c, c)
<1>1. g \in [Ids -> Record] /\ g[c].state = "HALF_OPEN"
  BY HalfOpenedTo
<1>2. \/ \E changed : Persist(r, "admitting", changed, g, c)
      \/ \E changed : Persist(r, "rejecting", changed, h, c)
      \/ heap' = Collected(h, req', c)
  BY DEF Decide
<1> HIDE DEF g
<1>3. QED
  BY <1>1, <1>2, PersistLeaves, CollectedKeeps

LEMMA FailureOpens ==
    ASSUME IInv, ~ split, NEW r \in Requests, NEW retryable, Failure(r, retryable),
           req[r].pc \notin Outside, heap[current].state = "HALF_OPEN"
    PROVE  heap'[current].state = "OPEN"
<1> DEFINE i == req[r].obj
<1> DEFINE h == Noted(heap, i)
<1> DEFINE g == [h EXCEPT ![i].failures = 0, ![i].successes = 0]
<1>1. i \in Ids /\ current \in Ids /\ i = current /\ heap \in [Ids -> Record]
  BY Inside
<1>2. h \in [Ids -> Record] /\ h[i].last = "recent" /\ h[i].state = "HALF_OPEN"
  BY <1>1, NotedTo
<1>3. UNCHANGED current /\ \E me : Persist(r, "opening", me, Turned(g, current, "OPEN"), current)
  BY <1>2 DEF Failure
<1> HIDE DEF h, i
<1>4. g \in [Ids -> Record]
  BY <1>1, <1>2, CountersCleared
<1> HIDE DEF g
<1> DEFINE f == Turned(g, current, "OPEN")
<1>5. f \in [Ids -> Record] /\ f[current] = [g[current] EXCEPT !.state = "OPEN"] /\ g[current] \in Record
  BY <1>1, <1>4, TurnedTo
<1>6. f[current].state = "OPEN"
  BY <1>5 DEF Record
<1>7. PICK me : Persist(r, "opening", me, f, current)
  BY <1>3
<1> HIDE DEF f
<1>8. current' = current /\ current' \in Ids /\ f \in [Ids -> Record]
  BY <1>1, <1>3, <1>5
<1>9. heap'[current'] = f[current']
  BY <1>7, <1>8, PersistLeaves
<1>10. QED
  BY <1>6, <1>8, <1>9

LEMMA OnlySuccessCloses ==
    ASSUME IInv, Next, ~ split, current # None, current' = current,
           heap[current].state = "HALF_OPEN", heap'[current].state = "CLOSED"
    PROVE  \E r \in Requests : Succeed(r)
<1>1. TypeOK /\ OneObject /\ current \in Ids /\ heap \in [Ids -> Record]
  BY DEF IInv, TypeOK
<1>2. ASSUME NEW r \in Requests, Ask(r)
      PROVE  FALSE
  <2>1. Decide(r, req[r], heap, current, current)
    BY <1>2 DEF Ask
  <2>2. QED
    BY <1>1, <2>1, DecideLeaves
<1>3. ASSUME NEW r \in Requests, LoadCopy(r) \/ LoadNothing(r)
      PROVE  FALSE
  <2>1. Replace(r, Fresh)
    BY <1>3 DEF LoadCopy, LoadNothing
  <2>2. QED
    BY <2>1, Replaced
<1>4. ASSUME NEW r \in Requests, Stored(r)
      PROVE  FALSE
  <2>1. CASE req[r].ok
    <3>1. req[r].pc = "storing" /\ Decide(r, req[r], heap, req[r].obj, current)
      BY <1>4, <2>1 DEF Stored
    <3>2. req[r].obj = current
      BY <3>1, Inside DEF Outside
    <3>3. QED
      BY <1>1, <3>1, <3>2, DecideLeaves
  <2>2. CASE ~ req[r].ok
    BY <1>1, <1>4, <2>2, GotoLeaves DEF Stored
  <2>3. QED
    BY <2>1, <2>2
<1>5. ASSUME NEW r \in Requests, LoadFails(r) \/ Admitted(r) \/ Rejected(r) \/ Failed(r)
      PROVE  FALSE
  <2>1. UNCHANGED heap \/ \E q : Goto(r, q)
    BY <1>5 DEF LoadFails, Admitted, Rejected, Failed
  <2>2. QED
    BY <1>1, <2>1, GotoLeaves
<1>6. ASSUME NEW r \in Requests, Fail(r) \/ Closed(r) \/ Saved(r) \/ Opened(r)
      PROVE  FALSE
  <2>1. req[r].pc \notin Outside
    BY <1>6 DEF Fail, Closed, Saved, Opened, Outside
  <2>2. \/ \E retryable : Failure(r, retryable)
        \/ \E pc : Persist(r, pc, req[r], heap, req[r].obj)
        \/ \E q : Goto(r, q)
    BY <1>6 DEF Fail, Closed, Saved, Opened
  <2>3. QED
    BY <1>1, <2>1, <2>2, FailureOpens, PersistLeaves, GotoLeaves
<1>7. CASE TimePasses
  <2>1. heap'[current] = Aged(heap[current])
    BY <1>1, <1>7 DEF TimePasses
  <2>2. QED
    BY <1>1, <2>1, AgedStays
<1>8. CASE CopyExpires \/ Restart
  BY <1>8 DEF CopyExpires, Restart
<1>9. CASE Reset
  <2>1. Fresh # current
    BY <1>1, FreshIsFree DEF Held
  <2>2. QED
    BY <1>9, <2>1 DEF Reset
<1>10. QED
  BY <1>2, <1>3, <1>4, <1>5, <1>6, <1>7, <1>8, <1>9 DEF Next, Continue

\* The success that closes it is the one that completes the count.
LEMMA ClosingCompletes ==
    ASSUME IInv, ~ split, NEW r \in Requests, Succeed(r),
           heap[current].state = "HALF_OPEN", heap'[current].state = "CLOSED"
    PROVE  heap[current].successes + 1 >= SuccessThreshold
<1> SUFFICES ASSUME ~ (heap[current].successes + 1 >= SuccessThreshold)
             PROVE  FALSE
  OBVIOUS
<1>1. req[r].pc = "calling" /\ UNCHANGED current
  BY DEF Succeed
<1>2. /\ req[r].obj = current /\ current \in Ids
      /\ heap[current] \in Record /\ heap \in [Ids -> Record]
  BY <1>1, Inside DEF Outside
<1> DEFINE new == [heap[current] EXCEPT !.successes = heap[current].successes + 1]
<1> DEFINE h == [heap EXCEPT ![current] = new]
<1>3. \E me : Persist(r, "saving", me, h, current)
  BY <1>2 DEF Succeed, Closes
<1>4. new \in Record /\ new.state = "HALF_OPEN"
  <2>1. heap[current].successes \in Nat /\ heap[current].successes + 1 \in 0..(SuccessThreshold - 1)
    BY <1>2, ResilienceAssumption DEF Record
  <2>2. QED
    BY <1>2, <2>1 DEF Record
<1> HIDE DEF new
<1>5. h \in [Ids -> Record] /\ h[current].state = "HALF_OPEN"
  BY <1>2, <1>4
<1> HIDE DEF h
<1>6. QED
  BY <1>1, <1>2, <1>3, <1>5, PersistLeaves

(***************************************************************************)
(* A half-open breaker closes only after SuccessThreshold good answers to  *)
(* its probes, or with a noted answer to an earlier call (onSuccess).      *)
(***************************************************************************)
THEOREM ProbesClose == Spec => ClosedByProbes
<1>1. IInv /\ [Next]_vars =>
        (current # None /\ current' = current
            /\ heap[current].state = "HALF_OPEN" /\ heap'[current].state = "CLOSED"
         => proven' >= SuccessThreshold \/ late' \/ split)
  <2> SUFFICES ASSUME IInv, [Next]_vars, ~ split, current # None, current' = current,
                      heap[current].state = "HALF_OPEN", heap'[current].state = "CLOSED"
               PROVE  proven' >= SuccessThreshold \/ late'
    OBVIOUS
  <2>1. Next
    BY DEF vars
  <2>2. PICK r \in Requests : Succeed(r)
    BY <2>1, OnlySuccessCloses
  <2>3. heap[current].successes + 1 >= SuccessThreshold
    BY <2>2, ClosingCompletes
  <2>4. late \/ heap[current].successes <= proven
    BY DEF IInv, OneObject, Earned
  <2>5. late' \/ (proven' = proven + 1 /\ late' = late)
    BY <2>2, AnswerNoted
  <2>6. heap[current].successes \in Nat /\ proven \in Nat /\ SuccessThreshold \in Nat
    BY ResilienceAssumption DEF IInv, TypeOK, Record
  <2>7. QED
    BY <2>3, <2>4, <2>5, <2>6
<1>2. QED
  BY <1>1, ResilienceInvariant, PTL DEF Spec, ClosedByProbes

(***************************************************************************)
(* A step of a request leaves the others' place in execute() alone.        *)
(***************************************************************************)
LEMMA OneMoves ==
    ASSUME TypeOK, NEW s \in Requests, Ask(s) \/ Continue(s)
    PROVE  \A r \in Requests \ {s} : req'[r] = req[r]
<1>1. ASSUME NEW q, req' = [req EXCEPT ![s] = q]
      PROVE  \A r \in Requests \ {s} : req'[r] = req[r]
  BY <1>1 DEF TypeOK
<1>2. ASSUME NEW pc, NEW changes, NEW h, NEW i, Persist(s, pc, changes, h, i)
      PROVE  \E q : req' = [req EXCEPT ![s] = q]
  BY <1>2 DEF Persist
<1>3. ASSUME NEW changes, NEW h, NEW i, NEW c, Decide(s, changes, h, i, c)
      PROVE  \E q : req' = [req EXCEPT ![s] = q]
  BY <1>2, <1>3 DEF Decide
<1>4. ASSUME NEW q, Goto(s, q)
      PROVE  \E p : req' = [req EXCEPT ![s] = p]
  BY <1>4 DEF Goto
<1>5. ASSUME NEW retryable, Failure(s, retryable)
      PROVE  \E q : req' = [req EXCEPT ![s] = q]
  BY <1>2, <1>5 DEF Failure
<1>6. CASE Ask(s) \/ LoadCopy(s) \/ Stored(s)
  BY <1>1, <1>3, <1>4, <1>6 DEF Ask, LoadCopy, Stored
<1>7. CASE LoadNothing(s) \/ Succeed(s)
  BY <1>1, <1>2, <1>7 DEF LoadNothing, Succeed
<1>8. CASE LoadFails(s) \/ Admitted(s) \/ Rejected(s) \/ Failed(s)
  BY <1>1, <1>4, <1>8 DEF LoadFails, Admitted, Rejected, Failed
<1>9. CASE Fail(s) \/ Closed(s) \/ Saved(s) \/ Opened(s)
  BY <1>1, <1>2, <1>4, <1>5, <1>9 DEF Fail, Closed, Saved, Opened
<1>10. QED
  BY <1>6, <1>7, <1>8, <1>9 DEF Continue

\* After the answer, execute() writes and returns or throws: fetch is not called.
LEMMA AnsweredIsNotSent ==
    ASSUME TypeOK, NEW r \in Requests, Closed(r) \/ Saved(r) \/ Opened(r) \/ Failed(r)
    PROVE  req'[r].pc # "calling"
<1>1. req[r] \in Request
  BY DEF TypeOK
<1>2. ASSUME NEW pc, NEW changes \in Request, NEW h, NEW i, Persist(r, pc, changes, h, i)
      PROVE  req'[r].pc = pc
  <2>1. PICK ok : req' = [req EXCEPT ![r] = [changes EXCEPT !.pc = pc, !.ok = ok]]
    BY <1>2 DEF Persist
  <2>2. req'[r] = [changes EXCEPT !.pc = pc, !.ok = ok]
    BY <2>1 DEF TypeOK
  <2>3. QED
    BY <2>2, AtPc
<1>3. ASSUME NEW q, Goto(r, q)
      PROVE  req'[r] = q
  BY <1>3 DEF Goto, TypeOK
<1>4. ASSUME NEW retryable \in BOOLEAN, Failure(r, retryable)
      PROVE  req'[r].pc \in {"opening", "failing"}
  <2> DEFINE me == [req[r] EXCEPT !.retryable = retryable]
  <2>1. me \in Request
    BY <1>1 DEF Request
  <2>2. \E pc \in {"opening", "failing"} : \E h, i : Persist(r, pc, me, h, i)
    BY <1>4 DEF Failure
  <2> HIDE DEF me
  <2>3. QED
    BY <1>2, <2>1, <2>2
<1>5. CASE Closed(r) \/ Saved(r) \/ Opened(r)
  <2>1. \/ Failure(r, FALSE)
        \/ \E pc \in {"saving", "failing"} : Persist(r, pc, req[r], heap, req[r].obj)
        \/ Goto(r, Idle)
    BY <1>5 DEF Closed, Saved, Opened
  <2>2. QED
    BY <1>1, <1>2, <1>3, <1>4, <2>1, IdleIsHonest
<1>6. CASE Failed(r)
  <2> DEFINE q == [Idle EXCEPT !.pc = "waiting", !.attempt = req[r].attempt + 1, !.served = req[r].served]
  <2>1. q.pc = "waiting"
    BY DEF Idle
  <2>2. Goto(r, q) \/ Goto(r, Idle)
    BY <1>6 DEF Failed
  <2> HIDE DEF q
  <2>3. QED
    BY <1>3, <2>1, <2>2, IdleIsHonest
<1>7. QED
  BY <1>5, <1>6

(***************************************************************************)
(* A request whose good answer was read is not sent again: the failure of  *)
(* the write after the answer is not an error RetryService would retry.    *)
(***************************************************************************)
THEOREM ServedIsNotSentAgain == Spec => ServedOnce
<1>1. IInv /\ [Next]_vars =>
        \A r \in Requests : req[r].pc # "calling" /\ req'[r].pc = "calling" => ~ req[r].served
  <2> SUFFICES ASSUME IInv, [Next]_vars, NEW r \in Requests, req[r].pc # "calling",
                      req'[r].pc = "calling", req[r].served
               PROVE  FALSE
    OBVIOUS
  <2>1. TypeOK /\ Honest(req[r]) /\ req[r] \in Request
    BY DEF IInv, TypeOK
  <2>2. req[r].pc \in {"closing", "saving", "opening", "failing"}
    BY <2>1 DEF Honest, Request
  <2>3. Next
    BY DEF vars
  <2>4. ~ (TimePasses \/ CopyExpires \/ Reset)
    BY DEF TimePasses, CopyExpires, Reset
  <2>5. ~ Restart
    BY IdleIsHonest DEF Restart
  <2>6. Ask(r) \/ Continue(r)
    BY <2>1, <2>3, <2>4, <2>5, OneMoves DEF Next
  <2>7. Closed(r) \/ Saved(r) \/ Opened(r) \/ Failed(r)
    BY <2>2, <2>6 DEF Continue, Ask, LoadCopy, LoadNothing, LoadFails, Stored, Admitted, Rejected,
                      Succeed, Fail
  <2>8. QED
    BY <2>1, <2>7, AnsweredIsNotSent
<1>2. QED
  BY <1>1, ResilienceInvariant, PTL DEF Spec, ServedOnce
=============================================================================
