----------------------------- MODULE Resilience -----------------------------
(***************************************************************************)
(* A call to an external service (common/resilience): retries around the   *)
(* circuit breaker around a fetch with a timeout, for one circuit name of  *)
(* one process, with the copy of the breaker's record kept in Valkey.      *)
(*                                                                         *)
(* The record is a JavaScript object.  execute() keeps the object it found *)
(* across its awaits, transitionTo() writes the object the Map holds at    *)
(* that moment: the two differ after reset(), and after two first calls    *)
(* loaded at the same time.  So objects have an identity here.             *)
(*                                                                         *)
(* lastFailureTime is abstracted to "none", "recent" (younger than the     *)
(* recovery timeout) and "old".  The statistics, the delays between the    *)
(* attempts and the fallbacks, which only read, are left out.              *)
(***************************************************************************)
EXTENDS Integers, FiniteSets

CONSTANTS
    Requests,         \* the requests in progress at the same time
    FailureThreshold, \* failures that open a closed breaker
    SuccessThreshold, \* successes that close a half-open one
    MaxRetries,       \* retryConfig.maxRetries
    MaxMishaps,       \* Valkey failures, restarts, resets and the first replaced object
    None              \* no object, no copy

ASSUME ResilienceAssumption ==
    /\ IsFiniteSet(Requests)
    /\ {FailureThreshold, SuccessThreshold} \subseteq Nat \ {0}
    /\ {MaxRetries, MaxMishaps} \subseteq Nat
    /\ None \notin Nat

VARIABLES
    heap,    \* the objects
    current, \* the object the Map states holds
    mirror,  \* the copy in Valkey
    req,     \* each request
    mishaps, \* how many so far
    probes,  \* history: requests sent since the breaker half opened
    proven,  \* history: good answers to them
    late,    \* history: another answer was counted since, or the record was loaded
    split    \* history: a request held another object than the Map (the copy may tell of it)

vars == <<heap, current, mirror, req, mishaps, probes, proven, late, split>>
history == <<probes, proven, late, split>>

Ids == 1..(Cardinality(Requests) + 2)

Record == [state: {"CLOSED", "OPEN", "HALF_OPEN"},
           failures: Nat, successes: 0..(SuccessThreshold - 1), last: {"none", "recent", "old"}]

InitialState == [state |-> "CLOSED", failures |-> 0, successes |-> 0, last |-> "none"]

\* A request: the await it is at, the object it keeps, whether the write it awaits
\* succeeds, its attempt, whether its error is retryable.  History: has the service
\* answered it well.
Request == [pc: {"idle", "loading", "storing", "admitting", "rejecting", "calling",
                 "closing", "saving", "opening", "failing", "waiting"},
            obj: Ids \cup {None}, ok: BOOLEAN, attempt: 0..MaxRetries,
            retryable: BOOLEAN, served: BOOLEAN]

Idle == [pc |-> "idle", obj |-> None, ok |-> TRUE, attempt |-> 0,
         retryable |-> FALSE, served |-> FALSE]

\* The types: who is inside execute() has an object, and so has the Map by then.
TypeOK ==
    /\ heap \in [Ids -> Record]
    /\ current \in Ids \cup {None}
    /\ mirror \in Record \cup {None}
    /\ req \in [Requests -> Request]
    /\ \A r \in Requests :
         req[r].pc \notin {"idle", "loading", "waiting"} => req[r].obj # None /\ current # None
    /\ mishaps \in 0..MaxMishaps
    /\ probes \subseteq Requests /\ proven \in Nat /\ late \in BOOLEAN /\ split \in BOOLEAN

Init ==
    /\ heap = [i \in Ids |-> InitialState]
    /\ current = None
    /\ mirror = None
    /\ req = [r \in Requests |-> Idle]
    /\ mishaps = 0
    /\ probes = {} /\ proven = 0 /\ late = FALSE /\ split = FALSE

Held(q, c) == {q[r].obj : r \in Requests} \cup {c}

\* An object nobody holds any more is garbage.
Collected(h, q, c) == [i \in Ids |-> IF i \in Held(q, c) THEN h[i] ELSE InitialState]

Fresh == CHOOSE i \in Ids : i \notin Held(req, current)

\* The Map gets another object: those who hold the former one keep it.
Replace(r, new) ==
    /\ current' = new
    /\ split' = (split \/ \E s \in Requests \ {r} : req[s].obj \notin {None, new})

-----------------------------------------------------------------------------
(***************************************************************************)
(* Writing the copy.  The JSON is made when the write is issued and the    *)
(* connection keeps the order of commands, so the write is a part of the   *)
(* step that issues it; the next step of the request learns its outcome.   *)
(***************************************************************************)
Spent(ok) == (IF ok THEN 0 ELSE 1) + (IF split' # split THEN 1 ELSE 0)

Affordable(ok) ==
    /\ mishaps + Spent(ok) <= MaxMishaps
    /\ mishaps' = mishaps + Spent(ok)

\* r awaits, at pc, the write of the object i of h, which is the heap from now on.
Persist(r, pc, changes, h, i) ==
    \E ok \in BOOLEAN :
        /\ Affordable(ok)
        /\ req' = [req EXCEPT ![r] = [changes EXCEPT !.pc = pc, !.ok = ok]]
        /\ mirror' = IF ok THEN h[i] ELSE mirror
        /\ heap' = Collected(h, req', current')

Goto(r, changes) ==
    /\ req' = [req EXCEPT ![r] = changes]
    /\ heap' = Collected(heap, req', current)
    /\ UNCHANGED <<current, mirror, mishaps, proven, late, split>>

-----------------------------------------------------------------------------
(***************************************************************************)
(* The way in: execute() up to the call.                                   *)
(***************************************************************************)
\* History: a call sent while the breaker is half open is a probe.
Sent(r, state) == probes' = IF state = "HALF_OPEN" THEN probes \cup {r} ELSE probes

\* transitionTo writes the state of the object in the Map.
Turned(h, c, state) == [h EXCEPT ![c].state = state]

\* Mutant: the counters are cleared and the state is left.
HalfOpenedInName(h, i, c) == [h EXCEPT ![i] = [h[i] EXCEPT !.failures = 0, !.successes = 0]]

\* OPEN, and the recovery timeout has passed.
HalfOpened(h, i, c) ==
    Turned([h EXCEPT ![i] = [h[i] EXCEPT !.state = "HALF_OPEN", !.failures = 0, !.successes = 0]],
           c, "HALF_OPEN")

\* With the object i of h at hand, and c in the Map.
Decide(r, changes, h, i, c) ==
    LET me == [changes EXCEPT !.obj = i] IN
    CASE h[i].state = "OPEN" /\ h[i].last = "old" ->
           /\ Persist(r, "admitting", me, HalfOpened(h, i, c), c)
           /\ probes' = {} /\ proven' = 0 /\ late' = FALSE
      [] h[i].state = "OPEN" /\ h[i].last # "old" ->
           /\ Persist(r, "rejecting", me, h, i)
           /\ UNCHANGED <<probes, proven, late>>
      [] OTHER ->
           /\ req' = [req EXCEPT ![r] = [me EXCEPT !.pc = "calling"]]
           /\ heap' = Collected(h, req', c)
           /\ Sent(r, h[c].state)
           /\ late' = (late \/ (current # c /\ h[c].state = "HALF_OPEN"))
           /\ Affordable(TRUE)
           /\ UNCHANGED <<mirror, proven>>

\* A first attempt, or the next one after its delay.
Ask(r) ==
    /\ req[r].pc \in {"idle", "waiting"}
    /\ IF current = None
         THEN Goto(r, [req[r] EXCEPT !.pc = "loading"]) /\ UNCHANGED probes
         ELSE /\ UNCHANGED <<current, split>>
              /\ Decide(r, req[r], heap, current, current)

\* loadState: the copy becomes a new object, whatever the Map holds by now.
LoadCopy(r) ==
    /\ req[r].pc = "loading" /\ mirror # None
    /\ Replace(r, Fresh)
    /\ Decide(r, req[r], [heap EXCEPT ![Fresh] = mirror], Fresh, Fresh)

\* loadState: there is no copy.
LoadNothing(r) ==
    /\ req[r].pc = "loading" /\ mirror = None
    /\ Replace(r, Fresh)
    /\ Persist(r, "storing", [req[r] EXCEPT !.obj = Fresh],
               [heap EXCEPT ![Fresh] = InitialState], Fresh)
    /\ UNCHANGED <<probes, proven, late>>

\* The load fails, outside the try: execute() rejects and nothing retries it.
LoadFails(r) ==
    /\ req[r].pc = "loading" /\ mishaps < MaxMishaps
    /\ mishaps' = mishaps + 1
    /\ req' = [req EXCEPT ![r] = Idle]
    /\ UNCHANGED <<heap, current, mirror, history>>

Stored(r) ==
    /\ req[r].pc = "storing"
    /\ IF req[r].ok
         THEN /\ UNCHANGED <<current, split>>
              /\ Decide(r, req[r], heap, req[r].obj, current)
         ELSE Goto(r, Idle) /\ UNCHANGED probes

\* Half open is written before the call; when that write fails there is no call.
Admitted(r) ==
    /\ req[r].pc = "admitting"
    /\ Goto(r, IF req[r].ok THEN [req[r] EXCEPT !.pc = "calling"] ELSE Idle)
    /\ IF req[r].ok THEN Sent(r, heap[current].state) ELSE UNCHANGED probes

\* "Circuit breaker is OPEN" is not a retryable error.
Rejected(r) ==
    /\ req[r].pc = "rejecting"
    /\ Goto(r, Idle)
    /\ UNCHANGED probes

-----------------------------------------------------------------------------
(***************************************************************************)
(* The answer.                                                             *)
(***************************************************************************)
\* Mutants: off by one, either way.
ClosesEarly(i) == heap[i].successes + 2 >= SuccessThreshold
ClosesLate(i) == heap[i].successes + 1 > SuccessThreshold

\* Is this the success that closes the breaker?
Closes(i) == heap[i].successes + 1 >= SuccessThreshold

\* The service answers: the call succeeded.
Succeed(r) ==
    LET i  == req[r].obj
        me == [req[r] EXCEPT !.served = TRUE]
    IN
    /\ req[r].pc = "calling"
    /\ UNCHANGED <<current, split>>
    /\ CASE heap[i].state = "HALF_OPEN" /\ Closes(i) ->
              Persist(r, "closing", me,
                  Turned([heap EXCEPT ![i] = [@ EXCEPT !.state = "CLOSED", !.failures = 0,
                                              !.successes = 0]], current, "CLOSED"), current)
         [] heap[i].state = "HALF_OPEN" /\ ~Closes(i) ->
              Persist(r, "saving", me, [heap EXCEPT ![i].successes = @ + 1], i)
         [] OTHER -> Persist(r, "saving", me, [heap EXCEPT ![i].failures = 0], i)
    /\ IF heap[current].state = "HALF_OPEN"
         THEN /\ proven' = IF r \in probes THEN proven + 1 ELSE proven
              /\ late' = (late \/ r \notin probes)
         ELSE UNCHANGED <<proven, late>>
    /\ probes' = probes \ {r}

\* Mutant: a closed breaker only counts.
NotedUnlessClosed(h, i) == IF h[i].state = "CLOSED" THEN h ELSE [h EXCEPT ![i].last = "recent"]

Noted(h, i) == [h EXCEPT ![i].last = "recent"]

\* The catch of execute(): a failure of the service, or of a write after its answer.
Failure(r, retryable) ==
    LET i  == req[r].obj
        h  == Noted(heap, i)
        me == [req[r] EXCEPT !.retryable = retryable]
    IN
    /\ UNCHANGED <<current, proven, late, split>>
    /\ probes' = probes \ {r}
    /\ CASE h[i].state = "HALF_OPEN" ->
              Persist(r, "opening", me,
                  Turned([h EXCEPT ![i].failures = 0, ![i].successes = 0], current, "OPEN"), current)
         [] h[i].state = "CLOSED" /\ h[i].failures + 1 >= FailureThreshold ->
              Persist(r, "opening", me,
                  Turned([h EXCEPT ![i].failures = @ + 1], current, "OPEN"), current)
         [] h[i].state = "CLOSED" /\ h[i].failures + 1 < FailureThreshold ->
              Persist(r, "failing", me, [h EXCEPT ![i].failures = @ + 1], i)
         [] OTHER -> Persist(r, "failing", me, h, i)

\* The service fails or times out.  fetchJson's own timeout is retryable, the one of
\* TimeoutService, with the same delay, is not; a refusal is not either.
Fail(r) ==
    /\ req[r].pc = "calling"
    /\ \E retryable \in BOOLEAN : Failure(r, retryable)

\* transitionTo(CLOSED) is done; then the kept object is written.
Closed(r) ==
    /\ req[r].pc = "closing"
    /\ IF req[r].ok
         THEN /\ UNCHANGED <<current, history>>
              /\ Persist(r, "saving", req[r], heap, req[r].obj)
         ELSE Failure(r, FALSE)

\* The answer is returned, unless its bookkeeping failed.
Saved(r) ==
    /\ req[r].pc = "saving"
    /\ IF req[r].ok THEN Goto(r, Idle) /\ UNCHANGED probes ELSE Failure(r, FALSE)

\* transitionTo(OPEN) is done; when its write failed, that error leaves execute().
Opened(r) ==
    /\ req[r].pc = "opening"
    /\ IF req[r].ok
         THEN /\ UNCHANGED <<current, history>>
              /\ Persist(r, "failing", req[r], heap, req[r].obj)
         ELSE Goto(r, Idle) /\ UNCHANGED probes

\* Mutant: whatever the error, the request is sent again.
RetriesAlways(q) == q.attempt < MaxRetries

\* RetryService: attempts are left, and isRetryableFetchError accepts the error.
Retries(q) == q.ok /\ q.retryable /\ q.attempt < MaxRetries

Failed(r) ==
    /\ req[r].pc = "failing"
    /\ Goto(r, IF Retries(req[r])
                 THEN [Idle EXCEPT !.pc = "waiting", !.attempt = req[r].attempt + 1,
                                   !.served = req[r].served]
                 ELSE Idle)
    /\ UNCHANGED probes

-----------------------------------------------------------------------------
(***************************************************************************)
(* The surroundings.                                                       *)
(***************************************************************************)
Aged(rec) == IF rec.last = "recent" THEN [rec EXCEPT !.last = "old"] ELSE rec

\* The recovery timeout passes.
TimePasses ==
    /\ heap' = [i \in Ids |-> Aged(heap[i])]
    /\ mirror' = IF mirror = None THEN None ELSE Aged(mirror)
    /\ <<heap', mirror'>> # <<heap, mirror>>
    /\ UNCHANGED <<current, req, mishaps, history>>

\* The copy lives for the monitoring period.
CopyExpires ==
    /\ mirror # None
    /\ mirror' = None
    /\ UNCHANGED <<heap, current, req, mishaps, history>>

\* An operator resets the breaker: a new object, and its copy.
Reset ==
    /\ mishaps < MaxMishaps
    /\ current # None
    /\ current' = Fresh
    /\ split' = (split \/ \E s \in Requests : req[s].obj # None)
    /\ heap' = Collected([heap EXCEPT ![Fresh] = InitialState], req, current')
    /\ mirror' \in {InitialState, mirror}
    /\ mishaps' = mishaps + 1
    /\ UNCHANGED <<req, probes, proven, late>>

\* The process restarts: what it held is gone.
Restart ==
    /\ mishaps < MaxMishaps
    /\ mishaps' = mishaps + 1
    /\ current' = None
    /\ req' = [r \in Requests |-> Idle]
    /\ heap' = [i \in Ids |-> InitialState]
    /\ UNCHANGED <<mirror, history>>

\* What a request that has begun does next.
Continue(r) ==
    \/ LoadCopy(r) \/ LoadNothing(r) \/ LoadFails(r) \/ Stored(r)
    \/ Admitted(r) \/ Rejected(r)
    \/ Succeed(r) \/ Fail(r)
    \/ Closed(r) \/ Saved(r) \/ Opened(r) \/ Failed(r)

Next ==
    \/ \E r \in Requests : Ask(r) \/ Continue(r)
    \/ TimePasses \/ CopyExpires \/ Reset \/ Restart

\* A request goes on (the fetch has a timeout), time passes, and somebody asks again.
Fairness ==
    /\ \A r \in Requests : WF_vars(Continue(r))
    /\ WF_vars(\E r \in Requests : Ask(r))
    /\ WF_vars(TimePasses)

Spec == Init /\ [][Next]_vars /\ Fairness

-----------------------------------------------------------------------------
(***************************************************************************)
(* Properties.                                                             *)
(***************************************************************************)
Breaker == IF current = None THEN "CLOSED" ELSE heap[current].state

\* An open breaker knows when it failed, so its recovery time can pass; otherwise it
\* would refuse every call until a restart.  Only a transition meant for an object
\* that reset() or a second load replaced can break that.
OpenCanRecover ==
    current # None /\ heap[current].state = "OPEN" /\ heap[current].last = "none" => split

\* A half-open breaker closes only after SuccessThreshold good answers to calls made
\* since it half opened, or with an answer to an earlier call counted among them: the
\* breaker does not tell its probes from late answers.
ClosedByProbes ==
    [][current # None /\ current' = current
         /\ heap[current].state = "HALF_OPEN" /\ heap'[current].state = "CLOSED"
       => proven' >= SuccessThreshold \/ late' \/ split]_vars

\* Once a good answer has been read (served), the request is not sent again, although the
\* failure of a write after the answer turns it into a failure: for a payment that would be
\* a second one.  A call the service executed but whose answer came too late, or could not
\* be parsed, is not served here: it counts as failed and may be sent again.
ServedOnce ==
    [][\A r \in Requests :
         req[r].pc # "calling" /\ req'[r].pc = "calling" => ~req[r].served]_vars

\* An open breaker lets a call through again, as long as somebody asks: late failures
\* postpone that only as often as there are calls still out.
OpenRecovers == (Breaker = "OPEN") ~> (Breaker # "OPEN" \/ split)
=============================================================================
