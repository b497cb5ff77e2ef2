------------------------------ MODULE Breaker ------------------------------
(***************************************************************************)
(* The circuit breaker (eapache/go-resiliency) that guards the producer's  *)
(* metadata requests.  Run and Go read the state without the lock, do the  *)
(* work and process its result under the lock: by then the breaker may     *)
(* have opened, half-closed and closed again.                              *)
(***************************************************************************)
EXTENDS Integers, Sequences, FiniteSets

CONSTANTS
    Workers,                                    \* goroutines that do work
    errorThreshold, successThreshold, timeout,  \* the arguments of New
    MaxTime                                     \* a bound on the clock

ASSUME BreakerAssumption ==
    /\ errorThreshold \in Nat \ {0} /\ successThreshold \in Nat \ {0}
    /\ timeout \in Nat \ {0} /\ MaxTime \in Nat

VARIABLES
    now,
    b,        \* the Breaker
    timers,   \* the sleeping timer goroutines: when each was started
    work,     \* per goroutine: the state it loaded, or how far it has come
    openedAt, \* history: when the breaker opened last
    seen      \* history: when errors were counted since the breaker closed

vars == <<now, b, timers, work, openedAt, seen>>

Closed == [state |-> "closed", errors |-> 0, successes |-> 0, lastError |-> 0]

Init ==
    /\ now = 0
    /\ b = Closed
    /\ timers = {}
    /\ work = [w \in Workers |-> "idle"]
    /\ openedAt = 0
    /\ seen = <<>>

\* Run and Go: ErrBreakerOpen, or the work begins with the state just read.
Run(w) ==
    /\ work[w] = "idle" /\ b.state # "open"
    /\ work' = [work EXCEPT ![w] = b.state]
    /\ UNCHANGED <<now, b, timers, openedAt, seen>>

changeState(k, newState) ==
    [k EXCEPT !.errors = 0, !.successes = 0, !.state = newState]

openBreaker(k) ==
    /\ b' = changeState(k, "open")
    /\ timers' = timers \cup {now}
    /\ openedAt' = now

\* A mutant: a success counts whatever the state has become.
BugStaleSuccess(w) ==
    /\ work[w] \in {"closed", "halfOpen"}
    /\ work' = [work EXCEPT ![w] = "idle"]
    /\ IF work[w] = "halfOpen"
       THEN LET k == [b EXCEPT !.successes = @ + 1] IN
            IF k.successes = successThreshold
            THEN b' = changeState(k, "closed") /\ seen' = <<>>
            ELSE b' = k /\ UNCHANGED seen
       ELSE UNCHANGED <<b, seen>>
    /\ UNCHANGED <<now, timers, openedAt>>

\* The work returns nil.  A goroutine that had read "closed" takes no lock.
Success(w) ==
    /\ work[w] \in {"closed", "halfOpen"}
    /\ work' = [work EXCEPT ![w] = "idle"]
    /\ IF work[w] = "halfOpen" /\ b.state = "halfOpen"
       THEN LET k == [b EXCEPT !.successes = @ + 1] IN
            IF k.successes = successThreshold
            THEN b' = changeState(k, "closed") /\ seen' = <<>>
            ELSE b' = k /\ UNCHANGED seen
       ELSE UNCHANGED <<b, seen>>
    /\ UNCHANGED <<now, timers, openedAt>>

\* Mutants: errors are never forgotten, and always forgotten.
BugNoExpiry(k) == k
BugForget(k) == [k EXCEPT !.errors = 0]

\* An error-free period forgets the errors before it.
Expired(k) ==
    IF k.errors > 0 /\ now > k.lastError + timeout THEN [k EXCEPT !.errors = 0] ELSE k

\* The work returns an error or panics.
Failure(w) ==
    /\ work[w] \in {"closed", "halfOpen"}
    /\ work' = [work EXCEPT ![w] = "idle"]
    /\ LET k == Expired(b) IN
       \/ /\ k.state = "closed" /\ k.errors + 1 = errorThreshold
          /\ openBreaker(k) /\ seen' = Append(seen, now)
       \/ /\ k.state = "closed" /\ k.errors + 1 # errorThreshold
          /\ b' = [k EXCEPT !.errors = @ + 1, !.lastError = now]
          /\ seen' = Append(seen, now) /\ UNCHANGED <<timers, openedAt>>
       \/ k.state = "halfOpen" /\ openBreaker(k) /\ UNCHANGED seen
       \/ k.state = "open" /\ b' = k /\ UNCHANGED <<timers, openedAt, seen>>
    /\ UNCHANGED now

\* timer: the sleep is over, at the earliest after timeout.
Timer ==
    \E t \in timers :
       /\ now >= t + timeout
       /\ timers' = timers \ {t}
       /\ b' = changeState(b, "halfOpen")
       /\ UNCHANGED <<now, work, openedAt, seen>>

Tick ==
    /\ now < MaxTime
    /\ now' = now + 1
    /\ UNCHANGED <<b, timers, work, openedAt, seen>>

Next == Timer \/ Tick \/ \E w \in Workers : Run(w) \/ Success(w) \/ Failure(w)

Spec == Init /\ [][Next]_vars

-----------------------------------------------------------------------------

TypeOK ==
    /\ now \in Nat
    /\ b \in [state: {"closed", "open", "halfOpen"}, errors: 0 .. errorThreshold - 1,
              successes: 0 .. successThreshold - 1, lastError: Nat]
    /\ timers \subseteq Nat
    /\ work \in [Workers -> {"idle", "closed", "halfOpen"}]
    /\ openedAt \in Nat
    /\ seen \in Seq(Nat)

(***************************************************************************)
(* "From open, the breaker half-closes after timeout" (New): however late  *)
(* the results of earlier work come in, an open breaker has one timer, and *)
(* that timer sleeps from the moment it opened; no timer is left over to   *)
(* half-close it early later on.                                           *)
(***************************************************************************)
OneTimerWhileOpen == timers = IF b.state = "open" THEN {openedAt} ELSE {}

\* errorThreshold errors, no two neighbours further apart than timeout.
Burst ==
    /\ Len(seen) >= errorThreshold
    /\ \A i \in Len(seen) - errorThreshold + 1 .. Len(seen) - 1 : seen[i + 1] - seen[i] <= timeout

(***************************************************************************)
(* "From closed, the breaker opens if errorThreshold errors are seen       *)
(* without an error-free period" (New): not later, whatever the goroutines *)
(* had read before their errors came in.                                   *)
(***************************************************************************)
ClosedMeansNoBurst == b.state = "closed" => ~Burst

(***************************************************************************)
(* And not earlier: a closed breaker opens on such a burst only.           *)
(***************************************************************************)
OpensOnBurst == [][b.state = "closed" /\ b'.state = "open" => Burst']_vars

=============================================================================
