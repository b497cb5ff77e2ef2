---------------------------- MODULE Kafka_proofs ----------------------------
(***************************************************************************)
(* What is proved of sarama: the circuit breaker, for every number of      *)
(* goroutines, every threshold and every timeout; the broker connection,   *)
(* for any goroutines and any Net.MaxOpenRequests; and the consumer, for   *)
(* any partitions, brokers, broker workers, log and fetch sizes.           *)
(***************************************************************************)
EXTENDS Breaker, KafkaBroker, KafkaConsumer, FiniteSetTheorems, TLAPS

-----------------------------------------------------------------------------
(* The circuit breaker. *)

States == {"closed", "open", "halfOpen"}

BreakerType == [state: States, errors: 0 .. errorThreshold - 1,
          successes: 0 .. successThreshold - 1, lastError: Nat]

\* What becomes of the breaker in Expired: only the errors may change.
LEMMA ExpiredKeeps ==
  ASSUME TypeOK
  PROVE  /\ Expired(b) \in BreakerType
         /\ Expired(b).state = b.state
         /\ Expired(b).errors \in {0, b.errors}
         /\ Expired(b).errors = b.errors => b.errors = 0 \/ now <= b.lastError + timeout
         /\ Expired(b).errors # b.errors => now > b.lastError + timeout
<1>1. /\ b \in BreakerType /\ now \in Nat /\ timeout \in Nat /\ errorThreshold \in Nat \ {0}
      /\ b.errors \in Nat /\ b.lastError \in Nat /\ 0 \in 0 .. errorThreshold - 1
  BY BreakerAssumption DEF TypeOK, BreakerType, States
<1>2. CASE b.errors > 0 /\ now > b.lastError + timeout
  <2>1. Expired(b) = [b EXCEPT !.errors = 0]
    BY <1>2 DEF Expired
  <2> QED
    BY <1>1, <1>2, <2>1 DEF BreakerType
<1>3. CASE ~(b.errors > 0 /\ now > b.lastError + timeout)
  <2>1. Expired(b) = b
    BY <1>3 DEF Expired
  <2> QED
    BY <1>1, <1>3, <2>1
<1> QED
  BY <1>2, <1>3

\* Updates of the Breaker record.
LEMMA UpdateKeepsType ==
  ASSUME NEW S, NEW E, NEW C, NEW L, NEW k \in [state: S, errors: E, successes: C, lastError: L],
         NEW s \in S, NEW e \in E, NEW c \in C, NEW l \in L
  PROVE  /\ [k EXCEPT !.errors = e, !.successes = c, !.state = s]
              \in [state: S, errors: E, successes: C, lastError: L]
         /\ [k EXCEPT !.errors = e, !.lastError = l] \in [state: S, errors: E, successes: C, lastError: L]
         /\ [k EXCEPT !.successes = c] \in [state: S, errors: E, successes: C, lastError: L]
OBVIOUS

LEMMA UpdateFields ==
  ASSUME NEW S, NEW E, NEW C, NEW L, NEW k \in [state: S, errors: E, successes: C, lastError: L],
         NEW s, NEW e, NEW c, NEW l
  PROVE  /\ [k EXCEPT !.errors = e, !.successes = c, !.state = s].state = s
         /\ [k EXCEPT !.errors = e, !.successes = c, !.state = s].errors = e
         /\ [k EXCEPT !.errors = e, !.lastError = l].state = k.state
         /\ [k EXCEPT !.errors = e, !.lastError = l].errors = e
         /\ [k EXCEPT !.errors = e, !.lastError = l].lastError = l
         /\ [k EXCEPT !.successes = c].state = k.state
OBVIOUS

LEMMA Zeros == /\ 0 \in 0 .. errorThreshold - 1 /\ 0 \in 0 .. successThreshold - 1
               /\ "open" \in States /\ "closed" \in States /\ "halfOpen" \in States
BY BreakerAssumption DEF States

LEMMA ChangeStateType ==
  ASSUME NEW k \in BreakerType, NEW s \in States
  PROVE  changeState(k, s) \in BreakerType /\ changeState(k, s).state = s
                                     /\ changeState(k, s).errors = 0
BY Zeros, UpdateKeepsType, UpdateFields DEF changeState, BreakerType

-----------------------------------------------------------------------------

\* The record the breaker becomes in each action has its type.
LEMMA BreakerTypeStep ==
  ASSUME TypeOK, [Next]_vars
  PROVE  TypeOK'
<1>t. /\ now \in Nat /\ b \in BreakerType /\ timers \subseteq Nat
      /\ work \in [Workers -> {"idle", "closed", "halfOpen"}] /\ openedAt \in Nat /\ seen \in Seq(Nat)
  BY DEF TypeOK, BreakerType, States
<1>s. SUFFICES /\ now' \in Nat /\ b' \in BreakerType /\ timers' \subseteq Nat
               /\ work' \in [Workers -> {"idle", "closed", "halfOpen"}]
               /\ openedAt' \in Nat /\ seen' \in Seq(Nat)
  BY DEF TypeOK, BreakerType, States
<1>1. CASE Timer
  <2>1. b' = changeState(b, "halfOpen") /\ timers' \subseteq timers /\ UNCHANGED <<now, work, openedAt, seen>>
    BY <1>1 DEF Timer
  <2>2. b' \in BreakerType
    BY <2>1, <1>t, ChangeStateType DEF States
  <2> QED BY <2>1, <2>2, <1>t
<1>2. CASE Tick
  BY <1>2, <1>t DEF Tick
<1>3. ASSUME NEW w \in Workers, Run(w) PROVE TypeOK'
  <2>1. b.state \in {"closed", "halfOpen"}
    BY <1>3, <1>t DEF Run, BreakerType, States
  <2> QED BY <1>3, <1>t, <2>1 DEF Run, TypeOK, BreakerType, States
<1>4. ASSUME NEW w \in Workers, Success(w) PROVE TypeOK'
  <2>1. b' \in BreakerType /\ seen' \in Seq(Nat)
    <3> DEFINE k == [b EXCEPT !.successes = @ + 1]
    <3>1. CASE ~(work[w] = "halfOpen" /\ b.state = "halfOpen")
      BY <1>4, <3>1, <1>t DEF Success
    <3>2. CASE work[w] = "halfOpen" /\ b.state = "halfOpen" /\ k.successes = successThreshold
      <4>1. b' = changeState(k, "closed") /\ seen' = <<>>
        BY <1>4, <3>2 DEF Success
      <4>2. changeState(k, "closed") = changeState(b, "closed")
        BY <1>t DEF changeState, BreakerType
      <4> QED BY <4>1, <4>2, <1>t, ChangeStateType, Zeros
    <3>3. CASE work[w] = "halfOpen" /\ b.state = "halfOpen" /\ k.successes # successThreshold
      <4>1. b' = k /\ seen' = seen
        BY <1>4, <3>3 DEF Success
      <4>2. k \in BreakerType
        <5>1. b.successes + 1 \in 0 .. successThreshold - 1 /\ b.errors \in 0 .. errorThreshold - 1
              /\ b.lastError \in Nat /\ b.state \in States
          BY <1>t, <3>3, BreakerAssumption DEF BreakerType
        <5> QED BY <5>1, <1>t, UpdateKeepsType DEF BreakerType
      <4> QED BY <4>1, <4>2, <1>t
    <3> QED BY <3>1, <3>2, <3>3
  <2>2. work' = [work EXCEPT ![w] = "idle"] /\ UNCHANGED <<now, timers, openedAt>>
    BY <1>4 DEF Success
  <2> QED BY <2>1, <2>2, <1>t DEF TypeOK, BreakerType, States
<1>5. ASSUME NEW w \in Workers, Failure(w) PROVE TypeOK'
  <2> DEFINE k == Expired(b)
  <2>k. k \in BreakerType
    BY ExpiredKeeps
  <2>a. changeState(k, "open") \in BreakerType
    BY <2>k, ChangeStateType DEF States
  <2>s. Append(seen, now) \in Seq(Nat)
    BY <1>t
  <2> HIDE DEF k
  <2>1. b' \in BreakerType /\ timers' \subseteq Nat /\ openedAt' \in Nat /\ seen' \in Seq(Nat)
    <3>1. CASE openBreaker(k) /\ seen' \in {seen, Append(seen, now)}
      BY <3>1, <2>a, <2>s, <1>t DEF openBreaker
    <3>2. CASE /\ k.state = "closed" /\ k.errors + 1 # errorThreshold
               /\ b' = [k EXCEPT !.errors = @ + 1, !.lastError = now]
               /\ seen' = Append(seen, now) /\ UNCHANGED <<timers, openedAt>>
      <4>1. [k EXCEPT !.errors = @ + 1, !.lastError = now] \in BreakerType
        <5>1. k.errors + 1 \in 0 .. errorThreshold - 1 /\ k.successes \in 0 .. successThreshold - 1
              /\ k.state \in States
          BY <2>k, <3>2, BreakerAssumption DEF BreakerType
        <5> QED BY <5>1, <2>k, <1>t, UpdateKeepsType DEF BreakerType
      <4> QED BY <3>2, <4>1, <2>s, <1>t
    <3>3. CASE b' = k /\ UNCHANGED <<timers, openedAt, seen>>
      BY <3>3, <2>k, <1>t
    <3> QED BY <1>5, <3>1, <3>2, <3>3 DEF Failure, k
  <2>2. work' = [work EXCEPT ![w] = "idle"] /\ now' = now
    BY <1>5 DEF Failure
  <2> QED BY <2>1, <2>2, <1>t DEF TypeOK, BreakerType, States
<1>6. CASE UNCHANGED vars
  BY <1>6, <1>t DEF vars
<1> QED BY <1>1, <1>2, <1>3, <1>4, <1>5, <1>6 DEF Next, TypeOK, BreakerType, States

LEMMA TypeInit == Init => TypeOK
BY BreakerAssumption DEF Init, TypeOK, Closed

(***************************************************************************)
(* The counters of the breaker never reach the thresholds, and the rest of *)
(* the state has its type, in every behaviour of Run, Go and the timer.    *)
(***************************************************************************)
THEOREM BreakerTypeCorrect == Spec => []TypeOK
<1>1. TypeOK /\ [Next]_vars => TypeOK'
  BY BreakerTypeStep
<1> QED BY TypeInit, <1>1, PTL DEF Spec

-----------------------------------------------------------------------------

(***************************************************************************)
(* "From open, the breaker half-closes after timeout" (New): an open       *)
(* breaker has exactly the timer goroutine started when it opened, and no  *)
(* other state has any, for any number of goroutines whose results come in *)
(* after the state they read has gone.                                     *)
(***************************************************************************)
THEOREM BreakerOneTimer == Spec => []OneTimerWhileOpen
<1>1. Init => OneTimerWhileOpen
  BY DEF Init, OneTimerWhileOpen, Closed
<1>2. TypeOK /\ OneTimerWhileOpen /\ [Next]_vars => OneTimerWhileOpen'
  <2> SUFFICES ASSUME TypeOK, OneTimerWhileOpen, [Next]_vars PROVE OneTimerWhileOpen'
    OBVIOUS
  <2>t. b \in BreakerType
    BY DEF TypeOK, BreakerType, States
  <2>1. CASE Timer
    <3>1. timers = {openedAt} /\ timers' = {} /\ b' = changeState(b, "halfOpen")
      BY <2>1 DEF Timer, OneTimerWhileOpen
    <3>2. b'.state = "halfOpen"
      BY <3>1, <2>t, ChangeStateType, Zeros
    <3> QED BY <3>1, <3>2 DEF OneTimerWhileOpen
  <2>2. CASE Tick \/ UNCHANGED vars
    BY <2>2 DEF Tick, vars, OneTimerWhileOpen
  <2>3. ASSUME NEW w \in Workers, Run(w) PROVE OneTimerWhileOpen'
    BY <2>3 DEF Run, OneTimerWhileOpen
  <2>4. ASSUME NEW w \in Workers, Success(w) PROVE OneTimerWhileOpen'
    <3> DEFINE k == [b EXCEPT !.successes = @ + 1]
    <3>1. UNCHANGED <<timers, openedAt>>
      BY <2>4 DEF Success
    <3>2. CASE ~(work[w] = "halfOpen" /\ b.state = "halfOpen")
      BY <2>4, <3>1, <3>2 DEF Success, OneTimerWhileOpen
    <3>3. CASE work[w] = "halfOpen" /\ b.state = "halfOpen"
      <4>1. b' \in {changeState(k, "closed"), k}
        BY <2>4, <3>3 DEF Success
      <4>2. changeState(k, "closed") = changeState(b, "closed")
        BY <2>t DEF changeState, BreakerType
      <4>3. k.state = b.state
        BY <2>t DEF BreakerType
      <4>4. changeState(b, "closed").state = "closed"
        BY <2>t, ChangeStateType, Zeros
      <4> HIDE DEF k
      <4>5. b'.state \in {"closed", "halfOpen"}
        BY <4>1, <4>2, <4>3, <4>4, <3>3
      <4> QED BY <4>5, <3>1, <3>3 DEF OneTimerWhileOpen
    <3> QED BY <3>2, <3>3
  <2>5. ASSUME NEW w \in Workers, Failure(w) PROVE OneTimerWhileOpen'
    <3> DEFINE k == Expired(b)
    <3>k. k \in BreakerType /\ k.state = b.state
      BY ExpiredKeeps
    <3> HIDE DEF k
    <3>1. CASE openBreaker(k) /\ k.state \in {"closed", "halfOpen"}
      <4>1. b'.state = "open" /\ timers' = timers \cup {now} /\ openedAt' = now
        BY <3>1, <3>k, ChangeStateType, Zeros DEF openBreaker
      <4>2. timers = {}
        BY <3>1, <3>k DEF OneTimerWhileOpen
      <4> QED BY <4>1, <4>2 DEF OneTimerWhileOpen
    <3>2. CASE /\ k.state = "closed" /\ b' = [k EXCEPT !.errors = @ + 1, !.lastError = now]
               /\ UNCHANGED <<timers, openedAt>>
      <4>1. b'.state = k.state
        BY <3>2, <3>k, UpdateFields DEF BreakerType
      <4> QED BY <4>1, <3>2, <3>k DEF OneTimerWhileOpen
    <3>3. CASE b' = k /\ UNCHANGED <<timers, openedAt>>
      BY <3>3, <3>k DEF OneTimerWhileOpen
    <3> QED BY <2>5, <3>1, <3>2, <3>3 DEF Failure, k
  <2> QED BY <2>1, <2>2, <2>3, <2>4, <2>5 DEF Next
<1> QED BY <1>1, <1>2, BreakerTypeCorrect, PTL DEF Spec

-----------------------------------------------------------------------------

(***************************************************************************)
(* The strengthening: what the counter of a closed breaker means in terms  *)
(* of the errors seen since it closed.  It counts the last ones, lastError *)
(* is the latest, no two neighbours of them are further apart than timeout *)
(* and the one before them is.                                             *)
(***************************************************************************)
CountsLastErrors ==
  b.state = "closed" =>
    /\ b.errors \in 0 .. Len(seen)
    /\ seen # <<>> => b.errors > 0 /\ b.lastError = seen[Len(seen)]
    /\ \A i \in Len(seen) - b.errors + 1 .. Len(seen) - 1 : seen[i + 1] - seen[i] <= timeout
    /\ b.errors < Len(seen) => seen[Len(seen) - b.errors + 1] - seen[Len(seen) - b.errors] > timeout

\* A burst of errorThreshold errors as Burst has it, over any history.
LEMMA NoBurst ==
  ASSUME TypeOK, CountsLastErrors, b.state = "closed"
  PROVE  ~Burst
<1>1. SUFFICES ASSUME Burst PROVE FALSE
  OBVIOUS
<1> DEFINE n == Len(seen)
           i == n - b.errors
<1>2. seen \in Seq(Nat) /\ n \in Nat /\ b.errors \in 0 .. errorThreshold - 1 /\ errorThreshold \in Nat \ {0}
      /\ timeout \in Nat
  BY BreakerAssumption DEF TypeOK
<1>3. n >= errorThreshold /\ seen # <<>>
  BY <1>1, <1>2 DEF Burst
<1>4. b.errors > 0 /\ b.errors < n
  BY <1>2, <1>3 DEF CountsLastErrors
<1>5. i \in n - errorThreshold + 1 .. n - 1
  BY <1>2, <1>4
<1>6. seen[i + 1] - seen[i] > timeout
  BY <1>2, <1>4 DEF CountsLastErrors
<1>7. seen[i + 1] - seen[i] <= timeout
  BY <1>5, <1>1 DEF Burst
<1>8. i \in 1 .. n /\ i + 1 \in 1 .. n
  BY <1>2, <1>4
<1>9. \A j \in 1 .. n : seen[j] \in Nat
  BY <1>2
<1> HIDE DEF i
<1>10. seen[i] \in Nat /\ seen[i + 1] \in Nat
  BY <1>8, <1>9
<1> QED BY <1>6, <1>7, <1>10, <1>2

LEMMA Positions ==
  ASSUME NEW n \in Nat, NEW m \in Nat, 0 < m, m < n
  PROVE  (n + 1) - (m + 1) = n - m /\ n - m \in 1 .. n /\ n - m + 1 \in 1 .. n
OBVIOUS

\* The error that has just come in, appended to the history.
LEMMA FailureCounts ==
  ASSUME TypeOK, CountsLastErrors, b.state = "closed",
         NEW s, s = Append(seen, now), NEW e, e = Expired(b).errors + 1
  PROVE  /\ s # <<>> /\ Len(s) = Len(seen) + 1 /\ e \in 1 .. Len(s) /\ s[Len(s)] = now
         /\ \A i \in Len(s) - e + 1 .. Len(s) - 1 : s[i + 1] - s[i] <= timeout
         /\ e < Len(s) => s[Len(s) - e + 1] - s[Len(s) - e] > timeout
<1> DEFINE n == Len(seen)
           k == Expired(b)
<1>1. seen \in Seq(Nat) /\ n \in Nat /\ now \in Nat /\ timeout \in Nat /\ b.lastError \in Nat
      /\ b.errors \in Nat
  BY BreakerAssumption DEF TypeOK
<1>2. Len(s) = n + 1 /\ s[n + 1] = now /\ \A i \in 1 .. n : s[i] = seen[i]
  BY <1>1
<1>3. /\ b.errors \in 0 .. n
      /\ n > 0 => b.errors > 0 /\ b.lastError = seen[n]
      /\ \A i \in n - b.errors + 1 .. n - 1 : seen[i + 1] - seen[i] <= timeout
      /\ b.errors < n => seen[n - b.errors + 1] - seen[n - b.errors] > timeout
  BY <1>1 DEF CountsLastErrors
<1>4. /\ k.errors \in {0, b.errors}
      /\ k.errors = b.errors => b.errors = 0 \/ now <= b.lastError + timeout
      /\ k.errors # b.errors => now > b.lastError + timeout
  BY ExpiredKeeps
<1> HIDE DEF k
<1>5. s # <<>> /\ e \in 1 .. Len(s) /\ s[Len(s)] = now
  BY <1>1, <1>2, <1>3, <1>4 DEF k
<1>6. \A i \in Len(s) - e + 1 .. Len(s) - 1 : s[i + 1] - s[i] <= timeout
  <2> SUFFICES ASSUME NEW i \in Len(s) - e + 1 .. Len(s) - 1 PROVE s[i + 1] - s[i] <= timeout
    OBVIOUS
  <2>1. k.errors = b.errors /\ b.errors > 0 /\ e = b.errors + 1 /\ n > 0
    BY <1>1, <1>2, <1>3, <1>4 DEF k
  <2>2. i \in 1 .. n /\ i \in n - b.errors + 1 .. n
    BY <2>1, <1>1, <1>2, <1>3
  <2>3. CASE i = n
    BY <2>1, <2>3, <1>1, <1>2, <1>3, <1>4
  <2>4. CASE i # n
    <3>1. i \in n - b.errors + 1 .. n - 1 /\ i + 1 \in 1 .. n
      BY <2>2, <2>4, <1>1, <1>3
    <3> QED BY <3>1, <2>2, <1>2, <1>3
  <2> QED BY <2>3, <2>4
<1>7. ASSUME e < Len(s) PROVE s[Len(s) - e + 1] - s[Len(s) - e] > timeout
  <2>1. CASE k.errors = b.errors
    <3>1. e = b.errors + 1 /\ b.errors < n /\ b.errors > 0
      BY <2>1, <1>7, <1>1, <1>2, <1>3 DEF k
    <3>2. Len(s) - e = n - b.errors /\ n - b.errors \in 1 .. n /\ n - b.errors + 1 \in 1 .. n
      <4>1. (n + 1) - (b.errors + 1) = n - b.errors /\ n - b.errors \in 1 .. n /\ n - b.errors + 1 \in 1 .. n
        BY <3>1, <1>1, Positions
      <4> QED BY <4>1, <3>1, <1>2
    <3> QED BY <3>1, <3>2, <1>2, <1>3
  <2>2. CASE k.errors # b.errors
    <3>1. e = 1 /\ n > 0 /\ Len(s) - e = n
      BY <2>2, <1>1, <1>2, <1>3, <1>4 DEF k
    <3> QED BY <3>1, <2>2, <1>1, <1>2, <1>3, <1>4
  <2> QED BY <2>1, <2>2
<1> QED BY <1>2, <1>5, <1>6, <1>7

LEMMA CountsStep ==
  ASSUME TypeOK, CountsLastErrors, [Next]_vars
  PROVE  /\ CountsLastErrors'
         /\ b.state = "closed" /\ b'.state = "open" => Burst'
<1>t. b \in BreakerType
  BY DEF TypeOK, BreakerType, States
<1>1. CASE Timer
  <2>1. b'.state = "halfOpen"
    BY <1>1, <1>t, ChangeStateType, Zeros DEF Timer
  <2> QED BY <2>1 DEF CountsLastErrors
<1>2. CASE Tick \/ UNCHANGED vars \/ \E w \in Workers : Run(w)
  <2>1. UNCHANGED <<b, seen>>
    BY <1>2 DEF Tick, vars, Run
  <2> QED BY <2>1 DEF CountsLastErrors
<1>3. ASSUME NEW w \in Workers, Success(w)
      PROVE  CountsLastErrors' /\ (b.state = "closed" /\ b'.state = "open" => Burst')
  <2> DEFINE k == [b EXCEPT !.successes = @ + 1]
  <2>1. CASE UNCHANGED <<b, seen>>
    BY <2>1 DEF CountsLastErrors
  <2>2. CASE b' = changeState(k, "closed") /\ seen' = <<>> /\ b.state = "halfOpen"
    <3>1. changeState(k, "closed") = changeState(b, "closed")
      BY <1>t DEF changeState, BreakerType
    <3>2. b'.state = "closed" /\ b'.errors = 0
      BY <2>2, <3>1, <1>t, ChangeStateType, Zeros
    <3> QED BY <3>2, <2>2 DEF CountsLastErrors
  <2>3. CASE b' = k /\ b.state = "halfOpen"
    <3>1. b'.state = "halfOpen"
      BY <2>3, <1>t DEF BreakerType
    <3> QED BY <3>1, <2>3 DEF CountsLastErrors
  <2> QED BY <1>3, <2>1, <2>2, <2>3 DEF Success
<1>4. ASSUME NEW w \in Workers, Failure(w)
      PROVE  CountsLastErrors' /\ (b.state = "closed" /\ b'.state = "open" => Burst')
  <2> DEFINE k == Expired(b)
  <2>k. k \in BreakerType /\ k.state = b.state
    BY ExpiredKeeps
  <2> HIDE DEF k
  <2>1. CASE openBreaker(k) /\ k.state = "halfOpen"
    <3>1. b'.state = "open"
      BY <2>1, <2>k, ChangeStateType, Zeros DEF openBreaker
    <3> QED BY <3>1, <2>1, <2>k DEF CountsLastErrors
  <2>2. CASE openBreaker(k) /\ k.state = "closed" /\ k.errors + 1 = errorThreshold /\ seen' = Append(seen, now)
    <3>1. b'.state = "open"
      BY <2>2, <2>k, ChangeStateType, Zeros DEF openBreaker
    <3>2. Len(seen') >= errorThreshold
          /\ \A i \in Len(seen') - errorThreshold + 1 .. Len(seen') - 1 : seen'[i + 1] - seen'[i] <= timeout
      <4>1. /\ errorThreshold \in 1 .. Len(seen') /\ Len(seen') = Len(seen) + 1
            /\ \A i \in Len(seen') - errorThreshold + 1 .. Len(seen') - 1 : seen'[i + 1] - seen'[i] <= timeout
        BY <2>2, <2>k, FailureCounts DEF k
      <4> QED BY <4>1, BreakerAssumption DEF TypeOK
    <3> QED BY <3>1, <3>2 DEF CountsLastErrors, Burst
  <2>3. CASE /\ k.state = "closed"
             /\ b' = [k EXCEPT !.errors = @ + 1, !.lastError = now] /\ seen' = Append(seen, now)
    <3>1. b'.state = "closed" /\ b'.errors = k.errors + 1 /\ b'.lastError = now
      BY <2>3, <2>k, UpdateFields DEF BreakerType
    <3>2. /\ seen' # <<>> /\ Len(seen') = Len(seen) + 1
          /\ b'.errors \in 1 .. Len(seen') /\ seen'[Len(seen')] = now
          /\ \A i \in Len(seen') - b'.errors + 1 .. Len(seen') - 1 : seen'[i + 1] - seen'[i] <= timeout
          /\ b'.errors < Len(seen')
               => seen'[Len(seen') - b'.errors + 1] - seen'[Len(seen') - b'.errors] > timeout
      BY <2>3, <2>k, <3>1, FailureCounts DEF k
    <3>3. b'.errors \in 0 .. Len(seen') /\ b'.errors > 0
      BY <3>2 DEF TypeOK
    <3> QED BY <3>1, <3>2, <3>3 DEF CountsLastErrors
  <2>4. CASE k.state = "open" /\ b' = k
    BY <2>4, <2>k DEF CountsLastErrors
  <2> QED BY <1>4, <2>1, <2>2, <2>3, <2>4 DEF Failure, k
<1> QED BY <1>1, <1>2, <1>3, <1>4 DEF Next

LEMMA CountsCorrect == Spec => []CountsLastErrors
<1>1. Init => CountsLastErrors
  BY DEF Init, Closed, CountsLastErrors
<1>2. TypeOK /\ CountsLastErrors /\ [Next]_vars => CountsLastErrors'
  BY CountsStep
<1> QED BY <1>1, <1>2, BreakerTypeCorrect, PTL DEF Spec

(***************************************************************************)
(* The breaker is never closed after errorThreshold errors without an      *)
(* error-free period, whatever the goroutines had read when they started   *)
(* the work that failed.                                                   *)
(***************************************************************************)
THEOREM BreakerOpensInTime == Spec => []ClosedMeansNoBurst
<1>1. TypeOK /\ CountsLastErrors => ClosedMeansNoBurst
  BY NoBurst DEF ClosedMeansNoBurst
<1> QED BY <1>1, BreakerTypeCorrect, CountsCorrect, PTL

(***************************************************************************)
(* And it opens from closed only on such a burst: processError counts no   *)
(* error from before an error-free period.                                 *)
(***************************************************************************)
THEOREM BreakerOpensOnBurst == Spec => OpensOnBurst
<1>1. TypeOK /\ CountsLastErrors /\ [Next]_vars => [b.state = "closed" /\ b'.state = "open" => Burst']_vars
  BY CountsStep
<1> QED BY <1>1, BreakerTypeCorrect, CountsCorrect, PTL DEF Spec, OpensOnBurst

-----------------------------------------------------------------------------
(* The broker connection. *)

At == {"new", "idle", "opening", "closing", "promise", "await"}
Promises == [id : Nat, p : Procs]
Responses == [id : Nat, p : Procs \cup {Nobody}]

\* The types of the variables, those of the channel and of the stream included.
BrokerType ==
    /\ opened \in {0, 1} /\ conn \in BOOLEAN /\ connErr \in BOOLEAN
    /\ lock \in Procs \cup {Nobody, "dial"}
    /\ correlationID \in Nat
    /\ responses \in Seq(Promises) /\ responsesOpen \in BOOLEAN
    /\ receiver \in {"off", "range", "read"} /\ aligned \in BOOLEAN /\ torn \in BOOLEAN
    /\ current \in IF receiver = "read" THEN Promises ELSE {NoPromise}
    /\ stream \in Seq(Responses)
    /\ pc \in [Procs -> At]
    /\ DOMAIN result = Procs

\* The lock is with the goroutine that closes or promises.
LockHeld == \A p \in Procs : lock = p <=> pc[p] \in {"closing", "promise"}

\* Of the goroutine between flag and lock, the dial and the connection there is
\* one when the flag is set, and none when it is not.
FlagHeld ==
    /\ \A p, q \in Procs : pc[p] = "opening" /\ pc[q] = "opening" => p = q
    /\ \A p \in Procs : pc[p] = "opening" => opened = 1 /\ ~conn /\ lock # "dial"
    /\ lock = "dial" \/ conn => opened = 1
    /\ lock = "dial" => ~conn
    /\ opened = 1 => conn \/ lock = "dial" \/ \E p \in Procs : pc[p] = "opening"

\* The receiver and the channel of promises live as long as the connection; the
\* channel is closed while the broker is.
ChannelHeld ==
    /\ \A p \in Procs : pc[p] \in {"closing", "promise"} => conn
    /\ \A p \in Procs : pc[p] = "closing" => ~responsesOpen
    /\ ~conn => receiver = "off" /\ ~responsesOpen
    /\ responsesOpen => receiver # "off"
    /\ conn /\ ~responsesOpen => \E p \in Procs : pc[p] = "closing"
    /\ receiver = "off" => responses = <<>>
    /\ Len(responses) <= MaxOpenRequests - 1

\* No goroutine waits twice, and the ids of the promises are in the past.
PromisesApart ==
    /\ \A i, j \in 1 .. Len(responses) : responses[i].p = responses[j].p => i = j
    /\ \A i \in 1 .. Len(responses) : responses[i].p # current.p /\ responses[i].id < correlationID
    /\ receiver = "read" => current.id < correlationID
    /\ \A p \in Procs : pc[p] = "promise" => correlationID > 0

\* The response with the id of a pending promise is the one to its request.
StreamOwn ==
    \A k \in 1 .. Len(stream) :
        /\ stream[k].id < correlationID
        /\ receiver = "read" /\ stream[k].id = current.id => stream[k].p = current.p
        /\ \A i \in 1 .. Len(responses) : stream[k].id = responses[i].id => stream[k].p = responses[i].p
        /\ \A p \in Procs : pc[p] = "promise" /\ stream[k].id = correlationID - 1 => stream[k].p = p

-----------------------------------------------------------------------------
LEMMA Empty == ASSUME NEW S PROVE <<>> \in Seq(S) /\ Len(<<>>) = 0
OBVIOUS

\* Sequences: what is appended is last, what is taken is first.
LEMMA Appended ==
  ASSUME NEW S, NEW s \in Seq(S), NEW e \in S
  PROVE  /\ Append(s, e) \in Seq(S)
         /\ Len(Append(s, e)) = Len(s) + 1 /\ Len(s) \in Nat
         /\ \A i \in 1 .. Len(s) : Append(s, e)[i] = s[i] /\ s[i] \in S
         /\ Append(s, e)[Len(s) + 1] = e
         /\ \A i \in 1 .. Len(Append(s, e)) : i \in 1 .. Len(s) \/ i = Len(s) + 1
OBVIOUS

LEMMA Taken ==
  ASSUME NEW S, NEW s \in Seq(S), s # <<>>
  PROVE  /\ Tail(s) \in Seq(S) /\ Head(s) \in S /\ Head(s) = s[1]
         /\ Len(s) \in Nat \ {0} /\ Len(Tail(s)) = Len(s) - 1
         /\ \A i \in 1 .. Len(Tail(s)) : i + 1 \in 1 .. Len(s) /\ Tail(s)[i] = s[i + 1]
         /\ \A i \in 1 .. Len(s) : i = 1 \/ (i - 1 \in 1 .. Len(Tail(s)) /\ Tail(s)[i - 1] = s[i])
OBVIOUS

LEMMA Members ==
  ASSUME BrokerType
  PROVE  /\ \A i \in 1 .. Len(responses) : responses[i].id \in Nat /\ responses[i].p \in Procs
         /\ \A k \in 1 .. Len(stream) : stream[k].id \in Nat
<1>1. \A i \in 1 .. Len(responses) : responses[i] \in Promises
  BY DEF BrokerType
<1>2. \A k \in 1 .. Len(stream) : stream[k] \in Responses
  BY DEF BrokerType
<1> QED
  BY <1>1, <1>2 DEF Promises, Responses

\* Neither the dial nor nobody is a goroutine.
LEMMA NobodyApart ==
  /\ Nobody \notin Procs /\ "dial" \notin Procs /\ Nobody # "dial"
  /\ NoPromise.p = Nobody /\ NoPromise.p \notin Procs
BY BrokerAssumption DEF Nobody, NoPromise

LEMMA Renamed ==
  ASSUME NEW r \in Responses
  PROVE  [r EXCEPT !.p = Nobody] \in Responses /\ [r EXCEPT !.p = Nobody].id = r.id
BY DEF Responses

\* Giving up keeps every response where it is, and changes only whose it is.
LEMMA GivesUp ==
  ASSUME BrokerType, receiver = "read"
  PROVE  /\ GivenUp(stream) \in Seq(Responses)
         /\ Len(GivenUp(stream)) = Len(stream)
         /\ \A k \in 1 .. Len(stream) :
              /\ GivenUp(stream)[k].id = stream[k].id
              /\ stream[k].p # current.p => GivenUp(stream)[k].p = stream[k].p
<1>1. \A k \in 1 .. Len(stream) :
         /\ stream[k] \in Responses
         /\ [stream[k] EXCEPT !.p = Nobody] \in Responses
         /\ [stream[k] EXCEPT !.p = Nobody].id = stream[k].id
  <2>1. \A k \in 1 .. Len(stream) : stream[k] \in Responses
    BY DEF BrokerType
  <2> QED
    BY <2>1, Renamed
<1>2. GivenUp(stream) \in [1 .. Len(stream) -> Responses]
  BY <1>1 DEF GivenUp
<1>3. Len(stream) \in Nat
  BY DEF BrokerType
<1>4. GivenUp(stream) \in Seq(Responses) /\ Len(GivenUp(stream)) = Len(stream)
  BY <1>2, <1>3
<1> QED
  BY <1>1, <1>4 DEF GivenUp

-----------------------------------------------------------------------------
LEMMA BrokerTypeStep ==
  ASSUME BrokerType, LockHeld, FlagHeld, ChannelHeld, PromisesApart, [BrokerNext]_brokerVars
  PROVE  BrokerType'
<1> USE DEF At, link, wire, reading, Goto, Resting
<1>1. ASSUME NEW p \in Procs, OpenCAS(p) PROVE BrokerType'
  BY <1>1 DEF BrokerType, OpenCAS
<1>2. ASSUME NEW p \in Procs, OpenLock(p) PROVE BrokerType'
  BY <1>2 DEF BrokerType, OpenLock
<1>3. ASSUME DialFails PROVE BrokerType'
  BY <1>3 DEF BrokerType, DialFails
<1>4. ASSUME Dialed PROVE BrokerType'
  <2>1. responses' \in Seq(Promises) /\ stream' \in Seq(Responses)
    BY <1>4, Empty DEF Dialed
  <2>2. current = NoPromise
    BY <1>4 DEF BrokerType, Dialed, FlagHeld, ChannelHeld
  <2> QED
    BY <1>4, <2>1, <2>2 DEF BrokerType, Dialed
<1>5. ASSUME NEW p \in Procs, CloseLock(p) PROVE BrokerType'
  BY <1>5 DEF BrokerType, CloseLock
<1>6. ASSUME NEW p \in Procs, CloseDone(p) PROVE BrokerType'
  <2>1. stream' \in Seq(Responses)
    BY <1>6, Empty DEF CloseDone
  <2> QED
    BY <1>6, <2>1 DEF BrokerType, CloseDone
<1>7. ASSUME NEW p \in Procs, NotConnected(p) \/ WriteFails(p) PROVE BrokerType'
  BY <1>7 DEF BrokerType, NotConnected, WriteFails
<1>8. ASSUME NEW p \in Procs, NEW promiseResponse \in BOOLEAN, Write(p, promiseResponse) PROVE BrokerType'
  <2>1. [id |-> correlationID, p |-> p] \in Responses
    BY DEF BrokerType, Responses
  <2>2. stream' \in Seq(Responses)
    <3>1. stream \in Seq(Responses)
      BY DEF BrokerType
    <3>2. Append(stream, [id |-> correlationID, p |-> p]) \in Seq(Responses)
      BY <2>1, <3>1, Appended
    <3> QED
      BY <1>8, <3>1, <3>2 DEF Write
  <2> QED
    BY <1>8, <2>2 DEF BrokerType, Write
<1>9. ASSUME NEW p \in Procs, Promise(p) PROVE BrokerType'
  <2>1. [id |-> correlationID - 1, p |-> p] \in Promises
    BY <1>9 DEF BrokerType, Promise, Promises, PromisesApart
  <2>2. responses' \in Seq(Promises)
    <3>1. responses \in Seq(Promises)
      BY DEF BrokerType
    <3>2. Append(responses, [id |-> correlationID - 1, p |-> p]) \in Seq(Promises)
      BY <2>1, <3>1, Appended
    <3> QED
      BY <1>9, <3>1, <3>2 DEF Promise
  <2>3. current' \in IF receiver' = "read" THEN Promises ELSE {NoPromise}
    BY <1>9, <2>1 DEF BrokerType, Promise
  <2> QED
    BY <1>9, <2>2, <2>3 DEF BrokerType, Promise
<1>10. ASSUME Take PROVE BrokerType'
  <2>1. responses' \in Seq(Promises)
    <3>1. responses \in Seq(Promises)
      BY DEF BrokerType
    <3> QED
      BY <1>10, <3>1, Taken DEF Take
  <2>2. current' \in IF receiver' = "read" THEN Promises ELSE {NoPromise}
    BY <1>10, Taken DEF BrokerType, Take
  <2> QED
    BY <1>10, <2>1, <2>2 DEF BrokerType, Take
<1>11. ASSUME NoHeader \/ WrongHeader \/ BodyFails PROVE BrokerType'
  <2>1. stream' \in Seq(Responses)
    BY <1>11, GivesUp DEF NoHeader, WrongHeader, BodyFails
  <2> QED
    BY <1>11, <2>1 DEF BrokerType, NoHeader, WrongHeader, BodyFails, Tell
<1>12. ASSUME Respond PROVE BrokerType'
  <2>1. stream' \in Seq(Responses)
    <3>1. stream \in Seq(Responses)
      BY DEF BrokerType
    <3>2. stream' = GivenUp(stream) \/ (stream # <<>> /\ stream' = Tail(stream))
      BY <1>12 DEF Respond, Matches
    <3>3. receiver = "read"
      BY <1>12 DEF Respond
    <3> QED
      BY <3>1, <3>2, <3>3, Taken, GivesUp
  <2> QED
    BY <1>12, <2>1 DEF BrokerType, Respond, Tell
<1>13. ASSUME UNCHANGED brokerVars PROVE BrokerType'
  BY <1>13 DEF BrokerType, brokerVars
<1> QED
  BY <1>1, <1>2, <1>3, <1>4, <1>5, <1>6, <1>7, <1>8, <1>9, <1>10, <1>11, <1>12, <1>13
     DEF BrokerNext, Goes, Dial, Receiver

-----------------------------------------------------------------------------
\* Lock, flag and connection, by action.
LEMMA LockStep ==
  ASSUME BrokerType, LockHeld, [BrokerNext]_brokerVars
  PROVE  LockHeld'
<1> USE NobodyApart DEF At, link, wire, reading, Goto, Resting, LockHeld
<1>1. ASSUME NEW p \in Procs, OpenCAS(p) PROVE LockHeld'
  BY <1>1 DEF BrokerType, OpenCAS
<1>2. ASSUME NEW p \in Procs, OpenLock(p) PROVE LockHeld'
  BY <1>2 DEF BrokerType, OpenLock
<1>3. ASSUME DialFails \/ Dialed PROVE LockHeld'
  BY <1>3 DEF BrokerType, DialFails, Dialed
<1>5. ASSUME NEW p \in Procs, CloseLock(p) PROVE LockHeld'
  BY <1>5 DEF BrokerType, CloseLock
<1>6. ASSUME NEW p \in Procs, CloseDone(p) PROVE LockHeld'
  BY <1>6 DEF BrokerType, CloseDone
<1>7. ASSUME NEW p \in Procs, NotConnected(p) \/ WriteFails(p) PROVE LockHeld'
  BY <1>7 DEF BrokerType, NotConnected, WriteFails
<1>8. ASSUME NEW p \in Procs, NEW promiseResponse \in BOOLEAN, Write(p, promiseResponse) PROVE LockHeld'
  BY <1>8 DEF BrokerType, Write
<1>9. ASSUME NEW p \in Procs, Promise(p) PROVE LockHeld'
  BY <1>9 DEF BrokerType, Promise
<1>10. ASSUME Take PROVE LockHeld'
  BY <1>10 DEF BrokerType, Take
<1>11. ASSUME NoHeader \/ WrongHeader \/ BodyFails \/ Respond PROVE LockHeld'
  <2>1. /\ current.p \in Procs /\ pc[current.p] = "await" /\ lock' = lock
        /\ pc' = [pc EXCEPT ![current.p] = "idle"]
    BY <1>11 DEF BrokerType, Promises, NoHeader, WrongHeader, BodyFails, Respond, Tell
  <2> QED
    BY <2>1 DEF BrokerType
<1>13. ASSUME UNCHANGED brokerVars PROVE LockHeld'
  BY <1>13 DEF BrokerType, brokerVars
<1> QED
  BY <1>1, <1>2, <1>3, <1>5, <1>6, <1>7, <1>8, <1>9, <1>10, <1>11, <1>13
     DEF BrokerNext, Goes, Dial, Receiver

LEMMA FlagStep ==
  ASSUME BrokerType, LockHeld, FlagHeld, ChannelHeld, [BrokerNext]_brokerVars
  PROVE  FlagHeld'
<1> USE NobodyApart DEF At, link, wire, reading, Goto, Resting, FlagHeld
<1>1. ASSUME NEW p \in Procs, OpenCAS(p) PROVE FlagHeld'
  BY <1>1 DEF BrokerType, OpenCAS
<1>2. ASSUME NEW p \in Procs, OpenLock(p) PROVE FlagHeld'
  BY <1>2 DEF BrokerType, OpenLock
<1>3. ASSUME DialFails \/ Dialed PROVE FlagHeld'
  BY <1>3 DEF BrokerType, DialFails, Dialed
<1>5. ASSUME NEW p \in Procs, CloseLock(p) PROVE FlagHeld'
  BY <1>5 DEF BrokerType, CloseLock
<1>6. ASSUME NEW p \in Procs, CloseDone(p) PROVE FlagHeld'
  <2>1. /\ conn /\ lock = p /\ ~conn' /\ opened' = 0 /\ lock' = Nobody
        /\ pc' = [pc EXCEPT ![p] = "idle"]
    BY <1>6 DEF CloseDone, ChannelHeld, LockHeld
  <2>2. \A q \in Procs : pc'[q] # "opening"
    BY <2>1 DEF BrokerType
  <2> QED
    BY <2>1, <2>2
<1>7. ASSUME NEW p \in Procs, NotConnected(p) \/ WriteFails(p) PROVE FlagHeld'
  <2>1. UNCHANGED <<link, lock, responses, responsesOpen, receiver, pc>>
    BY <1>7 DEF NotConnected, WriteFails
  <2> QED
    BY <2>1
<1>8. ASSUME NEW p \in Procs, NEW promiseResponse \in BOOLEAN, Write(p, promiseResponse) PROVE FlagHeld'
  <2>1. /\ lock = Nobody /\ lock' \in {p, Nobody} /\ pc[p] = "idle" /\ conn
        /\ pc' = [pc EXCEPT ![p] = "promise"] \/ pc' = pc
        /\ UNCHANGED <<opened, conn>>
    BY <1>8 DEF Write
  <2>2. \A q \in Procs : pc'[q] = "opening" => pc[q] = "opening"
    BY <2>1 DEF BrokerType
  <2> QED
    BY <2>1, <2>2
<1>9. ASSUME NEW p \in Procs, Promise(p) PROVE FlagHeld'
  <2>1. /\ lock' = Nobody /\ pc' = [pc EXCEPT ![p] = "await"] /\ pc[p] = "promise" /\ lock = p
        /\ UNCHANGED <<opened, conn>>
    BY <1>9 DEF Promise, LockHeld
  <2>2. conn /\ \A q \in Procs : pc'[q] = "opening" => pc[q] = "opening"
    BY <1>9, <2>1 DEF BrokerType, ChannelHeld
  <2> QED
    BY <2>1, <2>2
<1>10. ASSUME Take PROVE FlagHeld'
  BY <1>10 DEF BrokerType, Take
<1>11. ASSUME NoHeader \/ WrongHeader \/ BodyFails \/ Respond PROVE FlagHeld'
  <2>1. /\ current.p \in Procs /\ pc[current.p] = "await" /\ UNCHANGED <<lock, opened, conn>>
        /\ pc' = [pc EXCEPT ![current.p] = "idle"]
    BY <1>11 DEF BrokerType, Promises, NoHeader, WrongHeader, BodyFails, Respond, Tell
  <2> QED
    BY <2>1 DEF BrokerType
<1>13. ASSUME UNCHANGED brokerVars PROVE FlagHeld'
  BY <1>13 DEF BrokerType, brokerVars
<1> QED
  BY <1>1, <1>2, <1>3, <1>5, <1>6, <1>7, <1>8, <1>9, <1>10, <1>11, <1>13
     DEF BrokerNext, Goes, Dial, Receiver

LEMMA ChannelStep ==
  ASSUME BrokerType, LockHeld, FlagHeld, ChannelHeld, [BrokerNext]_brokerVars
  PROVE  ChannelHeld'
<1> USE NobodyApart, BrokerAssumption DEF At, link, wire, reading, Goto, Resting, ChannelHeld
<1>1. ASSUME NEW p \in Procs, OpenCAS(p) PROVE ChannelHeld'
  BY <1>1 DEF BrokerType, OpenCAS
<1>2. ASSUME NEW p \in Procs, OpenLock(p) PROVE ChannelHeld'
  BY <1>2 DEF BrokerType, OpenLock
<1>3. ASSUME DialFails \/ Dialed PROVE ChannelHeld'
  BY <1>3 DEF BrokerType, DialFails, Dialed, FlagHeld
<1>5. ASSUME NEW p \in Procs, CloseLock(p) PROVE ChannelHeld'
  BY <1>5 DEF BrokerType, CloseLock
<1>6. ASSUME NEW p \in Procs, CloseDone(p) PROVE ChannelHeld'
  <2>1. /\ conn /\ lock = p /\ ~conn' /\ ~responsesOpen' /\ receiver' = "off"
        /\ UNCHANGED responses
        /\ pc' = [pc EXCEPT ![p] = "idle"]
    BY <1>6 DEF CloseDone, LockHeld
  <2>2. \A q \in Procs : pc'[q] \notin {"closing", "promise"}
    BY <2>1 DEF BrokerType, LockHeld
  <2> QED
    BY <1>6, <2>1, <2>2 DEF CloseDone, BrokerType
<1>7. ASSUME NEW p \in Procs, NotConnected(p) \/ WriteFails(p) PROVE ChannelHeld'
  <2>1. UNCHANGED <<link, lock, responses, responsesOpen, receiver, pc>>
    BY <1>7 DEF NotConnected, WriteFails
  <2> QED
    BY <2>1
<1>8. ASSUME NEW p \in Procs, NEW promiseResponse \in BOOLEAN, Write(p, promiseResponse) PROVE ChannelHeld'
  BY <1>8 DEF BrokerType, Write
<1>9. ASSUME NEW p \in Procs, Promise(p) PROVE ChannelHeld'
  <2>1. /\ conn /\ conn' /\ receiver' \in {receiver, "read"} /\ UNCHANGED responsesOpen
        /\ pc' = [pc EXCEPT ![p] = "await"] /\ pc[p] = "promise" /\ lock = p
    BY <1>9 DEF Promise, LockHeld
  <2>2. responsesOpen
    BY <2>1 DEF LockHeld
  <2>3. Len(responses') <= MaxOpenRequests - 1
    <3>1. responses \in Seq(Promises) /\ [id |-> correlationID - 1, p |-> p] \in {[id |-> correlationID - 1, p |-> p]} \cup Promises
      BY DEF BrokerType
    <3>2. responses' = responses \/ (Len(responses) < MaxOpenRequests - 1 /\ responses' = Append(responses, [id |-> correlationID - 1, p |-> p]))
      BY <1>9 DEF Promise
    <3> QED
      BY <3>1, <3>2
  <2>4. receiver' # "off"
    BY <2>1, <2>2
  <2>5. \A q \in Procs : pc'[q] \in {"closing", "promise"} => pc'[q] = pc[q]
    BY <2>1 DEF BrokerType
  <2> QED
    BY <2>1, <2>2, <2>3, <2>4, <2>5
<1>10. ASSUME Take PROVE ChannelHeld'
  <2>1. UNCHANGED <<conn, pc, responsesOpen>>
    BY <1>10 DEF Take
  <2>2. Len(responses') <= MaxOpenRequests - 1
    <3>1. responses \in Seq(Promises)
      BY DEF BrokerType
    <3> QED
      BY <1>10, <3>1, Taken DEF Take
  <2> QED
    BY <1>10, <2>1, <2>2 DEF Take
<1>11. ASSUME NoHeader \/ WrongHeader \/ BodyFails \/ Respond PROVE ChannelHeld'
  <2>1. /\ current.p \in Procs /\ pc[current.p] = "await" /\ UNCHANGED <<conn, responses, responsesOpen>>
        /\ pc' = [pc EXCEPT ![current.p] = "idle"]
        /\ receiver = "read" /\ receiver' = "range"
    BY <1>11 DEF BrokerType, Promises, NoHeader, WrongHeader, BodyFails, Respond, Tell
  <2>2. \A q \in Procs : pc'[q] \in {"closing", "promise"} <=> pc[q] \in {"closing", "promise"}
    BY <2>1 DEF BrokerType
  <2>3. \A q \in Procs : pc'[q] = "closing" <=> pc[q] = "closing"
    BY <2>1 DEF BrokerType
  <2> QED
    BY <2>1, <2>2, <2>3
<1>13. ASSUME UNCHANGED brokerVars PROVE ChannelHeld'
  BY <1>13 DEF BrokerType, brokerVars
<1> QED
  BY <1>1, <1>2, <1>3, <1>5, <1>6, <1>7, <1>8, <1>9, <1>10, <1>11, <1>13
     DEF BrokerNext, Goes, Dial, Receiver

-----------------------------------------------------------------------------
\* The promises and the stream, by action.  First the steps that leave the
\* promises alone, and the stream too unless they drop it with the connection.
PromisesInv == PromisesKept /\ PromisesApart /\ StreamOwn

LEMMA Undisturbed ==
  ASSUME BrokerType, BrokerType', PromisesInv,
         UNCHANGED <<current, responses, correlationID>>,
         receiver' = "read" <=> receiver = "read",
         stream' = stream \/ stream' = <<>>,
         \A q \in Procs : /\ pc'[q] = "await" <=> pc[q] = "await"
                          /\ pc'[q] = "promise" => pc[q] = "promise"
  PROVE  PromisesInv'
<1>1. PromisesKept'
  BY DEF PromisesInv, PromisesKept
<1>2. PromisesApart'
  BY DEF PromisesInv, PromisesApart
<1>3. CASE stream' = <<>>
  BY <1>1, <1>2, <1>3, Empty DEF StreamOwn, PromisesInv
<1>4. CASE stream' = stream
  BY <1>1, <1>2, <1>4 DEF StreamOwn, PromisesInv
<1> QED
  BY <1>3, <1>4

\* A request is written: its id is new, and the response is its own.
LEMMA WritePromises ==
  ASSUME BrokerType, BrokerType', LockHeld, PromisesInv,
         NEW p \in Procs, NEW promiseResponse \in BOOLEAN, Write(p, promiseResponse)
  PROVE  PromisesInv'
<1> DEFINE written == [id |-> correlationID, p |-> p]
<1>1. /\ lock = Nobody /\ pc[p] = "idle" /\ correlationID' = correlationID + 1
      /\ UNCHANGED <<current, responses, receiver>>
  BY DEF Write, reading, wire
<1>2. /\ \A q \in Procs : pc[q] # "promise"
      /\ \A q \in Procs : pc'[q] = "await" <=> pc[q] = "await"
      /\ \A q \in Procs : pc'[q] = "promise" => q = p
  BY <1>1, NobodyApart DEF Write, LockHeld, BrokerType, Goto
<1>3. PromisesKept'
  BY <1>1, <1>2 DEF PromisesInv, PromisesKept
<1>4. correlationID \in Nat /\ stream \in Seq(Responses) /\ responses \in Seq(Promises)
  BY DEF BrokerType
<1>5. \A i \in 1 .. Len(responses) : responses[i].id \in Nat
  BY Members
<1>6. receiver = "read" => current.id \in Nat
  BY DEF BrokerType, Promises
<1>7. PromisesApart'
  BY <1>1, <1>4, <1>5, <1>6 DEF PromisesInv, PromisesApart
<1>8. written \in Responses
  BY <1>4 DEF Responses
<1>9. stream' = stream \/ stream' = Append(stream, written)
  BY DEF Write
<1>10. \A k \in 1 .. Len(stream) : stream[k].id \in Nat
  BY Members
<1>11. \A k \in 1 .. Len(stream') :
          (k \in 1 .. Len(stream) /\ stream'[k] = stream[k]) \/ stream'[k] = written
  BY <1>4, <1>8, <1>9, Appended
<1>12. \A k \in 1 .. Len(stream') : stream'[k].id < correlationID' 
                                    /\ (stream'[k].id = correlationID => stream'[k] = written)
  BY <1>1, <1>4, <1>10, <1>11 DEF PromisesInv, StreamOwn
<1>13. ASSUME NEW k \in 1 .. Len(stream')
       PROVE /\ receiver' = "read" /\ stream'[k].id = current'.id => stream'[k].p = current'.p
             /\ \A i \in 1 .. Len(responses') : stream'[k].id = responses'[i].id => stream'[k].p = responses'[i].p
  <2>1. CASE k \in 1 .. Len(stream) /\ stream'[k] = stream[k]
    BY <2>1, <1>1 DEF PromisesInv, StreamOwn
  <2>2. CASE stream'[k] = written
    <3>1. receiver = "read" => current.id # correlationID
      BY <1>4, <1>6 DEF PromisesInv, PromisesApart
    <3>2. \A i \in 1 .. Len(responses) : responses[i].id # correlationID
      BY <1>4, <1>5 DEF PromisesInv, PromisesApart
    <3> QED
      BY <2>2, <3>1, <3>2, <1>1
  <2> QED
    BY <2>1, <2>2, <1>11
<1>14. ASSUME NEW k \in 1 .. Len(stream'), NEW q \in Procs, pc'[q] = "promise",
              stream'[k].id = correlationID' - 1
       PROVE  stream'[k].p = q
  BY <1>14, <1>1, <1>2, <1>4, <1>12
<1>15. StreamOwn'
  BY <1>12, <1>13, <1>14 DEF StreamOwn
<1> QED
  BY <1>3, <1>7, <1>15 DEF PromisesInv

\* A promise is made: to the receiver, or behind those in the channel.
LEMMA PromisePromises ==
  ASSUME BrokerType, BrokerType', LockHeld, ChannelHeld, PromisesInv, NEW p \in Procs, Promise(p)
  PROVE  PromisesInv'
<1> DEFINE promise == [id |-> correlationID - 1, p |-> p]
<1>1. /\ pc[p] = "promise" /\ pc' = [pc EXCEPT ![p] = "await"] /\ UNCHANGED <<correlationID, stream>>
      /\ lock = p
  BY DEF Promise, Goto, LockHeld, wire
<1>2. /\ \A q \in Procs : pc'[q] = "await" <=> q = p \/ pc[q] = "await"
      /\ \A q \in Procs : pc'[q] # "promise"
  BY <1>1 DEF BrokerType, LockHeld
<1>3. current.p # p /\ \A i \in 1 .. Len(responses) : responses[i].p # p
  BY <1>1 DEF PromisesInv, PromisesKept
<1>4. correlationID \in Nat \ {0} /\ stream \in Seq(Responses) /\ responses \in Seq(Promises)
  BY <1>1 DEF BrokerType, PromisesInv, PromisesApart
<1>5. promise \in Promises /\ promise.id < correlationID /\ promise.p = p /\ promise.id = correlationID - 1
  BY <1>4 DEF Promises
<1>6. \A k \in 1 .. Len(stream) : stream[k].id = promise.id => stream[k].p = p
  BY <1>1, <1>5 DEF PromisesInv, StreamOwn
<1>7. CASE responses' = Append(responses, promise) /\ UNCHANGED <<receiver, current>>
  <2>1. /\ \A i \in 1 .. Len(responses) : i \in 1 .. Len(responses') /\ responses'[i] = responses[i]
        /\ Len(responses) + 1 \in 1 .. Len(responses') /\ responses'[Len(responses) + 1] = promise
        /\ \A i \in 1 .. Len(responses') : i \in 1 .. Len(responses) \/ i = Len(responses) + 1
    BY <1>4, <1>5, <1>7, Appended
  <2>2. PromisesKept'
    BY <1>2, <1>3, <1>5, <1>7, <2>1 DEF PromisesInv, PromisesKept
  <2>3. PromisesApart'
    BY <1>1, <1>2, <1>3, <1>5, <1>7, <2>1 DEF PromisesInv, PromisesApart
  <2>4. StreamOwn'
    BY <1>1, <1>2, <1>5, <1>6, <1>7, <2>1 DEF PromisesInv, StreamOwn
  <2> QED
    BY <2>2, <2>3, <2>4 DEF PromisesInv
<1>8. CASE /\ responses = <<>> /\ receiver = "range" /\ UNCHANGED responses
           /\ current' = promise /\ receiver' = "read"
  <2>1. current.p \notin Procs /\ 1 .. Len(responses) = {}
    BY <1>8, NobodyApart, Empty DEF BrokerType
  <2>2. PromisesKept'
    BY <1>2, <1>3, <1>5, <1>8, <2>1 DEF PromisesInv, PromisesKept
  <2>3. PromisesApart'
    BY <1>1, <1>2, <1>3, <1>5, <1>8, <2>1 DEF PromisesInv, PromisesApart
  <2>4. StreamOwn'
    BY <1>1, <1>2, <1>5, <1>6, <1>8, <2>1 DEF PromisesInv, StreamOwn
  <2> QED
    BY <2>2, <2>3, <2>4 DEF PromisesInv
<1> QED
  BY <1>7, <1>8 DEF Promise

\* The receiver takes the first promise.
LEMMA TakePromises ==
  ASSUME BrokerType, BrokerType', PromisesInv, Take
  PROVE  PromisesInv'
<1>0. UNCHANGED <<correlationID, stream, pc>> /\ receiver = "range"
  BY DEF Take, wire
<1>1. CASE responses = <<>>
  <2>1. UNCHANGED <<current, responses>> /\ receiver' = "off"
    BY <1>1 DEF Take
  <2> QED
    BY <1>0, <2>1, Undisturbed
<1>2. CASE responses # <<>>
  <2>1. current' = responses[1] /\ responses' = Tail(responses) /\ receiver' = "read"
    BY <1>2, Taken DEF Take, BrokerType
  <2>2. /\ \A i \in 1 .. Len(responses') : i + 1 \in 1 .. Len(responses) /\ i + 1 # 1 /\ responses'[i] = responses[i + 1]
        /\ \A i \in 1 .. Len(responses) : i = 1 \/ (i - 1 \in 1 .. Len(responses') /\ responses'[i - 1] = responses[i])
        /\ 1 \in 1 .. Len(responses)
    BY <1>2, <2>1, Taken DEF BrokerType
  <2>3. current.p \notin Procs
    BY <1>0, NobodyApart DEF BrokerType
  <2>4. PromisesKept'
    <3>1. ASSUME NEW q \in Procs
          PROVE  (\E i \in 1 .. Len(responses) : responses[i].p = q)
                   <=> (current'.p = q \/ \E i \in 1 .. Len(responses') : responses'[i].p = q)
      <4>1. ASSUME NEW i \in 1 .. Len(responses), responses[i].p = q
            PROVE  current'.p = q \/ \E j \in 1 .. Len(responses') : responses'[j].p = q
        <5>1. CASE i = 1
          BY <4>1, <5>1, <2>1
        <5>2. CASE i - 1 \in 1 .. Len(responses') /\ responses'[i - 1] = responses[i]
          BY <4>1, <5>2
        <5> QED
          BY <5>1, <5>2, <2>2
      <4>2. ASSUME NEW j \in 1 .. Len(responses'), responses'[j].p = q
            PROVE  \E i \in 1 .. Len(responses) : responses[i].p = q
        BY <4>2, <2>2
      <4> QED
        BY <4>1, <4>2, <2>1, <2>2
    <3> QED
      BY <1>0, <2>3, <3>1 DEF PromisesInv, PromisesKept
  <2>5. PromisesApart'
    <3>a. \A i, j \in 1 .. Len(responses) : responses[i].p = responses[j].p => i = j
      BY DEF PromisesInv, PromisesApart
    <3>1. ASSUME NEW i \in 1 .. Len(responses'), NEW j \in 1 .. Len(responses'), responses'[i].p = responses'[j].p
          PROVE  i = j
      <4>1. i + 1 \in 1 .. Len(responses) /\ j + 1 \in 1 .. Len(responses)
            /\ responses[i + 1].p = responses[j + 1].p
        BY <2>2, <3>1
      <4>2. i + 1 = j + 1
        BY <3>a, <4>1
      <4> QED
        BY <4>2, i \in Int, j \in Int
    <3>2. \A i \in 1 .. Len(responses') : responses'[i].p # current'.p /\ responses'[i].id < correlationID'
      <4>1. \A i \in 1 .. Len(responses) : responses[i].id < correlationID
        BY DEF PromisesInv, PromisesApart
      <4> QED
        BY <2>1, <2>2, <3>a, <4>1, <1>0
    <3> QED
      BY <3>1, <3>2, <1>0, <2>1, <2>2 DEF PromisesInv, PromisesApart
  <2>6. StreamOwn'
    BY <1>0, <2>1, <2>2 DEF PromisesInv, StreamOwn
  <2> QED
    BY <2>4, <2>5, <2>6 DEF PromisesInv
<1> QED
  BY <1>1, <1>2

\* A caller is told: its promise is gone, and the rest of the stream still
\* belongs to those that wait for it.
LEMMA TellPromises ==
  ASSUME BrokerType, BrokerType', PromisesInv, NEW outcome, receiver = "read", Tell(outcome),
         \A k \in 1 .. Len(stream') : \E m \in 1 .. Len(stream) :
            /\ stream'[k].id = stream[m].id
            /\ stream'[k].p = stream[m].p \/ stream[m].p = current.p
  PROVE  PromisesInv'
<1>1. /\ current.p \in Procs /\ UNCHANGED <<responses, correlationID>>
      /\ pc[current.p] = "await" /\ pc' = [pc EXCEPT ![current.p] = "idle"]
      /\ receiver' = "range" /\ current' = NoPromise
  BY DEF Tell, BrokerType, Promises, Goto
<1>2. \A q \in Procs : /\ pc'[q] = "await" <=> pc[q] = "await" /\ q # current.p
                       /\ pc'[q] = "promise" <=> pc[q] = "promise"
  BY <1>1 DEF BrokerType
<1>3. PromisesKept'
  BY <1>1, <1>2, NobodyApart DEF PromisesInv, PromisesKept, PromisesApart
<1>4. \A i \in 1 .. Len(responses) : responses[i].p \in Procs
  BY Members
<1>5. PromisesApart'
  BY <1>1, <1>2, <1>4, NobodyApart DEF PromisesInv, PromisesApart
<1>6. ASSUME NEW k \in 1 .. Len(stream')
      PROVE  /\ stream'[k].id < correlationID'
             /\ \A i \in 1 .. Len(responses') : stream'[k].id = responses'[i].id => stream'[k].p = responses'[i].p
             /\ \A q \in Procs : pc'[q] = "promise" /\ stream'[k].id = correlationID' - 1 => stream'[k].p = q
  <2>1. PICK m \in 1 .. Len(stream) : /\ stream'[k].id = stream[m].id
                                      /\ stream'[k].p = stream[m].p \/ stream[m].p = current.p
    OBVIOUS
  <2>2. stream'[k].id < correlationID'
    BY <1>1, <2>1 DEF PromisesInv, StreamOwn
  <2>3. ASSUME NEW i \in 1 .. Len(responses'), stream'[k].id = responses'[i].id
        PROVE  stream'[k].p = responses'[i].p
    BY <1>1, <2>1, <2>3 DEF PromisesInv, StreamOwn, PromisesApart
  <2>4. ASSUME NEW q \in Procs, pc'[q] = "promise", stream'[k].id = correlationID' - 1
        PROVE  stream'[k].p = q
    BY <1>1, <1>2, <2>1, <2>4 DEF PromisesInv, StreamOwn
  <2> QED
    BY <2>2, <2>3, <2>4
<1>7. StreamOwn'
  BY <1>1, <1>6 DEF StreamOwn
<1> QED
  BY <1>3, <1>5, <1>7 DEF PromisesInv

\* Whatever the receiver answers.
LEMMA AnswerPromises ==
  ASSUME BrokerType, BrokerType', PromisesInv, NoHeader \/ WrongHeader \/ BodyFails \/ Respond
  PROVE  PromisesInv'
<1>1. receiver = "read" /\ \E outcome : Tell(outcome)
  BY DEF NoHeader, WrongHeader, BodyFails, Respond
<1>2. \A k \in 1 .. Len(stream') : \E m \in 1 .. Len(stream) :
         /\ stream'[k].id = stream[m].id
         /\ stream'[k].p = stream[m].p \/ stream[m].p = current.p
  <2>1. CASE stream' = GivenUp(stream)
    BY <1>1, <2>1, GivesUp
  <2>2. CASE stream # <<>> /\ stream' = Tail(stream)
    BY <2>2, Taken DEF BrokerType
  <2> QED
    BY <2>1, <2>2 DEF NoHeader, WrongHeader, BodyFails, Respond, Matches
<1> QED
  BY <1>1, <1>2, TellPromises

LEMMA PromisesStep ==
  ASSUME BrokerType, BrokerType', LockHeld, FlagHeld, ChannelHeld, PromisesInv, [BrokerNext]_brokerVars
  PROVE  PromisesInv'
<1>1. ASSUME NEW p \in Procs,
             OpenCAS(p) \/ OpenLock(p) \/ CloseLock(p) \/ CloseDone(p) \/ NotConnected(p) \/ WriteFails(p)
      PROVE  PromisesInv'
  <2>1. /\ UNCHANGED <<current, responses, correlationID, receiver>>
        /\ stream' = stream \/ stream' = <<>>
    BY <1>1 DEF OpenCAS, OpenLock, CloseLock, CloseDone, NotConnected, WriteFails, reading, wire
  <2>2. \A q \in Procs : /\ pc'[q] = "await" <=> pc[q] = "await"
                         /\ pc'[q] = "promise" => pc[q] = "promise"
    BY <1>1 DEF OpenCAS, OpenLock, CloseLock, CloseDone, NotConnected, WriteFails, Goto, Resting, BrokerType
  <2> QED
    BY <2>1, <2>2, Undisturbed
<1>2. ASSUME DialFails \/ Dialed PROVE PromisesInv'
  <2>1. receiver = "off" /\ responses = <<>>
    BY <1>2 DEF DialFails, Dialed, FlagHeld, ChannelHeld
  <2> QED
    BY <1>2, <2>1, Undisturbed DEF DialFails, Dialed, reading, wire
<1>3. ASSUME UNCHANGED brokerVars PROVE PromisesInv'
  BY <1>3, Undisturbed DEF brokerVars
<1> QED
  BY <1>1, <1>2, <1>3, WritePromises, PromisePromises, TakePromises, AnswerPromises
     DEF BrokerNext, Goes, Dial, Receiver

\* A header with the id of the promise is that of its own response.
LEMMA AnswersStep ==
  ASSUME BrokerType, PromisesInv, AnswersOwn, [BrokerNext]_brokerVars
  PROVE  AnswersOwn'
<1>1. ASSUME Respond, ~Garbled PROVE AnswersOwn'
  <2>1. /\ receiver = "read" /\ stream # <<>> /\ Head(stream).id = current.id
        /\ result' = [result EXCEPT ![current.p] =
                        IF Head(stream).p = current.p THEN "answer" ELSE "wrong answer"]
    BY <1>1 DEF Respond, Matches, Tell
  <2>2. Head(stream) = stream[1] /\ 1 \in 1 .. Len(stream)
    <3>1. stream \in Seq(Responses)
      BY DEF BrokerType
    <3>2. stream # <<>>
      BY <2>1
    <3>3. Head(stream) = stream[1] /\ Len(stream) \in Nat \ {0}
      BY <3>1, <3>2, Taken
    <3> QED
      BY <3>3
  <2>3. Head(stream).p = current.p
    BY <2>1, <2>2 DEF PromisesInv, StreamOwn
  <2> QED
    BY <2>1, <2>3 DEF AnswersOwn, BrokerType
<1>2. ASSUME ~Respond \/ Garbled PROVE AnswersOwn'
  <2>1. result' = result \/ \E p \in Procs, outcome \in {"none", "error", "connErr", "NotConnected", "any bytes"} :
                               result' = [result EXCEPT ![p] = outcome]
    <3>1. ASSUME NEW p \in Procs, Write(p, TRUE) \/ Write(p, FALSE) \/ NotConnected(p) \/ WriteFails(p)
          PROVE  \E q \in Procs, outcome \in {"none", "error", "connErr", "NotConnected", "any bytes"} :
                               result' = [result EXCEPT ![q] = outcome]
      BY <3>1 DEF Write, NotConnected, WriteFails
    <3>2. ASSUME NoHeader \/ WrongHeader \/ BodyFails \/ (Respond /\ Garbled)
          PROVE  \E q \in Procs, outcome \in {"none", "error", "connErr", "NotConnected", "any bytes"} :
                               result' = [result EXCEPT ![q] = outcome]
      BY <3>2 DEF NoHeader, WrongHeader, BodyFails, Respond, Tell, BrokerType, Promises
    <3>3. ASSUME Take \/ DialFails \/ Dialed PROVE result' = result
      BY <3>3 DEF Take, DialFails, Dialed
    <3>4. ASSUME NEW p \in Procs, OpenCAS(p) \/ OpenLock(p) \/ CloseLock(p) \/ CloseDone(p) \/ Promise(p)
          PROVE  result' = result
      BY <3>4 DEF OpenCAS, OpenLock, CloseLock, CloseDone, Promise
    <3> QED
      BY <1>2, <3>1, <3>2, <3>3, <3>4 DEF BrokerNext, brokerVars, Goes, Dial, Receiver
  <2> QED
    BY <2>1 DEF AnswersOwn, BrokerType
<1> QED
  BY <1>1, <1>2

-----------------------------------------------------------------------------
\* At most one goroutine more than the channel and the receiver have room for
\* has its request out.
LEMMA OneOver ==
  ASSUME BrokerType, LockHeld, ChannelHeld, PromisesKept
  PROVE  OneOverAtMost
<1> DEFINE n == Len(responses)
           Out == {p \in Procs : pc[p] \in {"promise", "await"}}
           f == [i \in 1 .. n + 2 |-> IF i <= n THEN responses[i].p
                                      ELSE IF i = n + 1 THEN current.p ELSE lock]
<1>1. n \in Nat /\ n <= MaxOpenRequests - 1
  BY DEF BrokerType, ChannelHeld
<1>2. ASSUME NEW p \in Out PROVE \E i \in 1 .. n + 2 : f[i] = p
  <2>1. CASE pc[p] = "promise"
    <3>1. lock = p
      BY <2>1 DEF LockHeld
    <3>2. n + 2 \in 1 .. n + 2 /\ f[n + 2] = p
      BY <1>1, <3>1
    <3> QED
      BY <3>2
  <2>2. CASE current.p = p
    <3>1. n + 1 \in 1 .. n + 2 /\ f[n + 1] = p
      BY <1>1, <2>2
    <3> QED
      BY <3>1
  <2>3. ASSUME NEW i \in 1 .. n, responses[i].p = p PROVE \E j \in 1 .. n + 2 : f[j] = p
    <3>1. i \in 1 .. n + 2 /\ f[i] = p
      BY <1>1, <2>3
    <3> QED
      BY <3>1
  <2> QED
    BY <2>1, <2>2, <2>3 DEF PromisesKept
<1>3. IsFiniteSet(1 .. n + 2) /\ Cardinality(1 .. n + 2) = n + 2
  BY <1>1, FS_Interval
<1> DEFINE D == {i \in 1 .. n + 2 : f[i] \in Out}
<1>4. IsFiniteSet(D) /\ Cardinality(D) \in Nat /\ Cardinality(D) <= n + 2
  <2>1. D \in SUBSET (1 .. n + 2)
    OBVIOUS
  <2> HIDE DEF D
  <2>2. IsFiniteSet(D) /\ Cardinality(D) <= Cardinality(1 .. n + 2)
    BY <2>1, <1>3, FS_Subset
  <2> QED
    BY <2>2, <1>3, FS_CardinalityType
<1>5. [i \in D |-> f[i]] \in Surjection(D, Out)
  BY <1>2 DEF Surjection
<1>6. Cardinality(Out) <= Cardinality(D) /\ Cardinality(Out) \in Nat
  BY <1>4, <1>5, FS_Surjection, FS_CardinalityType
<1>7. Outstanding = Cardinality(Out)
  BY DEF Outstanding
<1> HIDE DEF D, Out
<1>8. Cardinality(Out) <= n + 2
  BY <1>1, <1>4, <1>6
<1> HIDE DEF n, f
<1> QED
  BY <1>1, <1>6, <1>7, <1>8, BrokerAssumption DEF OneOverAtMost

-----------------------------------------------------------------------------
\* The inductive invariant.
BrokerInv == BrokerType /\ LockHeld /\ FlagHeld /\ ChannelHeld /\ PromisesInv /\ AnswersOwn

LEMMA BInvInit == BrokerInit => BrokerInv
<1> SUFFICES ASSUME BrokerInit PROVE BrokerInv
  OBVIOUS
<1> USE NobodyApart, Empty, BrokerAssumption DEF BrokerInit
<1>1. BrokerType
  BY DEF BrokerType, At
<1>2. LockHeld /\ FlagHeld
  BY DEF LockHeld, FlagHeld
<1>3. ChannelHeld
  BY DEF ChannelHeld
<1>4. 1 .. Len(responses) = {} /\ 1 .. Len(stream) = {}
  OBVIOUS
<1>5. PromisesInv
  BY <1>4 DEF PromisesInv, PromisesKept, PromisesApart, StreamOwn
<1>6. AnswersOwn
  BY DEF AnswersOwn
<1> QED
  BY <1>1, <1>2, <1>3, <1>5, <1>6 DEF BrokerInv

LEMMA BInvStep == BrokerInv /\ [BrokerNext]_brokerVars => BrokerInv'
<1> SUFFICES ASSUME BrokerInv, [BrokerNext]_brokerVars PROVE BrokerInv'
  OBVIOUS
<1>1. BrokerType /\ LockHeld /\ FlagHeld /\ ChannelHeld /\ PromisesInv /\ PromisesApart /\ AnswersOwn
  BY DEF BrokerInv, PromisesInv
<1>2. BrokerType'
  BY <1>1, BrokerTypeStep
<1> QED
  BY <1>1, <1>2, LockStep, FlagStep, ChannelStep, PromisesStep, AnswersStep DEF BrokerInv

LEMMA BInvImplies == BrokerInv => OwnAnswer
<1> SUFFICES ASSUME BrokerInv PROVE OwnAnswer
  OBVIOUS
<1>1. OneOverAtMost
  BY OneOver DEF BrokerInv, PromisesInv
<1>2. OpenedAgrees
  <2>1. ASSUME lock = Nobody, NEW p \in Procs, pc[p] = "opening" PROVE opened = 1 /\ ~conn
    BY <2>1 DEF BrokerInv, FlagHeld
  <2> QED
    BY <2>1, NobodyApart DEF BrokerInv, FlagHeld, OpenedAgrees
<1> QED
  BY <1>1, <1>2 DEF BrokerInv, PromisesInv, OwnAnswer

\* A caller of a broker gets the response to its own request or an error, for
\* any number of goroutines and of requests in flight, through timeouts, late
\* responses and failed writes, until an end has lost its place.
THEOREM OwnAnswerHolds == BrokerSpec => []OwnAnswer
<1>1. BrokerSpec => []BrokerInv
  BY BInvInit, BInvStep, PTL DEF BrokerSpec
<1> QED
  BY <1>1, BInvImplies, PTL

-----------------------------------------------------------------------------
(* The consumer. *)

Stages == {"none", "push", "range", "select", "dispatch", "unref", "remove", "done"}
ChildType(r) ==
    r \in [at : Stages, broker : BrokerWorkers \cup {None}, trigger : {0, 1}, triggerOpen : BOOLEAN,
           dying : BOOLEAN, offset : {r.offset}, fetchSize : {r.fetchSize}, pending : {r.pending},
           incomplete : {r.incomplete}, got : {r.got}, skipped : {r.skipped}]
WorkerTypes ==
    [broker : Brokers \cup {None}, refs : Nat, inputOpen : BOOLEAN, manager : {"loop", "flush", "done"},
     buffer : SUBSET Children, subscriptions : SUBSET Children, todo : SUBSET Children,
     consumer : {"wait", "range", "update", "fetch", "handle", "abort", "drain", "drain2", "done"}]

ConsumerType ==
    /\ child = [c \in Children |-> child[c]] /\ \A c \in Children : ChildType(child[c])
    /\ worker \in [BrokerWorkers -> WorkerTypes]
    /\ brokerConsumers \in [Brokers -> BrokerWorkers \cup {None}]

\* The trigger is used by whoever has the child, while it is open.
Placed ==
    \A c \in Children :
        /\ child[c].trigger = 1 => child[c].at = "range" /\ child[c].triggerOpen
        /\ child[c].at \in {"unref", "remove", "done"} => ~child[c].triggerOpen
        /\ ~child[c].triggerOpen => child[c].at \in {"range", "unref", "remove", "done"}
        /\ child[c].at \in {"none", "dispatch", "remove", "done"} => child[c].broker = None
        /\ child[c].at = "push" => child[c].broker # None

\* The dispatcher waits for the trigger exactly while the child's worker has it.
Waits(c) == child[c].at = "range" /\ child[c].trigger = 0 /\ child[c].triggerOpen
Holds(w, c) ==
    c \in worker[w].buffer \cup worker[w].subscriptions \/ (worker[w].consumer = "drain2" /\ c \in worker[w].todo)
Held ==
    /\ \A w \in BrokerWorkers : \A c \in Children : Holds(w, c) => child[c].broker = w /\ Waits(c)
    /\ \A c \in Children : Waits(c) => child[c].broker # None /\ Holds(child[c].broker, c)

\* A worker has a child in one of its sets, and what it goes through is among
\* its subscriptions, until it drains what is still handed to it.
HeldOnce ==
    \A w \in BrokerWorkers :
        LET r == worker[w]
        IN  /\ r.buffer \cap r.subscriptions = {}
            /\ r.consumer \in {"handle", "abort"} => r.todo \subseteq r.subscriptions
            /\ r.consumer = "abort" => r.subscriptions \subseteq r.todo
            /\ r.consumer \in {"drain", "drain2"} => r.subscriptions = {}
            /\ r.consumer = "drain2" => r.buffer \cap r.todo = {}

\* The children that hold a worker, which keep its input open.
Holders(w) == {c \in Children : child[c].broker = w}
Counted ==
    \A w \in BrokerWorkers :
        /\ worker[w].refs = Cardinality(Holders(w))
        /\ worker[w].inputOpen <=> worker[w].refs > 0
        /\ worker[w].inputOpen => worker[w].manager = "loop"

\* A worker that is found for a broker can be handed children.
Registered ==
    \A k \in Brokers :
        brokerConsumers[k] # None => worker[brokerConsumers[k]].inputOpen /\ worker[brokerConsumers[k]].broker = k

ConsumerInv == ConsumerType /\ Placed /\ Held /\ HeldOnce /\ Counted /\ Registered /\ NothingBreaks

\* A step that leaves the partition consumers as they are.
LEMMA WorkersStep ==
  ASSUME ConsumerInv, child' = child, broken' = broken, worker' \in [BrokerWorkers -> WorkerTypes],
         NEW w \in BrokerWorkers, \A v \in BrokerWorkers \ {w} : worker'[v] = worker[v],
         \A c \in Children : Holds(w, c)' <=> Holds(w, c),
         worker'[w].refs = worker[w].refs, worker'[w].inputOpen = worker[w].inputOpen,
         worker[w].inputOpen => worker'[w].manager = "loop" /\ worker'[w].broker = worker[w].broker,
         HeldOnce',
         \A k \in Brokers : brokerConsumers'[k] \in {brokerConsumers[k], None},
         brokerConsumers' \in [Brokers -> BrokerWorkers \cup {None}]
  PROVE  ConsumerInv'
<1>0. ConsumerType /\ Placed /\ Held /\ HeldOnce /\ Counted /\ Registered /\ NothingBreaks
  BY DEF ConsumerInv
<1>1. ConsumerType'
  BY <1>0 DEF ConsumerType
<1>2. Placed' /\ NothingBreaks'
  BY <1>0 DEF Placed, NothingBreaks
<1>3. \A c \in Children : Waits(c)' <=> Waits(c)
  BY DEF Waits
<1>4. \A v \in BrokerWorkers : \A c \in Children : Holds(v, c)' <=> Holds(v, c)
  BY DEF Holds
<1>5. Held'
  <2>1. \A c \in Children : child[c].broker # None => child[c].broker \in BrokerWorkers
    BY <1>0 DEF ConsumerType, ChildType
  <2>2. ASSUME NEW c \in Children, Waits(c)
        PROVE  child'[c].broker # None /\ Holds(child[c].broker, c)'
    BY <1>0, <1>4, <2>1, <2>2 DEF Held
  <2>3. ASSUME NEW v \in BrokerWorkers, NEW c \in Children, Holds(v, c)
        PROVE  child'[c].broker = v /\ Waits(c)'
    BY <1>0, <1>3, <2>3 DEF Held
  <2> QED
    BY <1>3, <1>4, <2>2, <2>3 DEF Held
<1>6. Counted'
  <2>1. \A v \in BrokerWorkers : Holders(v)' = Holders(v)
    BY DEF Holders
  <2> QED
    BY <1>0, <2>1 DEF Counted
<1>7. Registered'
  <2>1. ASSUME NEW k \in Brokers, brokerConsumers'[k] # None
        PROVE  worker'[brokerConsumers'[k]].inputOpen /\ worker'[brokerConsumers'[k]].broker = k
    <3>1. brokerConsumers'[k] = brokerConsumers[k] /\ brokerConsumers[k] \in BrokerWorkers
      BY <1>0, <2>1 DEF ConsumerType
    <3>2. worker[brokerConsumers[k]].inputOpen /\ worker[brokerConsumers[k]].broker = k
      BY <1>0, <2>1, <3>1 DEF Registered
    <3> QED
      BY <3>1, <3>2
  <2> QED
    BY <2>1 DEF Registered
<1> QED
  BY <1>0, <1>1, <1>2, <1>5, <1>6, <1>7 DEF ConsumerInv

\* Nobody has a child of a worker whose input is closed.
LEMMA NobodyLeft ==
  ASSUME ConsumerInv, NEW w \in BrokerWorkers, ~worker[w].inputOpen
  PROVE  worker[w].refs = 0 /\ \A c \in Children : child[c].broker # w /\ ~Holds(w, c)
<1>0. ConsumerType /\ Held /\ Counted
  BY DEF ConsumerInv
<1>1. worker[w].refs = 0
  BY <1>0 DEF Counted, ConsumerType, WorkerTypes
<1>2. Holders(w) = {}
  <2>1. IsFiniteSet(Holders(w))
    BY ConsumerAssumption, FS_Subset DEF Holders
  <2> QED
    BY <1>0, <1>1, <2>1, FS_EmptySet DEF Counted
<1> QED
  BY <1>0, <1>1, <1>2 DEF Holders, Held

LEMMA WorkerOnlySteps ==
  ASSUME ConsumerInv, NEW w \in BrokerWorkers,
         \/ Subscribe(w) \/ InputClosed(w) \/ Flushed(w) \/ Wait(w) \/ Ended(w) \/ Fetched(w) \/ FetchFails(w)
         \/ AbortNext(w) \/ Handled(w)
  PROVE  ConsumerInv'
<1>0. ConsumerType /\ Held /\ HeldOnce /\ Counted /\ worker \in [BrokerWorkers -> WorkerTypes]
  BY DEF ConsumerInv, ConsumerType
<1>1. child' = child /\ broken' = broken
  BY DEF Subscribe, InputClosed, Flushed, Wait, Ended, Fetched, FetchFails, AbortNext, Handled
<1>2. /\ brokerConsumers' \in [Brokers -> BrokerWorkers \cup {None}]
      /\ \A k \in Brokers : brokerConsumers'[k] \in {brokerConsumers[k], None}
  BY <1>0 DEF ConsumerType, Subscribe, InputClosed, Flushed, Wait, Ended, Fetched, FetchFails, AbortNext, Handled
<1> DEFINE r == worker[w]
           q == worker'[w]
<1>3. r \in WorkerTypes
  BY <1>0
<1>4. ASSUME NEW x \in WorkerTypes, worker' = [worker EXCEPT ![w] = x],
             x.buffer \cup x.subscriptions \cup (IF x.consumer = "drain2" THEN x.todo ELSE {})
                 = r.buffer \cup r.subscriptions \cup (IF r.consumer = "drain2" THEN r.todo ELSE {}),
             x.refs = r.refs, x.inputOpen = r.inputOpen, r.inputOpen => x.manager = "loop" /\ x.broker = r.broker,
             /\ x.buffer \cap x.subscriptions = {}
             /\ x.consumer \in {"handle", "abort"} => x.todo \subseteq x.subscriptions
             /\ x.consumer = "abort" => x.subscriptions \subseteq x.todo
             /\ x.consumer \in {"drain", "drain2"} => x.subscriptions = {}
             /\ x.consumer = "drain2" => x.buffer \cap x.todo = {}
      PROVE  ConsumerInv'
  <2>1. q = x /\ \A v \in BrokerWorkers \ {w} : worker'[v] = worker[v]
    BY <1>0, <1>4
  <2>2. worker' \in [BrokerWorkers -> WorkerTypes]
    BY <1>0, <1>4
  <2>3. HeldOnce'
    BY <1>0, <1>4, <2>1 DEF HeldOnce
  <2>4. \A c \in Children : Holds(w, c)' <=> Holds(w, c)
    BY <1>4, <2>1 DEF Holds
  <2> QED
    BY <1>1, <1>2, <1>4, <2>1, <2>2, <2>3, <2>4, WorkersStep
<1>5. /\ r.buffer \cap r.subscriptions = {}
      /\ r.consumer \in {"handle", "abort"} => r.todo \subseteq r.subscriptions
      /\ r.consumer = "abort" => r.subscriptions \subseteq r.todo
      /\ r.consumer \in {"drain", "drain2"} => r.subscriptions = {}
      /\ r.consumer = "drain2" => r.buffer \cap r.todo = {}
      /\ r.inputOpen => r.manager = "loop"
  BY <1>0 DEF HeldOnce, Counted
<1>6. CASE Subscribe(w)
  <2> DEFINE x == [r EXCEPT !.buffer = {},
                            !.subscriptions = IF r.consumer = "range" THEN r.subscriptions \cup r.buffer ELSE r.subscriptions,
                            !.todo = IF r.consumer = "range" THEN {} ELSE r.buffer,
                            !.consumer = IF r.consumer = "range" THEN "update" ELSE "drain2"]
  <2>1. worker' = [worker EXCEPT ![w] = x]
    BY <1>0, <1>6 DEF Subscribe
  <2>2. r.consumer \in {"range", "drain"}
    BY <1>6 DEF Subscribe
  <2>3. x \in WorkerTypes
    BY <1>3 DEF WorkerTypes
  <2>4. /\ x.refs = r.refs /\ x.inputOpen = r.inputOpen /\ x.manager = r.manager /\ x.broker = r.broker
        /\ x.buffer = {}
        /\ x.subscriptions = IF r.consumer = "range" THEN r.subscriptions \cup r.buffer ELSE r.subscriptions
        /\ x.todo = IF r.consumer = "range" THEN {} ELSE r.buffer
        /\ x.consumer = IF r.consumer = "range" THEN "update" ELSE "drain2"
    BY <1>3 DEF WorkerTypes
  <2> HIDE DEF x, r
  <2> QED
    BY <1>4, <1>5, <2>1, <2>2, <2>3, <2>4
<1>7. CASE InputClosed(w) \/ Flushed(w)
  <2> DEFINE m == IF Flushed(w) \/ r.buffer = {} THEN "done" ELSE "flush"
             x == [r EXCEPT !.manager = m]
  <2>1. worker' = [worker EXCEPT ![w] = x] /\ ~r.inputOpen
    BY <1>0, <1>5, <1>7 DEF InputClosed, Flushed
  <2>3. x \in WorkerTypes
    BY <1>3 DEF WorkerTypes
  <2>4. /\ x.refs = r.refs /\ x.inputOpen = r.inputOpen /\ x.broker = r.broker
        /\ x.buffer = r.buffer /\ x.subscriptions = r.subscriptions /\ x.todo = r.todo /\ x.consumer = r.consumer
    BY <1>3 DEF WorkerTypes
  <2> HIDE DEF x, r
  <2> QED
    BY <1>4, <1>5, <2>1, <2>3, <2>4
<1>8. CASE Wait(w) \/ AbortNext(w) \/ Handled(w)
  <2> DEFINE m == IF AbortNext(w) THEN "drain" ELSE "range"
             x == [r EXCEPT !.consumer = m]
  <2>1. worker' = [worker EXCEPT ![w] = x]
    BY <1>0, <1>8 DEF Wait, AbortNext, Handled
  <2>2. /\ AbortNext(w) => r.todo = {} /\ r.consumer \in {"abort", "drain2"}
        /\ ~AbortNext(w) => r.consumer \in {"wait", "handle"}
    BY <1>8 DEF Wait, AbortNext, Handled
  <2>3. x \in WorkerTypes
    BY <1>3 DEF WorkerTypes
  <2>4. /\ x.refs = r.refs /\ x.inputOpen = r.inputOpen /\ x.broker = r.broker /\ x.manager = r.manager
        /\ x.buffer = r.buffer /\ x.subscriptions = r.subscriptions /\ x.todo = r.todo /\ x.consumer = m
    BY <1>3 DEF WorkerTypes
  <2> HIDE DEF x, r
  <2> QED
    BY <1>4, <1>5, <2>1, <2>2, <2>3, <2>4
<1>9. CASE Fetched(w) \/ FetchFails(w)
  <2> DEFINE m == IF FetchFails(w) THEN "abort" ELSE "handle"
             x == [r EXCEPT !.consumer = m, !.todo = r.subscriptions]
  <2>1. worker' = [worker EXCEPT ![w] = x] /\ r.consumer = "fetch"
    BY <1>0, <1>9 DEF Fetched, FetchFails
  <2>3. x \in WorkerTypes
    BY <1>3 DEF WorkerTypes
  <2>4. /\ x.refs = r.refs /\ x.inputOpen = r.inputOpen /\ x.broker = r.broker /\ x.manager = r.manager
        /\ x.buffer = r.buffer /\ x.subscriptions = r.subscriptions /\ x.todo = r.subscriptions /\ x.consumer = m
    BY <1>3 DEF WorkerTypes
  <2> HIDE DEF x, r
  <2> QED
    BY <1>4, <1>5, <2>1, <2>3, <2>4
<1>10. CASE Ended(w)
  <2>1. worker' = [worker EXCEPT ![w] = NoWorker] /\ r.consumer \in {"range", "drain"} /\ ~r.inputOpen
    BY <1>0, <1>5, <1>10 DEF Ended
  <2>2. r.refs = 0 /\ \A c \in Children : ~Holds(w, c)
    BY <2>1, NobodyLeft
  <2>3. r.buffer \cup r.subscriptions = {}
    BY <1>3, <2>2 DEF Holds, WorkerTypes
  <2>4. /\ NoWorker \in WorkerTypes /\ NoWorker.refs = 0 /\ NoWorker.inputOpen = FALSE
        /\ NoWorker.buffer = {} /\ NoWorker.subscriptions = {} /\ NoWorker.todo = {} /\ NoWorker.consumer = "done"
    BY DEF NoWorker, WorkerTypes
  <2>5. r.inputOpen = FALSE
    BY <1>3, <2>1 DEF WorkerTypes
  <2> HIDE DEF r
  <2> QED
    BY <1>4, <2>1, <2>2, <2>3, <2>4, <2>5
<1> QED
  BY <1>6, <1>7, <1>8, <1>9, <1>10

\* A step after which every child has the worker it had, and the workers their
\* references.
LEMMA SameBrokers ==
  ASSUME ConsumerInv, NothingBreaks', child' = [c \in Children |-> child'[c]],
         \A c \in Children : ChildType(child'[c]) /\ child'[c].broker = child[c].broker,
         Placed', Held', HeldOnce', brokerConsumers' = brokerConsumers,
         worker' \in [BrokerWorkers -> WorkerTypes],
         \A v \in BrokerWorkers :
            /\ worker'[v].refs = worker[v].refs /\ worker'[v].inputOpen = worker[v].inputOpen
            /\ worker'[v].broker = worker[v].broker /\ worker'[v].manager = worker[v].manager
  PROVE  ConsumerInv'
<1>0. ConsumerType /\ Counted /\ Registered
  BY DEF ConsumerInv
<1>1. ConsumerType'
  BY <1>0 DEF ConsumerType, ChildType
<1>2. \A v \in BrokerWorkers : Holders(v)' = Holders(v)
  BY DEF Holders
<1>3. Counted'
  BY <1>0, <1>2 DEF Counted
<1>4. Registered'
  BY <1>0 DEF Registered, ConsumerType
<1> QED
  BY <1>1, <1>3, <1>4 DEF ConsumerInv

\* One child changes, and who has it with it.
LEMMA OneChild ==
  ASSUME ConsumerInv, NEW c \in Children, NEW x, child' = [child EXCEPT ![c] = x], ChildType(x),
         \A v \in BrokerWorkers : \A d \in Children \ {c} : Holds(v, d)' <=> Holds(v, d),
         \A v \in BrokerWorkers :
            Holds(v, c)' <=> (x.at = "range" /\ x.trigger = 0 /\ x.triggerOpen) /\ x.broker = v,
         x.at = "range" /\ x.trigger = 0 /\ x.triggerOpen => x.broker # None,
         x.trigger = 1 => x.at = "range" /\ x.triggerOpen,
         x.at \in {"unref", "remove", "done"} => ~x.triggerOpen,
         ~x.triggerOpen => x.at \in {"range", "unref", "remove", "done"},
         x.at \in {"none", "dispatch", "remove", "done"} => x.broker = None,
         x.at = "push" => x.broker # None
  PROVE  /\ child' = [d \in Children |-> child'[d]] /\ \A d \in Children : ChildType(child'[d])
         /\ child'[c] = x /\ \A d \in Children \ {c} : child'[d] = child[d]
         /\ Placed' /\ Held'
<1>0. ConsumerType /\ Placed /\ Held
  BY DEF ConsumerInv
<1>1. child'[c] = x /\ \A d \in Children \ {c} : child'[d] = child[d]
  BY <1>0 DEF ConsumerType
<1>2. child' = [d \in Children |-> child'[d]]
  BY <1>0 DEF ConsumerType
<1>3. \A d \in Children : ChildType(child'[d])
  BY <1>0, <1>1 DEF ConsumerType
<1>4. Placed'
  BY <1>0, <1>1 DEF Placed
<1>5. \A d \in Children \ {c} : Waits(d)' <=> Waits(d)
  BY <1>1 DEF Waits
<1>6. Waits(c)' <=> x.at = "range" /\ x.trigger = 0 /\ x.triggerOpen
  BY <1>1 DEF Waits
<1>7. ASSUME NEW v \in BrokerWorkers, NEW d \in Children, Holds(v, d)'
      PROVE  child'[d].broker = v /\ Waits(d)'
  <2>1. CASE d = c
    BY <1>1, <1>6, <1>7, <2>1
  <2>2. CASE d # c
    BY <1>0, <1>1, <1>5, <1>7, <2>2 DEF Held
  <2> QED
    BY <2>1, <2>2
<1>8. ASSUME Waits(c)'
      PROVE  child'[c].broker # None /\ \A v \in BrokerWorkers : v = child'[c].broker => Holds(v, c)'
  BY <1>1, <1>6, <1>8
<1>9. ASSUME NEW d \in Children \ {c}, Waits(d)'
      PROVE  child'[d].broker # None /\ \A v \in BrokerWorkers : v = child'[d].broker => Holds(v, d)'
  BY <1>0, <1>1, <1>5, <1>9 DEF Held
<1>10. \A d \in Children : Waits(d)' => child'[d].broker \in BrokerWorkers
  BY <1>3, <1>8, <1>9 DEF ChildType
<1>11. Held'
  <2>1. \A d \in Children : Waits(d)' => (\A v \in BrokerWorkers : v = child'[d].broker => Holds(v, d)')
    BY <1>8, <1>9
  <2> QED
    BY <1>7, <1>8, <1>9, <1>10, <2>1 DEF Held, Holds
<1> QED
  BY <1>1, <1>2, <1>3, <1>4, <1>11

\* A child is given back by a worker that goes through it.
LEMMA GivesBack ==
  ASSUME ConsumerInv, NEW w \in BrokerWorkers, NEW c \in Children, NEW x, ChildType(x),
         x.at = child[c].at, x.broker = child[c].broker, x.trigger = child[c].trigger,
         x.triggerOpen = child[c].triggerOpen,
         c \in worker[w].todo, worker[w].consumer \in {"handle", "abort", "drain2"}, GiveBack(w, c, x)
  PROVE  ConsumerInv'
<1>0. ConsumerType /\ Placed /\ Held /\ HeldOnce /\ Counted /\ worker \in [BrokerWorkers -> WorkerTypes]
  BY DEF ConsumerInv, ConsumerType
<1>1. Holds(w, c) /\ c \notin worker[w].buffer
  BY <1>0 DEF HeldOnce, Holds, WorkerTypes
<1>2. child[c].broker = w /\ Waits(c)
  BY <1>0, <1>1 DEF Held
<1>3. \A v \in BrokerWorkers \ {w} : ~Holds(v, c)
  BY <1>0, <1>2 DEF Held
<1> DEFINE y == Triggered(x)
<1>4. NothingBreaks' /\ child' = [child EXCEPT ![c] = y] /\ brokerConsumers' = brokerConsumers
  <2>1. child[c].triggerOpen = TRUE
    BY <1>0, <1>2 DEF Waits, ConsumerType, ChildType
  <2> QED
    BY <1>0, <2>1 DEF GiveBack, Misused, ConsumerInv, NothingBreaks
<1>5. /\ ChildType(y) /\ y.at = "range" /\ y.broker = w /\ y.trigger = 1 /\ y.triggerOpen
  <2>1. x.trigger = 0 /\ x.at = "range" /\ x.broker = w /\ x.triggerOpen
    BY <1>2 DEF Waits
  <2>2. y = [x EXCEPT !.trigger = 1]
    BY <2>1 DEF Triggered
  <2>3. y.trigger = 1 /\ y.at = x.at /\ y.broker = x.broker /\ y.triggerOpen = x.triggerOpen
    BY <2>2 DEF ChildType
  <2>4. ChildType(y)
    BY <2>2 DEF ChildType
  <2> QED
    BY <2>1, <2>3, <2>4
<1> DEFINE r == worker[w]
           q == [r EXCEPT !.todo = r.todo \ {c}, !.subscriptions = r.subscriptions \ {c}]
<1>6. r \in WorkerTypes /\ q \in WorkerTypes
  BY <1>0 DEF WorkerTypes
<1>7. worker' = [worker EXCEPT ![w] = q] /\ worker' \in [BrokerWorkers -> WorkerTypes]
  BY <1>0, <1>6 DEF GiveBack
<1>8. /\ q.broker = r.broker /\ q.refs = r.refs /\ q.inputOpen = r.inputOpen /\ q.manager = r.manager
      /\ q.buffer = r.buffer /\ q.consumer = r.consumer
      /\ q.todo = r.todo \ {c} /\ q.subscriptions = r.subscriptions \ {c}
  BY <1>6 DEF WorkerTypes
<1>9. worker'[w] = q /\ \A v \in BrokerWorkers \ {w} : worker'[v] = worker[v]
  BY <1>0, <1>7
<1> HIDE DEF y, q
<1>10. HeldOnce'
  BY <1>0, <1>8, <1>9 DEF HeldOnce
<1>11. \A v \in BrokerWorkers : \A d \in Children \ {c} : Holds(v, d)' <=> Holds(v, d)
  BY <1>8, <1>9 DEF Holds
<1>12. \A v \in BrokerWorkers : ~Holds(v, c)'
  BY <1>1, <1>3, <1>8, <1>9 DEF Holds
<1>13. /\ child' = [d \in Children |-> child'[d]] /\ \A d \in Children : ChildType(child'[d])
       /\ child'[c] = y /\ \A d \in Children \ {c} : child'[d] = child[d]
       /\ Placed' /\ Held'
  <2>1. \A v \in BrokerWorkers :
           Holds(v, c)' <=> (y.at = "range" /\ y.trigger = 0 /\ y.triggerOpen) /\ y.broker = v
    BY <1>5, <1>12
  <2>2. /\ y.at = "range" /\ y.trigger = 0 /\ y.triggerOpen => y.broker # None
        /\ y.trigger = 1 => y.at = "range" /\ y.triggerOpen
        /\ y.at \in {"unref", "remove", "done"} => ~y.triggerOpen
        /\ ~y.triggerOpen => y.at \in {"range", "unref", "remove", "done"}
        /\ y.at \in {"none", "dispatch", "remove", "done"} => y.broker = None
        /\ y.at = "push" => y.broker # None
    BY <1>5
  <2> QED
    BY <1>4, <1>5, <1>11, <2>1, <2>2, OneChild
<1>14. \A d \in Children : child'[d].broker = child[d].broker
  BY <1>2, <1>5, <1>13
<1> QED
  BY <1>4, <1>7, <1>8, <1>9, <1>10, <1>13, <1>14, SameBrokers

\* What a worker does for a child that it keeps, and what the user does.
LEMMA ChildKept ==
  ASSUME ConsumerInv, NEW c \in Children, NEW x, ChildType(x), child' = [child EXCEPT ![c] = x],
         x.at = child[c].at, x.broker = child[c].broker, x.trigger = child[c].trigger,
         x.triggerOpen = child[c].triggerOpen,
         \/ worker' = worker
         \/ \E w \in BrokerWorkers : \E T \in SUBSET worker[w].todo :
               worker[w].consumer = "handle" /\ worker' = [worker EXCEPT ![w].todo = T],
         NothingBreaks', brokerConsumers' = brokerConsumers
  PROVE  ConsumerInv'
<1>0. ConsumerType /\ Placed /\ Held /\ HeldOnce /\ Counted /\ worker \in [BrokerWorkers -> WorkerTypes]
  BY DEF ConsumerInv, ConsumerType
<1> DEFINE Same ==
        /\ worker' \in [BrokerWorkers -> WorkerTypes]
        /\ \A v \in BrokerWorkers :
              /\ worker'[v].broker = worker[v].broker /\ worker'[v].refs = worker[v].refs
              /\ worker'[v].inputOpen = worker[v].inputOpen /\ worker'[v].manager = worker[v].manager
              /\ worker'[v].buffer = worker[v].buffer /\ worker'[v].consumer = worker[v].consumer
              /\ worker'[v].subscriptions = worker[v].subscriptions
              /\ \/ worker'[v].todo = worker[v].todo
                 \/ worker[v].consumer = "handle" /\ worker'[v].todo \subseteq worker[v].todo
<1>1. Same
  <2>1. CASE worker' = worker
    BY <1>0, <2>1
  <2>2. ASSUME NEW w \in BrokerWorkers, NEW T \in SUBSET worker[w].todo,
               worker[w].consumer = "handle", worker' = [worker EXCEPT ![w].todo = T]
        PROVE  Same
    <3> DEFINE q == [worker[w] EXCEPT !.todo = T]
    <3>1. q \in WorkerTypes
      BY <1>0 DEF WorkerTypes
    <3>2. worker' = [worker EXCEPT ![w] = q]
      BY <1>0, <2>2
    <3>3. /\ q.broker = worker[w].broker /\ q.refs = worker[w].refs
          /\ q.inputOpen = worker[w].inputOpen /\ q.manager = worker[w].manager
          /\ q.buffer = worker[w].buffer /\ q.consumer = worker[w].consumer
          /\ q.subscriptions = worker[w].subscriptions /\ q.todo = T
      BY <1>0 DEF WorkerTypes
    <3> HIDE DEF q
    <3> QED
      BY <1>0, <2>2, <3>1, <3>2, <3>3
  <2> QED
    BY <2>1, <2>2
<1>4. HeldOnce'
  BY <1>0, <1>1 DEF HeldOnce
<1>5. \A v \in BrokerWorkers : \A d \in Children : Holds(v, d)' <=> Holds(v, d)
  BY <1>1 DEF Holds
<1>6. \A v \in BrokerWorkers :
         Holds(v, c)' <=> (x.at = "range" /\ x.trigger = 0 /\ x.triggerOpen) /\ x.broker = v
  BY <1>0, <1>5 DEF Held, Waits
<1>7. /\ child' = [d \in Children |-> child'[d]] /\ \A d \in Children : ChildType(child'[d])
      /\ child'[c] = x /\ \A d \in Children \ {c} : child'[d] = child[d]
      /\ Placed' /\ Held'
  <2>1. x.at = "range" /\ x.trigger = 0 /\ x.triggerOpen => x.broker # None
    BY <1>0 DEF Held, Waits
  <2>2. /\ x.trigger = 1 => x.at = "range" /\ x.triggerOpen
        /\ x.at \in {"unref", "remove", "done"} => ~x.triggerOpen
        /\ ~x.triggerOpen => x.at \in {"range", "unref", "remove", "done"}
        /\ x.at \in {"none", "dispatch", "remove", "done"} => x.broker = None
        /\ x.at = "push" => x.broker # None
    BY <1>0 DEF Placed
  <2> QED
    BY <1>5, <1>6, <2>1, <2>2, OneChild
<1>8. \A d \in Children : child'[d].broker = child[d].broker
  BY <1>7
<1> QED
  BY <1>1, <1>4, <1>7, <1>8, SameBrokers

LEMMA ChildSteps ==
  ASSUME ConsumerInv, NEW w \in BrokerWorkers, NEW c \in Children,
         Abort(w, c) \/ BlockError(w, c) \/ NoMessage(w, c) \/ Messages(w, c) \/ Deliver(w, c)
  PROVE  ConsumerInv'
<1>0. ConsumerType /\ NothingBreaks /\ worker \in [BrokerWorkers -> WorkerTypes] /\ ChildType(child[c])
  BY DEF ConsumerInv, ConsumerType
<1> DEFINE r == child[c]
<1>1. CASE Abort(w, c)
  <2>1. GiveBack(w, c, child[c]) /\ c \in worker[w].todo /\ worker[w].consumer \in {"handle", "abort", "drain2"}
    BY <1>1 DEF Abort, GiveBack
  <2> QED
    BY <1>0, <2>1, GivesBack
<1>2. CASE BlockError(w, c)
  BY <1>0, <1>2, GivesBack DEF BlockError, Handling
<1>3. CASE NoMessage(w, c)
  <2> DEFINE x == IF ~TooLarge(c) THEN r
                  ELSE IF MaxFetch > 0 /\ r.fetchSize = MaxFetch
                       THEN [r EXCEPT !.offset = r.offset + 1, !.skipped = r.skipped \cup {r.offset}]
                       ELSE [r EXCEPT !.fetchSize = Grown(r.fetchSize)]
  <2>1. child' = [child EXCEPT ![c] = x]
    BY <1>3 DEF NoMessage
  <2>2. /\ ChildType(x) /\ x.at = r.at /\ x.broker = r.broker /\ x.trigger = r.trigger
        /\ x.triggerOpen = r.triggerOpen
    BY <1>0 DEF ChildType
  <2>3. /\ worker[w].consumer = "handle" /\ worker' = [worker EXCEPT ![w].todo = worker[w].todo \ {c}]
        /\ NothingBreaks' /\ brokerConsumers' = brokerConsumers
    BY <1>0, <1>3 DEF NoMessage, Handling, NothingBreaks
  <2>4. worker[w].todo \ {c} \in SUBSET worker[w].todo
    OBVIOUS
  <2> HIDE DEF x
  <2> QED
    BY <2>1, <2>2, <2>3, <2>4, ChildKept
<1>4. CASE Messages(w, c)
  <2>1. PICK batch \in Batches(c) :
          LET pending == ToSend(batch, child[c].offset)
              x == [child[c] EXCEPT !.fetchSize = Default]
          IN  IF pending = <<>> THEN GiveBack(w, c, x)
              ELSE /\ child' = [child EXCEPT ![c] = [x EXCEPT !.pending = pending,
                                              !.incomplete = Incomplete(batch, child[c].offset)]]
                   /\ UNCHANGED <<children, brokerConsumers, worker, broken>>
    BY <1>4 DEF Messages
  <2> DEFINE x == [r EXCEPT !.fetchSize = Default]
             y == [x EXCEPT !.pending = ToSend(batch, r.offset), !.incomplete = Incomplete(batch, r.offset)]
  <2>2. /\ ChildType(x) /\ x.at = r.at /\ x.broker = r.broker /\ x.trigger = r.trigger
        /\ x.triggerOpen = r.triggerOpen
    BY <1>0 DEF ChildType
  <2>3. CASE GiveBack(w, c, x)
    <3>1. worker[w].consumer = "handle" /\ c \in worker[w].todo
      BY <1>4 DEF Messages, Handling
    <3> HIDE DEF x
    <3> QED
      BY <2>2, <2>3, <3>1, GivesBack
  <2>4. CASE child' = [child EXCEPT ![c] = y] /\ UNCHANGED <<children, brokerConsumers, worker, broken>>
    <3>1. /\ ChildType(y) /\ y.at = r.at /\ y.broker = r.broker /\ y.trigger = r.trigger
          /\ y.triggerOpen = r.triggerOpen
      BY <1>0 DEF ChildType
    <3>2. NothingBreaks' /\ worker' = worker /\ brokerConsumers' = brokerConsumers
      BY <1>0, <2>4 DEF NothingBreaks
    <3> HIDE DEF y
    <3> QED
      BY <2>4, <3>1, <3>2, ChildKept
  <2> QED
    BY <2>1, <2>3, <2>4
<1>5. CASE Deliver(w, c)
  <2> DEFINE m == Head(r.pending)
             last == Len(r.pending) = 1
             x == [r EXCEPT !.pending = Tail(r.pending), !.got = Append(r.got, m), !.offset = m + 1,
                            !.incomplete = r.incomplete /\ ~last]
  <2>1. /\ worker[w].consumer = "handle" /\ c \in worker[w].todo
        /\ IF last /\ r.incomplete THEN GiveBack(w, c, x)
           ELSE /\ child' = [child EXCEPT ![c] = x]
                /\ worker' = IF last THEN [worker EXCEPT ![w].todo = @ \ {c}] ELSE worker
                /\ UNCHANGED <<children, brokerConsumers, broken>>
    BY <1>5 DEF Deliver
  <2>2. /\ ChildType(x) /\ x.at = r.at /\ x.broker = r.broker /\ x.trigger = r.trigger
        /\ x.triggerOpen = r.triggerOpen
    BY <1>0 DEF ChildType
  <2> HIDE DEF x
  <2>3. CASE GiveBack(w, c, x)
    BY <2>1, <2>2, <2>3, GivesBack
  <2>4. CASE child' = [child EXCEPT ![c] = x] /\ worker' = worker /\ UNCHANGED <<children, brokerConsumers, broken>>
    <3>1. NothingBreaks'
      BY <1>0, <2>4 DEF NothingBreaks
    <3> QED
      BY <2>2, <2>4, <3>1, ChildKept
  <2>5. CASE /\ child' = [child EXCEPT ![c] = x] /\ worker' = [worker EXCEPT ![w].todo = @ \ {c}]
             /\ UNCHANGED <<children, brokerConsumers, broken>>
    <3>1. NothingBreaks' /\ worker[w].todo \ {c} \in SUBSET worker[w].todo
      BY <1>0, <2>5 DEF NothingBreaks
    <3>2. worker' = [worker EXCEPT ![w].todo = worker[w].todo \ {c}]
      BY <1>0, <2>5
    <3> QED
      BY <2>1, <2>2, <2>5, <3>1, <3>2, ChildKept
  <2> QED
    BY <2>1, <2>3, <2>4, <2>5
<1> QED
  BY <1>1, <1>2, <1>3, <1>4, <1>5

LEMMA Closes == ASSUME ConsumerInv, NEW c \in Children, AsyncClose(c) PROVE ConsumerInv'
<1> DEFINE x == [child[c] EXCEPT !.dying = TRUE]
<1>0. ConsumerType /\ NothingBreaks /\ ChildType(child[c])
  BY DEF ConsumerInv, ConsumerType
<1>1. /\ ChildType(x) /\ x.at = child[c].at /\ x.broker = child[c].broker /\ x.trigger = child[c].trigger
      /\ x.triggerOpen = child[c].triggerOpen
  BY <1>0 DEF ChildType
<1>2. child' = [child EXCEPT ![c] = x]
  BY <1>0 DEF AsyncClose, ConsumerType
<1>3. NothingBreaks' /\ worker' = worker /\ brokerConsumers' = brokerConsumers
  BY <1>0 DEF AsyncClose, NothingBreaks
<1> HIDE DEF x
<1> QED
  BY <1>1, <1>2, <1>3, ChildKept

\* A step of a dispatcher that has its child, which concerns no worker.
LEMMA DispatcherSteps ==
  ASSUME ConsumerInv, NEW c \in Children, RangeTrigger(c) \/ Dying(c) \/ DispatchFails(c) \/ Remove(c)
  PROVE  ConsumerInv'
<1>0. /\ ConsumerType /\ Placed /\ Held /\ HeldOnce /\ NothingBreaks
      /\ worker \in [BrokerWorkers -> WorkerTypes] /\ ChildType(child[c])
  BY DEF ConsumerInv, ConsumerType
<1> DEFINE r == child[c]
           Kept(x) == /\ ChildType(x) /\ x.broker = r.broker /\ ~(x.at = "range" /\ x.trigger = 0 /\ x.triggerOpen)
                      /\ x.trigger = 1 => x.at = "range" /\ x.triggerOpen
                      /\ x.at \in {"unref", "remove", "done"} => ~x.triggerOpen
                      /\ ~x.triggerOpen => x.at \in {"range", "unref", "remove", "done"}
                      /\ x.at \in {"none", "dispatch", "remove", "done"} => x.broker = None
                      /\ x.at = "push" => x.broker # None
<1>1. worker' = worker /\ brokerConsumers' = brokerConsumers
  BY DEF RangeTrigger, Dying, DispatchFails, Remove
<1>2. ASSUME NEW x, child' = [child EXCEPT ![c] = x], Kept(x), ~Waits(c), NothingBreaks'
      PROVE  ConsumerInv'
  <2>1. \A v \in BrokerWorkers : \A d \in Children : Holds(v, d)' <=> Holds(v, d)
    BY <1>1 DEF Holds
  <2>2. \A v \in BrokerWorkers : ~Holds(v, c)'
    BY <1>0, <1>2, <2>1 DEF Held
  <2>3. \A v \in BrokerWorkers :
           Holds(v, c)' <=> (x.at = "range" /\ x.trigger = 0 /\ x.triggerOpen) /\ x.broker = v
    BY <1>2, <2>2
  <2>4. /\ child' = [d \in Children |-> child'[d]] /\ \A d \in Children : ChildType(child'[d])
        /\ child'[c] = x /\ \A d \in Children \ {c} : child'[d] = child[d]
        /\ Placed' /\ Held'
    <3> HIDE DEF r
    <3> QED
      BY <1>2, <2>1, <2>3, OneChild
  <2>5. HeldOnce'
    BY <1>0, <1>1 DEF HeldOnce
  <2>6. \A d \in Children : child'[d].broker = child[d].broker
    BY <1>2, <2>4
  <2> QED
    BY <1>0, <1>1, <1>2, <2>4, <2>5, <2>6, SameBrokers
<1>3. /\ r.trigger = 1 => r.at = "range" /\ r.triggerOpen
      /\ r.at \in {"unref", "remove", "done"} => ~r.triggerOpen
      /\ ~r.triggerOpen => r.at \in {"range", "unref", "remove", "done"}
      /\ r.at \in {"none", "dispatch", "remove", "done"} => r.broker = None
      /\ r.trigger \in {0, 1} /\ r.triggerOpen \in BOOLEAN
  BY <1>0 DEF Placed, ChildType
<1>4. CASE RangeTrigger(c) /\ r.trigger = 1
  <2> DEFINE x == [r EXCEPT !.trigger = 0, !.at = "select"]
  <2>1. child' = [child EXCEPT ![c] = x] /\ NothingBreaks'
    BY <1>0, <1>4 DEF RangeTrigger, NothingBreaks
  <2>2. ChildType(x) /\ x.at = "select" /\ x.trigger = 0 /\ x.triggerOpen = r.triggerOpen /\ x.broker = r.broker
    BY <1>0 DEF ChildType, Stages
  <2>3. Kept(x)
    BY <1>3, <1>4, <2>2
  <2>4. ~Waits(c)
    BY <1>4 DEF Waits
  <2> HIDE DEF x, Kept
  <2> QED
    BY <1>2, <2>1, <2>3, <2>4
<1>5. CASE RangeTrigger(c) /\ r.trigger # 1
  <2> DEFINE x == [r EXCEPT !.at = "unref"]
  <2>1. child' = [child EXCEPT ![c] = x] /\ NothingBreaks' /\ ~r.triggerOpen
    BY <1>0, <1>5 DEF RangeTrigger, NothingBreaks
  <2>2. ChildType(x) /\ x.at = "unref" /\ x.trigger = r.trigger /\ x.triggerOpen = r.triggerOpen /\ x.broker = r.broker
    BY <1>0 DEF ChildType, Stages
  <2>3. Kept(x)
    BY <1>3, <1>5, <2>1, <2>2
  <2> HIDE DEF x, Kept
  <2> QED
    BY <1>2, <1>5, <2>1, <2>3 DEF Waits
<1>6. CASE Dying(c)
  <2> DEFINE x == [r EXCEPT !.at = "range", !.triggerOpen = FALSE]
  <2>1. child' = [child EXCEPT ![c] = x] /\ r.at = "select"
    BY <1>6 DEF Dying, TriggerClosed
  <2>2. ChildType(x) /\ x.at = "range" /\ x.trigger = r.trigger /\ x.triggerOpen = FALSE /\ x.broker = r.broker
    BY <1>0 DEF ChildType, Stages
  <2>3. Kept(x)
    BY <1>3, <2>1, <2>2
  <2>4. NothingBreaks'
    BY <1>0, <1>3, <1>6, <2>1 DEF Dying, Misused, NothingBreaks
  <2> HIDE DEF x, Kept
  <2> QED
    BY <1>2, <2>1, <2>3, <2>4 DEF Waits
<1>7. CASE DispatchFails(c)
  <2> DEFINE x == [r EXCEPT !.at = "range", !.trigger = r.trigger + 1]
  <2>1. child' = [child EXCEPT ![c] = x] /\ r.at = "dispatch"
    BY <1>7 DEF DispatchFails, Triggered
  <2>2. r.trigger = 0 /\ r.triggerOpen = TRUE
    BY <1>3, <2>1
  <2>3. ChildType(x) /\ x.at = "range" /\ x.trigger = 1 /\ x.triggerOpen = TRUE /\ x.broker = r.broker
    <3>1. x = [r EXCEPT !.at = "range", !.trigger = 1]
      BY <2>2
    <3> QED
      BY <1>0, <2>2, <3>1 DEF ChildType, Stages
  <2>4. Kept(x)
    BY <1>3, <2>1, <2>3
  <2>5. NothingBreaks'
    BY <1>0, <1>7, <2>2 DEF DispatchFails, Misused, NothingBreaks
  <2> HIDE DEF x, Kept
  <2> QED
    BY <1>2, <2>1, <2>4, <2>5 DEF Waits
<1>8. CASE Remove(c)
  <2> DEFINE x == [r EXCEPT !.at = "done"]
  <2>1. child' = [child EXCEPT ![c] = x] /\ NothingBreaks' /\ r.at = "remove"
    BY <1>0, <1>8 DEF Remove, NothingBreaks
  <2>2. ChildType(x) /\ x.at = "done" /\ x.trigger = r.trigger /\ x.triggerOpen = r.triggerOpen /\ x.broker = r.broker
    BY <1>0 DEF ChildType, Stages
  <2>3. Kept(x)
    BY <1>3, <2>1, <2>2
  <2> HIDE DEF x, Kept
  <2> QED
    BY <1>2, <2>1, <2>3 DEF Waits
<1> QED
  BY <1>4, <1>5, <1>6, <1>7, <1>8

\* A child that was handed to a worker gets to it.
LEMMA InputStep == ASSUME ConsumerInv, NEW c \in Children, Input(c) PROVE ConsumerInv'
<1> DEFINE w == child[c].broker
           x == [child[c] EXCEPT !.at = "range"]
<1>0. /\ ConsumerType /\ Placed /\ Held /\ HeldOnce /\ Counted /\ NothingBreaks
      /\ worker \in [BrokerWorkers -> WorkerTypes] /\ ChildType(child[c])
  BY DEF ConsumerInv, ConsumerType
<1>1. child[c].at = "push" /\ w \in BrokerWorkers /\ child[c].trigger = 0 /\ child[c].triggerOpen = TRUE
  BY <1>0 DEF Input, Placed, ChildType
<1>2. worker[w].inputOpen
  BY <1>1, NobodyLeft
<1>3. NothingBreaks' /\ brokerConsumers' = brokerConsumers /\ child' = [child EXCEPT ![c] = x]
  BY <1>0, <1>2 DEF Input, NothingBreaks
<1>4. ChildType(x) /\ x.at = "range" /\ x.trigger = 0 /\ x.triggerOpen = TRUE /\ x.broker = w
  BY <1>0, <1>1 DEF ChildType, Stages
<1>5. \A v \in BrokerWorkers : ~Holds(v, c)
  BY <1>0, <1>1 DEF Held, Waits
<1> DEFINE r == worker[w]
           q == [r EXCEPT !.buffer = r.buffer \cup {c}]
<1>6. r \in WorkerTypes /\ q \in WorkerTypes
  BY <1>0, <1>1 DEF WorkerTypes
<1>7. worker' = [worker EXCEPT ![w] = q]
  BY <1>0, <1>1 DEF Input
<1>8. /\ q.broker = r.broker /\ q.refs = r.refs /\ q.inputOpen = r.inputOpen /\ q.manager = r.manager
      /\ q.buffer = r.buffer \cup {c} /\ q.consumer = r.consumer
      /\ q.todo = r.todo /\ q.subscriptions = r.subscriptions
  BY <1>6 DEF WorkerTypes
<1> HIDE DEF w, q, x
<1>9. /\ worker'[w] = q /\ \A v \in BrokerWorkers \ {w} : worker'[v] = worker[v]
      /\ worker' \in [BrokerWorkers -> WorkerTypes]
  BY <1>0, <1>1, <1>6, <1>7
<1>10. HeldOnce'
  <2>1. c \notin r.subscriptions /\ (r.consumer = "drain2" => c \notin r.todo)
    BY <1>1, <1>5 DEF Holds
  <2> QED
    BY <1>0, <1>1, <1>8, <1>9, <2>1 DEF HeldOnce
<1>11. \A v \in BrokerWorkers : \A d \in Children \ {c} : Holds(v, d)' <=> Holds(v, d)
  BY <1>8, <1>9 DEF Holds
<1>12. \A v \in BrokerWorkers : Holds(v, c)' <=> v = w
  BY <1>1, <1>5, <1>8, <1>9 DEF Holds
<1>13. /\ child' = [d \in Children |-> child'[d]] /\ \A d \in Children : ChildType(child'[d])
       /\ child'[c] = x /\ \A d \in Children \ {c} : child'[d] = child[d]
       /\ Placed' /\ Held'
  <2>1. \A v \in BrokerWorkers :
           Holds(v, c)' <=> (x.at = "range" /\ x.trigger = 0 /\ x.triggerOpen) /\ x.broker = v
    BY <1>4, <1>12
  <2>2. x.broker # None
    BY <1>1, <1>4, ConsumerAssumption DEF None
  <2> QED
    BY <1>3, <1>4, <1>11, <2>1, <2>2, OneChild
<1>14. \A d \in Children : child'[d].broker = child[d].broker
  BY <1>4, <1>13 DEF w
<1>15. \A v \in BrokerWorkers :
            /\ worker'[v].refs = worker[v].refs /\ worker'[v].inputOpen = worker[v].inputOpen
            /\ worker'[v].broker = worker[v].broker /\ worker'[v].manager = worker[v].manager
  BY <1>8, <1>9
<1> QED
  BY <1>3, <1>9, <1>10, <1>13, <1>14, <1>15, SameBrokers

\* The dying children of a worker are let go.
LEMMA UpdateStep ==
  ASSUME ConsumerInv, NEW w \in BrokerWorkers, updateSubscriptionCache(w) PROVE ConsumerInv'
<1>0. /\ ConsumerType /\ Placed /\ Held /\ HeldOnce /\ Counted /\ NothingBreaks
      /\ worker \in [BrokerWorkers -> WorkerTypes]
  BY DEF ConsumerInv, ConsumerType
<1> DEFINE r == worker[w]
           dead == {c \in r.subscriptions : child[c].dying}
           left == r.subscriptions \ dead
           q == [r EXCEPT !.subscriptions = left, !.consumer = IF left = {} THEN "wait" ELSE "fetch"]
<1>1. r \in WorkerTypes /\ dead \subseteq Children /\ r.consumer = "update"
  BY <1>0 DEF WorkerTypes, updateSubscriptionCache
<1>2. /\ worker' = [worker EXCEPT ![w] = q]
      /\ child' = [c \in Children |-> IF c \in dead THEN TriggerClosed(child[c]) ELSE child[c]]
      /\ brokerConsumers' = brokerConsumers
  BY <1>0 DEF updateSubscriptionCache
<1>3. q \in WorkerTypes
  BY <1>1 DEF WorkerTypes
<1>4. /\ q.broker = r.broker /\ q.refs = r.refs /\ q.inputOpen = r.inputOpen /\ q.manager = r.manager
      /\ q.buffer = r.buffer /\ q.subscriptions = left /\ q.consumer \in {"wait", "fetch"}
  BY <1>1 DEF WorkerTypes
<1>5. \A c \in dead : Holds(w, c) /\ c \notin r.buffer
  BY <1>0 DEF Holds, HeldOnce
<1>6. \A c \in dead : child[c].broker = w /\ Waits(c) /\ \A v \in BrokerWorkers \ {w} : ~Holds(v, c)
  BY <1>0, <1>1, <1>5 DEF Held
<1>7. NothingBreaks'
  BY <1>0, <1>6 DEF updateSubscriptionCache, Misused, Waits, NothingBreaks
<1>8. /\ worker'[w] = q /\ \A v \in BrokerWorkers \ {w} : worker'[v] = worker[v]
      /\ worker' \in [BrokerWorkers -> WorkerTypes]
  BY <1>0, <1>2, <1>3
<1>9. \A c \in Children \ dead : child'[c] = child[c]
  BY <1>2
<1>10. ASSUME NEW c \in dead
       PROVE  /\ ChildType(child'[c]) /\ child'[c].at = child[c].at /\ child'[c].trigger = child[c].trigger
              /\ child'[c].broker = child[c].broker /\ child'[c].triggerOpen = FALSE
  <2>1. child'[c] = [child[c] EXCEPT !.triggerOpen = FALSE]
    BY <1>1, <1>2 DEF TriggerClosed
  <2>2. ChildType(child[c])
    BY <1>0, <1>1 DEF ConsumerType
  <2> HIDE DEF dead
  <2> QED
    BY <2>1, <2>2 DEF ChildType
<1> HIDE DEF dead, q
<1>11. Placed'
  <2>1. \A c \in dead : child'[c].at = "range" /\ child'[c].trigger = 0 /\ child'[c].triggerOpen = FALSE
                        /\ child'[c].broker = w
    BY <1>6, <1>10 DEF Waits
  <2> QED
    BY <1>0, <1>9, <2>1 DEF Placed
<1>12. HeldOnce'
  BY <1>0, <1>4, <1>8 DEF HeldOnce
<1>13. \A v \in BrokerWorkers : \A c \in Children \ dead : Holds(v, c)' <=> Holds(v, c)
  BY <1>1, <1>4, <1>8 DEF Holds
<1>14. \A v \in BrokerWorkers : \A c \in dead : ~Holds(v, c)'
  BY <1>4, <1>5, <1>6, <1>8 DEF Holds
<1>15. /\ \A c \in dead : ~Waits(c)'
       /\ \A c \in Children \ dead : Waits(c)' <=> Waits(c)
  BY <1>9, <1>10 DEF Waits
<1>16. Held'
  <2>1. \A v \in BrokerWorkers : \A c \in Children : Holds(v, c)' => child'[c].broker = v /\ Waits(c)'
    BY <1>0, <1>9, <1>13, <1>14, <1>15 DEF Held
  <2>2. ASSUME NEW c \in Children, Waits(c)'
        PROVE  child'[c].broker # None /\ child'[c].broker \in BrokerWorkers
               /\ \A v \in BrokerWorkers : v = child'[c].broker => Holds(v, c)'
    <3>1. c \notin dead /\ child'[c] = child[c] /\ Waits(c)
      BY <1>9, <1>15, <2>2
    <3>2. child[c].broker \in BrokerWorkers
      BY <1>0, <3>1 DEF Held, ConsumerType, ChildType
    <3> QED
      BY <1>0, <1>13, <3>1, <3>2 DEF Held
  <2> QED
    BY <2>1, <2>2 DEF Held, Holds
<1>17. child' = [c \in Children |-> child'[c]] /\ \A c \in Children : ChildType(child'[c])
  BY <1>0, <1>2, <1>9, <1>10 DEF ConsumerType
<1>18. \A c \in Children : child'[c].broker = child[c].broker
  BY <1>9, <1>10
<1> QED
  BY <1>2, <1>4, <1>7, <1>8, <1>11, <1>12, <1>16, <1>17, <1>18, SameBrokers

\* A dispatcher that has its child takes or gives up a worker for it.
LEMMA TakesOrGivesUp ==
  ASSUME ConsumerInv, NEW c \in Children, NEW x, child' = [child EXCEPT ![c] = x], ChildType(x), ~Waits(c),
         ~(x.at = "range" /\ x.trigger = 0 /\ x.triggerOpen),
         x.trigger = 1 => x.at = "range" /\ x.triggerOpen,
         x.at \in {"unref", "remove", "done"} => ~x.triggerOpen,
         ~x.triggerOpen => x.at \in {"range", "unref", "remove", "done"},
         x.at \in {"none", "dispatch", "remove", "done"} => x.broker = None,
         x.at = "push" => x.broker # None,
         \A v \in BrokerWorkers : \A d \in Children : Holds(v, d)' <=> Holds(v, d),
         HeldOnce', NothingBreaks', worker' \in [BrokerWorkers -> WorkerTypes],
         brokerConsumers' \in [Brokers -> BrokerWorkers \cup {None}], Registered',
         \A v \in BrokerWorkers :
            /\ worker'[v].inputOpen <=> worker'[v].refs > 0
            /\ worker'[v].inputOpen => worker'[v].manager = "loop",
         \A v \in BrokerWorkers :
            worker'[v].refs = IF v = child[c].broker /\ v # x.broker THEN worker[v].refs - 1
                              ELSE IF v # child[c].broker /\ v = x.broker THEN worker[v].refs + 1
                              ELSE worker[v].refs
  PROVE  ConsumerInv'
<1>0. ConsumerType /\ Held /\ Counted /\ worker \in [BrokerWorkers -> WorkerTypes]
  BY DEF ConsumerInv, ConsumerType
<1>1. \A v \in BrokerWorkers : ~Holds(v, c)'
  BY <1>0 DEF Held
<1>2. /\ child' = [d \in Children |-> child'[d]] /\ \A d \in Children : ChildType(child'[d])
      /\ child'[c] = x /\ \A d \in Children \ {c} : child'[d] = child[d]
      /\ Placed' /\ Held'
  BY <1>1, OneChild
<1>3. ConsumerType'
  BY <1>2 DEF ConsumerType
<1>4. \A v \in BrokerWorkers :
         Holders(v)' = IF v = x.broker THEN Holders(v) \cup {c} ELSE Holders(v) \ {c}
  BY <1>2 DEF Holders
<1>5. \A v \in BrokerWorkers : c \in Holders(v) <=> child[c].broker = v
  BY DEF Holders
<1>6. Counted'
  <2>1. ASSUME NEW v \in BrokerWorkers
        PROVE  worker'[v].refs = Cardinality(Holders(v)')
    <3>1. IsFiniteSet(Holders(v)) /\ worker[v].refs = Cardinality(Holders(v)) /\ worker[v].refs \in Nat
      BY <1>0, ConsumerAssumption, FS_Subset DEF Holders, Counted, WorkerTypes
    <3>2. CASE v = x.broker
      <4>1. Holders(v)' = Holders(v) \cup {c}
        BY <1>4, <3>2
      <4>2. Cardinality(Holders(v) \cup {c}) = IF c \in Holders(v) THEN Cardinality(Holders(v))
                                               ELSE Cardinality(Holders(v)) + 1
        BY <3>1, FS_AddElement
      <4> QED
        BY <1>5, <3>1, <3>2, <4>1, <4>2
    <3>3. CASE v # x.broker
      <4>1. Holders(v)' = Holders(v) \ {c}
        BY <1>4, <3>3
      <4>2. Cardinality(Holders(v) \ {c}) = IF c \in Holders(v) THEN Cardinality(Holders(v)) - 1
                                            ELSE Cardinality(Holders(v))
        BY <3>1, FS_RemoveElement
      <4> QED
        BY <1>5, <3>1, <3>3, <4>1, <4>2
    <3> QED
      BY <3>2, <3>3
  <2> QED
    BY <2>1 DEF Counted
<1> QED
  BY <1>2, <1>3, <1>6 DEF ConsumerInv

\* A child gets a worker: the broker's, or a new one.
LEMMA RefStep ==
  ASSUME ConsumerInv, NEW c \in Children, child[c].at \in {"none", "dispatch"},
         NEW k \in Brokers, refBrokerConsumer(c, k), broken' = broken
  PROVE  ConsumerInv'
<1>0. /\ ConsumerType /\ Placed /\ Held /\ HeldOnce /\ Counted /\ Registered /\ NothingBreaks
      /\ worker \in [BrokerWorkers -> WorkerTypes] /\ ChildType(child[c])
      /\ brokerConsumers \in [Brokers -> BrokerWorkers \cup {None}]
  BY DEF ConsumerInv, ConsumerType
<1> DEFINE has == brokerConsumers[k] # None
           w == IF has THEN brokerConsumers[k] ELSE CHOOSE f \in Free : TRUE
           x == [child[c] EXCEPT !.broker = w, !.at = "push"]
           old == [worker[w] EXCEPT !.refs = worker[w].refs + 1]
           new == [NoWorker EXCEPT !.broker = k, !.refs = 1, !.inputOpen = TRUE, !.manager = "loop", !.consumer = "wait"]
           q == IF has THEN old ELSE new
<1>1. /\ has \/ Free # {}
      /\ brokerConsumers' = [brokerConsumers EXCEPT ![k] = w]
      /\ worker' = [worker EXCEPT ![w] = q]
      /\ child' = [child EXCEPT ![c] = x]
  BY DEF refBrokerConsumer
<1>2. w \in BrokerWorkers /\ (~has => w \in Free)
  <2>1. CASE has
    BY <1>0, <2>1
  <2>2. CASE ~has
    <3>1. w \in Free
      BY <1>1, <2>2
    <3> QED
      BY <2>2, <3>1 DEF Free
  <2> QED
    BY <2>1, <2>2
<1>3. child[c].broker = None /\ child[c].trigger = 0 /\ child[c].triggerOpen = TRUE
  BY <1>0 DEF Placed, ChildType
<1>4. w # None
  BY <1>2, ConsumerAssumption DEF None
<1>5. ChildType(x) /\ x.at = "push" /\ x.broker = w /\ x.trigger = 0 /\ x.triggerOpen = TRUE
  <2> HIDE DEF w
  <2> QED
    BY <1>0, <1>2, <1>3 DEF ChildType, Stages
<1> DEFINE Fits == /\ ~(x.at = "range" /\ x.trigger = 0 /\ x.triggerOpen)
                   /\ x.trigger = 1 => x.at = "range" /\ x.triggerOpen
                   /\ x.at \in {"unref", "remove", "done"} => ~x.triggerOpen
                   /\ ~x.triggerOpen => x.at \in {"range", "unref", "remove", "done"}
                   /\ x.at \in {"none", "dispatch", "remove", "done"} => x.broker = None
                   /\ x.at = "push" => x.broker # None
<1> HIDE DEF w, x
<1>fit. Fits
  BY <1>4, <1>5
<1>6. CASE has
  <2>1. worker[w].inputOpen /\ worker[w].broker = k /\ worker[w].manager = "loop" /\ w = brokerConsumers[k]
    BY <1>0, <1>6 DEF Registered, Counted, w
  <2>2. /\ q \in WorkerTypes /\ q.refs = worker[w].refs + 1 /\ q.inputOpen = worker[w].inputOpen
        /\ q.broker = worker[w].broker /\ q.manager = worker[w].manager /\ q.buffer = worker[w].buffer
        /\ q.subscriptions = worker[w].subscriptions /\ q.todo = worker[w].todo /\ q.consumer = worker[w].consumer
    BY <1>0, <1>2, <1>6 DEF WorkerTypes
  <2> HIDE DEF q
  <2>3. /\ worker'[w] = q /\ \A v \in BrokerWorkers \ {w} : worker'[v] = worker[v]
        /\ worker' \in [BrokerWorkers -> WorkerTypes] /\ brokerConsumers' = brokerConsumers
    BY <1>0, <1>1, <1>2, <2>1, <2>2
  <2>4. \A v \in BrokerWorkers : \A d \in Children : Holds(v, d)' <=> Holds(v, d)
    BY <2>2, <2>3 DEF Holds
  <2>5. HeldOnce' /\ NothingBreaks' /\ Registered'
    <3>1. HeldOnce' /\ NothingBreaks'
      BY <1>0, <2>2, <2>3 DEF HeldOnce, NothingBreaks
    <3>2. \A v \in BrokerWorkers : worker'[v].inputOpen = worker[v].inputOpen /\ worker'[v].broker = worker[v].broker
      BY <2>2, <2>3
    <3>3. \A l \in Brokers : brokerConsumers[l] # None => brokerConsumers[l] \in BrokerWorkers
      BY <1>0
    <3> QED
      BY <1>0, <2>3, <3>1, <3>2, <3>3 DEF Registered
  <2>6. \A v \in BrokerWorkers :
            /\ worker'[v].inputOpen <=> worker'[v].refs > 0
            /\ worker'[v].inputOpen => worker'[v].manager = "loop"
    <3>1. worker[w].refs \in Nat /\ worker[w].inputOpen = TRUE
      BY <1>0, <1>2, <2>1 DEF WorkerTypes
    <3>2. /\ worker'[w].inputOpen <=> worker'[w].refs > 0
          /\ worker'[w].inputOpen => worker'[w].manager = "loop"
      <4>1. worker'[w].inputOpen = TRUE /\ worker'[w].manager = "loop" /\ worker'[w].refs = worker[w].refs + 1
        BY <2>1, <2>2, <2>3, <3>1
      <4>2. worker'[w].refs > 0
        BY <3>1, <4>1
      <4> QED
        BY <4>1, <4>2
    <3>3. \A v \in BrokerWorkers \ {w} :
            /\ worker'[v].inputOpen <=> worker'[v].refs > 0
            /\ worker'[v].inputOpen => worker'[v].manager = "loop"
      BY <1>0, <2>3 DEF Counted
    <3> QED
      BY <3>2, <3>3
  <2>7. \A v \in BrokerWorkers :
            worker'[v].refs = IF v = child[c].broker /\ v # x.broker THEN worker[v].refs - 1
                              ELSE IF v # child[c].broker /\ v = x.broker THEN worker[v].refs + 1
                              ELSE worker[v].refs
    BY <1>3, <1>4, <1>5, <2>2, <2>3, ConsumerAssumption DEF None
  <2>8. ~Waits(c)
    BY DEF Waits
  <2> QED
    BY <1>0, <1>1, <1>5, <1>fit, <2>3, <2>4, <2>5, <2>6, <2>7, <2>8, TakesOrGivesUp
<1>7. CASE ~has
  <2>1. worker[w] = NoWorker /\ worker[w].refs = 0 /\ worker[w].inputOpen = FALSE
    BY <1>2, <1>7 DEF Free, NoWorker
  <2>2. /\ q \in WorkerTypes /\ q.refs = 1 /\ q.inputOpen = TRUE
        /\ q.broker = k /\ q.manager = "loop" /\ q.buffer = {}
        /\ q.subscriptions = {} /\ q.todo = {} /\ q.consumer = "wait"
    BY <1>7 DEF WorkerTypes, NoWorker
  <2> HIDE DEF q
  <2>3. /\ worker'[w] = q /\ \A v \in BrokerWorkers \ {w} : worker'[v] = worker[v]
        /\ worker' \in [BrokerWorkers -> WorkerTypes]
        /\ brokerConsumers' \in [Brokers -> BrokerWorkers \cup {None}]
        /\ brokerConsumers'[k] = w /\ \A l \in Brokers \ {k} : brokerConsumers'[l] = brokerConsumers[l]
    BY <1>0, <1>1, <1>2, <2>2
  <2>4. \A v \in BrokerWorkers : \A d \in Children : Holds(v, d)' <=> Holds(v, d)
    <3>1. ASSUME NEW v \in BrokerWorkers, v = w, NEW d \in Children
          PROVE  ~Holds(v, d) /\ ~Holds(v, d)'
      BY <2>1, <2>2, <2>3, <3>1 DEF Holds, NoWorker
    <3>2. ASSUME NEW v \in BrokerWorkers \ {w}, NEW d \in Children
          PROVE  Holds(v, d)' <=> Holds(v, d)
      BY <2>3, <3>2 DEF Holds
    <3> QED
      BY <3>1, <3>2
  <2>5. HeldOnce' /\ NothingBreaks'
    BY <1>0, <2>2, <2>3 DEF HeldOnce, NothingBreaks
  <2>6. Registered'
    <3>1. \A l \in Brokers \ {k} : brokerConsumers[l] # None => brokerConsumers[l] \in BrokerWorkers \ {w}
      BY <1>0, <2>1 DEF Registered
    <3> QED
      BY <1>0, <2>2, <2>3, <3>1 DEF Registered
  <2>7. \A v \in BrokerWorkers :
            /\ worker'[v].inputOpen <=> worker'[v].refs > 0
            /\ worker'[v].inputOpen => worker'[v].manager = "loop"
    BY <1>0, <2>2, <2>3 DEF Counted
  <2>8. \A v \in BrokerWorkers :
            worker'[v].refs = IF v = child[c].broker /\ v # x.broker THEN worker[v].refs - 1
                              ELSE IF v # child[c].broker /\ v = x.broker THEN worker[v].refs + 1
                              ELSE worker[v].refs
    BY <1>3, <1>4, <1>5, <2>1, <2>2, <2>3, ConsumerAssumption DEF None
  <2>9. ~Waits(c)
    BY DEF Waits
  <2> QED
    BY <1>0, <1>1, <1>5, <1>fit, <2>3, <2>4, <2>5, <2>6, <2>7, <2>8, <2>9, TakesOrGivesUp
<1> QED
  BY <1>6, <1>7

\* A child gives its worker up: nobody has the worker's last child any more.
LEMMA UnrefStep ==
  ASSUME ConsumerInv, NEW c \in Children, NEW at \in {"dispatch", "remove"},
         child[c].at \in {"select", "unref"}, child[c].at = "select" => at = "dispatch",
         child[c].at = "unref" => at = "remove",
         child' = [child EXCEPT ![c] = [@ EXCEPT !.at = at, !.broker = None]],
         IF child[c].broker # None THEN unrefBrokerConsumer(child[c].broker)
         ELSE UNCHANGED <<worker, brokerConsumers>>,
         broken' = broken
  PROVE  ConsumerInv'
<1>0. /\ ConsumerType /\ Placed /\ Held /\ HeldOnce /\ Counted /\ Registered /\ NothingBreaks
      /\ worker \in [BrokerWorkers -> WorkerTypes] /\ ChildType(child[c])
      /\ brokerConsumers \in [Brokers -> BrokerWorkers \cup {None}]
  BY DEF ConsumerInv, ConsumerType
<1> DEFINE x == [child[c] EXCEPT !.at = at, !.broker = None]
<1>1. child' = [child EXCEPT ![c] = x]
  BY <1>0
<1>2. /\ ChildType(x) /\ x.at = at /\ x.broker = None /\ x.trigger = child[c].trigger
      /\ x.triggerOpen = child[c].triggerOpen
  BY <1>0 DEF ChildType, Stages
<1>3. child[c].trigger = 0 /\ (at = "remove" => ~child[c].triggerOpen) /\ (at = "dispatch" => child[c].triggerOpen)
  BY <1>0 DEF Placed, ChildType
<1> HIDE DEF x
<1>4. /\ ~(x.at = "range" /\ x.trigger = 0 /\ x.triggerOpen)
      /\ x.trigger = 1 => x.at = "range" /\ x.triggerOpen
      /\ x.at \in {"unref", "remove", "done"} => ~x.triggerOpen
      /\ ~x.triggerOpen => x.at \in {"range", "unref", "remove", "done"}
      /\ x.at \in {"none", "dispatch", "remove", "done"} => x.broker = None
      /\ x.at = "push" => x.broker # None
  BY <1>2, <1>3
<1>5. ~Waits(c)
  BY DEF Waits
<1>6. \A v \in BrokerWorkers : v # None
  BY ConsumerAssumption DEF None
<1>7. CASE child[c].broker = None
  <2>1. worker' = worker /\ brokerConsumers' = brokerConsumers
    BY <1>7
  <2>2. \A v \in BrokerWorkers : \A d \in Children : Holds(v, d)' <=> Holds(v, d)
    BY <2>1 DEF Holds
  <2>3. HeldOnce' /\ NothingBreaks' /\ Registered'
    BY <1>0, <2>1 DEF HeldOnce, NothingBreaks, Registered
  <2>4. \A v \in BrokerWorkers :
            /\ worker'[v].inputOpen <=> worker'[v].refs > 0
            /\ worker'[v].inputOpen => worker'[v].manager = "loop"
    BY <1>0, <2>1 DEF Counted
  <2>5. \A v \in BrokerWorkers :
            worker'[v].refs = IF v = child[c].broker /\ v # x.broker THEN worker[v].refs - 1
                              ELSE IF v # child[c].broker /\ v = x.broker THEN worker[v].refs + 1
                              ELSE worker[v].refs
    BY <1>2, <1>6, <1>7, <2>1
  <2> QED
    BY <1>0, <1>1, <1>2, <1>4, <1>5, <2>1, <2>2, <2>3, <2>4, <2>5, TakesOrGivesUp
<1>8. ASSUME NEW w \in BrokerWorkers, child[c].broker = w PROVE ConsumerInv'
  <2> DEFINE r == worker[w]
             q == [r EXCEPT !.refs = r.refs - 1, !.inputOpen = ~(r.refs = 1)]
  <2>1. /\ worker' = [worker EXCEPT ![w] = q]
        /\ brokerConsumers' = IF r.refs = 1 /\ brokerConsumers[r.broker] = w
                              THEN [brokerConsumers EXCEPT ![r.broker] = None] ELSE brokerConsumers
    BY <1>6, <1>8 DEF unrefBrokerConsumer
  <2>2. r.inputOpen = TRUE /\ r.refs \in Nat \ {0} /\ r.manager = "loop"
    BY <1>0, <1>8, NobodyLeft DEF Counted, WorkerTypes
  <2>3. /\ q \in WorkerTypes /\ q.refs = r.refs - 1 /\ q.inputOpen = ~(r.refs = 1)
        /\ q.broker = r.broker /\ q.manager = r.manager /\ q.buffer = r.buffer
        /\ q.subscriptions = r.subscriptions /\ q.todo = r.todo /\ q.consumer = r.consumer
    <3>1. r.refs - 1 \in Nat /\ r \in WorkerTypes
      BY <1>0, <2>2
    <3> QED
      BY <3>1 DEF WorkerTypes
  <2> HIDE DEF q
  <2>4. /\ worker'[w] = q /\ \A v \in BrokerWorkers \ {w} : worker'[v] = worker[v]
        /\ worker' \in [BrokerWorkers -> WorkerTypes]
        /\ brokerConsumers' \in [Brokers -> BrokerWorkers \cup {None}]
    BY <1>0, <2>1, <2>3
  <2>5. \A v \in BrokerWorkers : \A d \in Children : Holds(v, d)' <=> Holds(v, d)
    BY <2>3, <2>4 DEF Holds
  <2>6. HeldOnce' /\ NothingBreaks'
    BY <1>0, <2>3, <2>4 DEF HeldOnce, NothingBreaks
  <2>7. \A v \in BrokerWorkers :
            /\ worker'[v].inputOpen <=> worker'[v].refs > 0
            /\ worker'[v].inputOpen => worker'[v].manager = "loop"
    <3>1. /\ worker'[w].inputOpen <=> worker'[w].refs > 0
          /\ worker'[w].inputOpen => worker'[w].manager = "loop"
      <4>1. worker'[w].inputOpen = ~(r.refs = 1) /\ worker'[w].manager = "loop" /\ worker'[w].refs = r.refs - 1
        BY <2>2, <2>3, <2>4
      <4>2. worker'[w].refs > 0 <=> ~(r.refs = 1)
        BY <2>2, <4>1
      <4> QED
        BY <4>1, <4>2
    <3>2. \A v \in BrokerWorkers \ {w} :
            /\ worker'[v].inputOpen <=> worker'[v].refs > 0
            /\ worker'[v].inputOpen => worker'[v].manager = "loop"
      BY <1>0, <2>4 DEF Counted
    <3> QED
      BY <3>1, <3>2
  <2>8. Registered'
    <3>1. ASSUME NEW k \in Brokers, brokerConsumers'[k] # None
          PROVE  worker'[brokerConsumers'[k]].inputOpen /\ worker'[brokerConsumers'[k]].broker = k
      <4>1. /\ brokerConsumers'[k] = brokerConsumers[k]
            /\ ~(r.refs = 1 /\ brokerConsumers[r.broker] = w /\ k = r.broker)
        BY <1>0, <2>1, <3>1
      <4>2. /\ brokerConsumers[k] \in BrokerWorkers /\ worker[brokerConsumers[k]].inputOpen
            /\ worker[brokerConsumers[k]].broker = k
        BY <1>0, <3>1, <4>1 DEF Registered
      <4>3. CASE brokerConsumers[k] = w
        BY <2>3, <2>4, <4>1, <4>2, <4>3
      <4>4. CASE brokerConsumers[k] # w
        BY <2>4, <4>1, <4>2, <4>4
      <4> QED
        BY <4>3, <4>4
    <3> QED
      BY <3>1 DEF Registered
  <2>9. \A v \in BrokerWorkers :
            worker'[v].refs = IF v = child[c].broker /\ v # x.broker THEN worker[v].refs - 1
                              ELSE IF v # child[c].broker /\ v = x.broker THEN worker[v].refs + 1
                              ELSE worker[v].refs
    BY <1>2, <1>6, <1>8, <2>3, <2>4
  <2> QED
    BY <1>0, <1>1, <1>2, <1>4, <1>5, <2>4, <2>5, <2>6, <2>7, <2>8, <2>9, TakesOrGivesUp
<1>9. child[c].broker = None \/ child[c].broker \in BrokerWorkers
  BY <1>0 DEF ChildType
<1> QED
  BY <1>7, <1>8, <1>9

LEMMA ConsumerStarts == ConsumerInit => ConsumerInv
<1> SUFFICES ASSUME ConsumerInit PROVE ConsumerInv
  OBVIOUS
<1> USE DEF ConsumerInit
<1>1. NoWorker \in WorkerTypes /\ NoWorker.buffer = {} /\ NoWorker.subscriptions = {} /\ NoWorker.todo = {}
      /\ NoWorker.refs = 0 /\ NoWorker.inputOpen = FALSE /\ NoWorker.consumer = "done"
  BY DEF NoWorker, WorkerTypes
<1>2. ConsumerType
  BY <1>1 DEF ConsumerType, ChildType, Stages
<1>3. Placed
  BY DEF Placed
<1>4. \A w \in BrokerWorkers : \A c \in Children : ~Holds(w, c)
  BY <1>1 DEF Holds
<1>5. Held
  BY <1>4 DEF Held, Waits
<1>6. HeldOnce
  BY <1>1 DEF HeldOnce
<1>7. \A w \in BrokerWorkers : Holders(w) = {}
  BY ConsumerAssumption DEF Holders, None
<1>8. Counted
  <2>1. Cardinality({}) = 0
    BY FS_EmptySet
  <2>2. \A w \in BrokerWorkers : worker[w] = NoWorker /\ Cardinality(Holders(w)) = 0
    BY <1>7, <2>1
  <2>3. ~(NoWorker.refs > 0)
    BY <1>1
  <2> HIDE DEF ConsumerInit
  <2> QED
    BY <1>1, <2>2, <2>3 DEF Counted
<1>9. Registered
  BY DEF Registered
<1> QED
  BY <1>2, <1>3, <1>5, <1>6, <1>8, <1>9 DEF ConsumerInv, NothingBreaks

LEMMA ConsumerKeeps == ConsumerInv /\ [ConsumerNext]_consumerVars => ConsumerInv'
<1> SUFFICES ASSUME ConsumerInv, [ConsumerNext]_consumerVars PROVE ConsumerInv'
  OBVIOUS
<1>1. CASE UNCHANGED consumerVars
  <2>1. ConsumerType' /\ Placed' /\ Registered' /\ NothingBreaks'
    BY <1>1 DEF consumerVars, ConsumerInv, ConsumerType, Placed, Registered, NothingBreaks
  <2>2. Held' /\ HeldOnce'
    BY <1>1 DEF consumerVars, ConsumerInv, Held, Waits, Holds, HeldOnce
  <2>3. \A w \in BrokerWorkers : Holders(w)' = Holders(w)
    BY <1>1 DEF consumerVars, Holders
  <2>4. Counted'
    BY <1>1, <2>3 DEF consumerVars, ConsumerInv, Counted
  <2> QED
    BY <2>1, <2>2, <2>4 DEF ConsumerInv
<1>2. ASSUME NEW c \in Children, ConsumePartition(c) \/ Dispatch(c) PROVE ConsumerInv'
  <2>1. PICK k \in Brokers : refBrokerConsumer(c, k)
    BY <1>2 DEF ConsumePartition, Dispatch
  <2> QED
    BY <1>2, <2>1, RefStep DEF ConsumePartition, Dispatch
<1>3. ASSUME NEW c \in Children, Backoff(c) PROVE ConsumerInv'
  BY <1>3, UnrefStep DEF Backoff
<1>4. ASSUME NEW c \in Children, Unref(c) PROVE ConsumerInv'
  BY <1>4, UnrefStep DEF Unref
<1>5. ASSUME NEW c \in Children, ConsumePartition(c) \/ AsyncClose(c) \/ Dispatcher(c) PROVE ConsumerInv'
  BY <1>2, <1>3, <1>4, <1>5, Closes, DispatcherSteps, InputStep DEF Dispatcher
<1>6. ASSUME NEW w \in BrokerWorkers, Manager(w) \/ Fetcher(w) PROVE ConsumerInv'
  BY <1>6, WorkerOnlySteps, UpdateStep, ChildSteps DEF Manager, Fetcher
<1>7. CASE Over
  BY <1>1, <1>7 DEF Over, consumerVars
<1> QED
  BY <1>1, <1>5, <1>6, <1>7 DEF ConsumerNext

LEMMA ConsumerInvShows == ConsumerInv => OneOwner
<1> SUFFICES ASSUME ConsumerInv PROVE OneOwner
  OBVIOUS
<1>0. ConsumerType /\ Placed /\ Held /\ Counted /\ NothingBreaks
  BY DEF ConsumerInv
<1>1. \A c \in Children : With(c) = {w \in BrokerWorkers : Holds(w, c)}
  BY DEF With, Holds
<1>2. ASSUME NEW c \in Children
      PROVE  LET mine == child[c].at \notin {"none", "range"} \/ child[c].trigger = 1 \/ ~child[c].triggerOpen
             IN  /\ Cardinality(With(c)) <= 1
                 /\ With(c) # {} => ~mine
                 /\ With(c) = {} /\ child[c].at = "range" => mine
  <2>1. With(c) \subseteq {child[c].broker}
    BY <1>0, <1>1 DEF Held
  <2>2. Cardinality(With(c)) <= 1
    <3>1. IsFiniteSet({child[c].broker}) /\ Cardinality({child[c].broker}) = 1
      BY FS_Singleton
    <3>2. Cardinality(With(c)) <= Cardinality({child[c].broker})
      BY <2>1, <3>1, FS_Subset
    <3> QED
      BY <3>1, <3>2
  <2>3. With(c) # {} <=> Waits(c)
    BY <1>0, <1>1 DEF Held, ConsumerType, ChildType
  <2>4. child[c].trigger \in {0, 1}
    BY <1>0 DEF ConsumerType, ChildType
  <2> QED
    BY <2>2, <2>3, <2>4 DEF Waits
<1>3. RefsExact
  BY <1>0 DEF RefsExact, Counted, Holders
<1> QED
  BY <1>0, <1>2, <1>3 DEF OneOwner, Owned

\* A partition consumer has one owner, whatever the partitions, brokers and
\* workers, the log and the fetch sizes: no broker worker and dispatcher use its
\* trigger at a time, no worker ends under one of its children, and nobody uses
\* a closed channel.
THEOREM OneOwnerHolds == ConsumerSpec => []OneOwner
<1>1. ConsumerSpec => []ConsumerInv
  BY ConsumerStarts, ConsumerKeeps, PTL DEF ConsumerSpec
<1> QED
  BY <1>1, ConsumerInvShows, PTL

\* What a consumer reads.
\* The length of a run, and its k-th element.
LEMMA RunLength == ASSUME NEW lo \in Int, NEW hi \in Int, lo <= hi + 1
                   PROVE  Cardinality(lo .. hi) = hi - lo + 1 /\ hi - lo + 1 \in Nat
<1>1. Cardinality(lo .. hi) = IF lo > hi THEN 0 ELSE hi - lo + 1
  BY FS_Interval
<1> QED
  BY <1>1

LEMMA NthOfRun ==
  ASSUME NEW lo \in Int, NEW hi \in Int, NEW k \in 1 .. hi - lo + 1
  PROVE  (CHOOSE i \in lo .. hi : Cardinality({j \in lo .. hi : j <= i}) = k) = lo + k - 1
<1>1. ASSUME NEW i \in lo .. hi PROVE Cardinality({j \in lo .. hi : j <= i}) = i - lo + 1
  <2>1. {j \in lo .. hi : j <= i} = lo .. i
    OBVIOUS
  <2>2. i \in Int /\ lo <= i + 1
    OBVIOUS
  <2>3. Cardinality(lo .. i) = i - lo + 1
    BY <2>2, RunLength
  <2> QED
    BY <2>1, <2>3
<1> DEFINE Size1(i) == Cardinality({j \in lo .. hi : j <= i})
<1>2. \A i \in lo .. hi : Size1(i) = i - lo + 1
  BY <1>1
<1> HIDE DEF Size1
<1>3. lo + k - 1 \in lo .. hi
  OBVIOUS
<1>4. Size1(lo + k - 1) = k
  BY <1>2, <1>3
<1>5. \A i \in lo .. hi : Size1(i) = k => i = lo + k - 1
  BY <1>2
<1>6. (CHOOSE i \in lo .. hi : Size1(i) = k) = lo + k - 1
  BY <1>3, <1>4, <1>5
<1> QED
  BY <1>6 DEF Size1

\* What waits to be delivered goes on from the offset.
FromNext(p, o) == p \in Seq(Nat) /\ \A k \in 1 .. Len(p) : p[k] = o + k - 1

\* What of a response with a run of the log is sent begins at the child's
\* offset and has no gap.
LEMMA SendsRun ==
  ASSUME NEW batch, NEW o \in Nat, NEW lo \in Int, NEW hi \in Int, lo <= hi + 1,
         {i \in 1 .. Len(batch) : Sent(batch, i, o)} = lo .. hi,
         \A i \in lo .. hi : batch[i] = o + i - lo
  PROVE  FromNext(ToSend(batch, o), o)
<1> DEFINE n == hi - lo + 1
           p == ToSend(batch, o)
           sent == {i \in 1 .. Len(batch) : Sent(batch, i, o)}
           Nth(S, k) == CHOOSE i \in S : Cardinality({j \in S : j <= i}) = k
           Picked(S) == [k \in 1 .. Cardinality(S) |-> batch[Nth(S, k)]]
<1>1. Cardinality(lo .. hi) = n /\ n \in Nat
  BY RunLength
<1>2. p = Picked(sent)
  BY DEF ToSend
<1>3. ASSUME NEW k \in 1 .. n PROVE batch[Nth(lo .. hi, k)] = o + k - 1
  <2>1. Nth(lo .. hi, k) = lo + k - 1
    BY NthOfRun
  <2> HIDE DEF Nth
  <2>2. lo + k - 1 \in lo .. hi
    OBVIOUS
  <2>3. batch[lo + k - 1] = o + (lo + k - 1) - lo
    BY <2>2
  <2> QED
    BY <2>1, <2>3
<1> HIDE DEF Nth, sent
<1>8. p = Picked(lo .. hi)
  <2> HIDE DEF Picked, p
  <2>1. sent = lo .. hi
    BY DEF sent
  <2> QED
    BY <1>2, <2>1
<1>4. p = [k \in 1 .. n |-> o + k - 1]
  BY <1>1, <1>3, <1>8
<1> HIDE DEF p
<1>5. \A k \in 1 .. n : o + k - 1 \in Nat
  BY <1>1
<1>6. p \in Seq(Nat) /\ Len(p) = n
  BY <1>1, <1>4, <1>5
<1>7. \A k \in 1 .. n : p[k] = o + k - 1
  BY <1>4
<1> QED
  BY <1>6, <1>7 DEF p, FromNext

LEMMA SendsUpto ==
  ASSUME NEW o \in Nat, NEW f \in {o, o - 1}, NEW l \in {o - 1, o, o + 1}, NEW batch, batch = Upto(f, l)
  PROVE  FromNext(ToSend(batch, o), o)
<1>1. batch = [i \in 1 .. l - f + 1 |-> f + i - 1] /\ l - f + 1 \in Nat
  BY DEF Upto
<1>2. Len(batch) = l - f + 1 /\ \A i \in 1 .. l - f + 1 : batch[i] = f + i - 1
  BY <1>1
<1>3. ASSUME NEW i \in 1 .. l - f + 1 PROVE Sent(batch, i, o) <=> i >= o - f + 1
  <2>1. \A j \in 1 .. i - 1 : batch[j] < batch[i]
    BY <1>2
  <2>2. batch[i] >= o <=> i >= o - f + 1
    BY <1>2
  <2> QED
    BY <2>1, <2>2 DEF Sent
<1>4. {i \in 1 .. Len(batch) : Sent(batch, i, o)} = {i \in 1 .. l - f + 1 : i >= o - f + 1}
  BY <1>2, <1>3
<1>5. {i \in 1 .. l - f + 1 : i >= o - f + 1} = o - f + 1 .. l - f + 1
  OBVIOUS
<1>6. \A i \in o - f + 1 .. l - f + 1 : batch[i] = o + i - (o - f + 1)
  <2>1. \A i \in o - f + 1 .. l - f + 1 : i \in 1 .. l - f + 1
    OBVIOUS
  <2> QED
    BY <1>2, <2>1
<1>7. o - f + 1 \in Int /\ l - f + 1 \in Int /\ o - f + 1 <= (l - f + 1) + 1
  OBVIOUS
<1> QED
  BY <1>4, <1>5, <1>6, <1>7, SendsRun

LEMMA SendsTurned ==
  ASSUME NEW o \in Nat, NEW batch, batch = <<o, o - 1>> PROVE FromNext(ToSend(batch, o), o)
<1>1. Len(batch) = 2 /\ batch[1] = o /\ batch[2] = o - 1
  OBVIOUS
<1>2. Sent(batch, 1, o) /\ ~Sent(batch, 2, o)
  BY <1>1 DEF Sent
<1>3. {i \in 1 .. Len(batch) : Sent(batch, i, o)} = 1 .. 1
  BY <1>1, <1>2
<1>4. \A i \in 1 .. 1 : batch[i] = o + i - 1
  BY <1>1
<1>5. 1 \in Int /\ 1 <= 1 + 1
  OBVIOUS
<1> QED
  BY <1>3, <1>4, <1>5, SendsRun

LEMMA SendsFromNext ==
  ASSUME NEW c \in Children, child[c].offset \in Nat, NEW batch \in Batches(c)
  PROVE  FromNext(ToSend(batch, child[c].offset), child[c].offset)
<1> DEFINE o == child[c].offset
<1>1. \/ \E f \in {o, o - 1}, l \in {o - 1, o, o + 1} : batch = Upto(f, l)
      \/ batch = <<o, o - 1>>
  BY DEF Batches
<1> HIDE DEF o
<1>2. o \in Nat
  BY DEF o
<1>3. FromNext(ToSend(batch, o), o)
  BY <1>1, <1>2, SendsUpto, SendsTurned
<1> QED
  BY <1>3 DEF o

\* What a partition consumer has read: all before its offset, each once.
Reads(r) ==
    /\ r.offset \in Nat /\ r.got \in Seq(Nat) /\ FromNext(r.pending, r.offset)
    /\ \A i \in 1 .. Len(r.got) - 1 : r.got[i] < r.got[i + 1]
    /\ {r.got[i] : i \in 1 .. Len(r.got)} \cup r.skipped = 0 .. r.offset - 1
    /\ {r.got[i] : i \in 1 .. Len(r.got)} \cap r.skipped = {}
    /\ \A o \in r.skipped : Size(o) > MaxFetch
SameReads(r, s) == r.offset = s.offset /\ r.got = s.got /\ r.pending = s.pending /\ r.skipped = s.skipped

\* A message is delivered.
LEMMA ReadsNext ==
  ASSUME NEW r, NEW s, Reads(r), r.pending # <<>>, s.got = Append(r.got, Head(r.pending)),
         s.offset = Head(r.pending) + 1, s.pending = Tail(r.pending), s.skipped = r.skipped
  PROVE  Reads(s)
<1> DEFINE o == r.offset
           n == Len(r.got)
<1>1. /\ o \in Nat /\ r.got \in Seq(Nat) /\ n \in Nat /\ r.pending \in Seq(Nat)
      /\ \A k \in 1 .. Len(r.pending) : r.pending[k] = o + k - 1
  BY DEF Reads, FromNext
<1>2. Head(r.pending) = o
  BY <1>1
<1>3. s.offset = o + 1 /\ s.offset \in Nat
  BY <1>1, <1>2
<1>4. /\ s.got \in Seq(Nat) /\ Len(s.got) = n + 1 /\ s.got[n + 1] = o
      /\ \A i \in 1 .. n : s.got[i] = r.got[i]
  BY <1>1, <1>2
<1>5. FromNext(s.pending, s.offset)
  <2>1. s.pending \in Seq(Nat) /\ Len(s.pending) = Len(r.pending) - 1
    BY <1>1
  <2>2. \A k \in 1 .. Len(s.pending) : s.pending[k] = r.pending[k + 1]
    BY <1>1
  <2> QED
    BY <1>1, <1>3, <2>1, <2>2 DEF FromNext
<1> DEFINE G == {r.got[i] : i \in 1 .. n}
           H == {s.got[i] : i \in 1 .. Len(s.got)}
<1>6. H = G \cup {o}
  <2>1. ASSUME NEW i \in 1 .. n + 1 PROVE s.got[i] \in G \cup {o}
    <3>1. CASE i = n + 1
      BY <1>4, <3>1
    <3>2. CASE i # n + 1
      <4>1. i \in 1 .. n
        BY <1>1, <3>2
      <4>2. s.got[i] = r.got[i]
        BY <1>4, <4>1
      <4> QED
        BY <4>1, <4>2
    <3> QED
      BY <3>1, <3>2
  <2>2. \A i \in 1 .. n : r.got[i] \in H
    <3>1. \A i \in 1 .. n : i \in 1 .. Len(s.got) /\ s.got[i] = r.got[i]
      BY <1>1, <1>4
    <3> QED
      BY <3>1
  <2>3. o \in H
    <3>1. n + 1 \in 1 .. Len(s.got) /\ s.got[n + 1] = o
      BY <1>1, <1>4
    <3> QED
      BY <3>1
  <2> QED
    BY <1>4, <2>1, <2>2, <2>3
<1>7. G \cup r.skipped = 0 .. o - 1 /\ G \cap r.skipped = {} /\ (\A k \in r.skipped : Size(k) > MaxFetch)
  BY DEF Reads
<1>8. \A i \in 1 .. n : r.got[i] < o
  <2>1. \A i \in 1 .. n : r.got[i] \in G
    OBVIOUS
  <2> HIDE DEF G
  <2> QED
    BY <1>1, <1>7, <2>1
<1>9. \A i \in 1 .. Len(s.got) - 1 : s.got[i] < s.got[i + 1]
  <2> TAKE i \in 1 .. Len(s.got) - 1
  <2>1. CASE i = n
    <3>1. n \in 1 .. n
      BY <1>1, <1>4, <2>1
    <3>2. s.got[n] = r.got[n] /\ r.got[n] < o
      BY <1>4, <1>8, <3>1
    <3> QED
      BY <1>4, <2>1, <3>2
  <2>2. CASE i # n
    <3>1. i \in 1 .. n - 1 /\ i \in 1 .. n /\ i + 1 \in 1 .. n
      BY <1>1, <1>4, <2>2
    <3>2. r.got[i] < r.got[i + 1]
      BY <3>1 DEF Reads
    <3> QED
      BY <1>4, <3>1, <3>2
  <2> QED
    BY <2>1, <2>2
<1> HIDE DEF G, H
<1>10. H \cup s.skipped = 0 .. s.offset - 1 /\ H \cap s.skipped = {}
  <2>1. 0 .. s.offset - 1 = (0 .. o - 1) \cup {o} /\ o \notin 0 .. o - 1
    <3>1. s.offset - 1 = o /\ o \in Nat
      BY <1>1, <1>3
    <3>2. 0 .. o = (0 .. o - 1) \cup {o} /\ o \notin 0 .. o - 1
      BY <3>1
    <3> QED
      BY <3>1, <3>2
  <2> QED
    BY <1>6, <1>7, <2>1
<1>11. s.got \in Seq(Nat) /\ s.offset \in Nat /\ \A k \in s.skipped : Size(k) > MaxFetch
  BY <1>3, <1>4, <1>7
<1>12. H = {s.got[i] : i \in 1 .. Len(s.got)}
  BY DEF H
<1> HIDE DEF n, o
<1> QED
  BY <1>5, <1>9, <1>10, <1>11, <1>12, Zenon DEF Reads

\* A message that is too large is skipped.
LEMMA ReadsSkip ==
  ASSUME NEW r, NEW s, Reads(r), r.pending = <<>>, s.got = r.got, s.offset = r.offset + 1,
         s.pending = r.pending, s.skipped = r.skipped \cup {r.offset}, Size(r.offset) > MaxFetch
  PROVE  Reads(s)
<1>1. /\ r.offset \in Nat /\ s.offset \in Nat /\ s.got \in Seq(Nat)
      /\ \A i \in 1 .. Len(s.got) - 1 : s.got[i] < s.got[i + 1]
  BY DEF Reads
<1>2. FromNext(s.pending, s.offset)
  BY DEF FromNext
<1> DEFINE G == {r.got[i] : i \in 1 .. Len(r.got)}
<1>3. G \cup r.skipped = 0 .. r.offset - 1 /\ G \cap r.skipped = {} /\ (\A k \in r.skipped : Size(k) > MaxFetch)
  BY DEF Reads
<1>4. {s.got[i] : i \in 1 .. Len(s.got)} = G
  OBVIOUS
<1> HIDE DEF G
<1>5. G \cup s.skipped = 0 .. s.offset - 1 /\ G \cap s.skipped = {}
  <2>1. r.offset \in Nat /\ s.offset - 1 = r.offset
    BY <1>1
  <2>2. 0 .. r.offset = (0 .. r.offset - 1) \cup {r.offset} /\ r.offset \notin 0 .. r.offset - 1
    BY <2>1
  <2> QED
    BY <1>3, <2>1, <2>2
<1>6. \A k \in s.skipped : Size(k) > MaxFetch
  BY <1>3
<1> QED
  BY <1>1, <1>2, <1>4, <1>5, <1>6, Zenon DEF Reads

LEMMA ReadsAgain ==
  ASSUME NEW r, NEW s, Reads(r), s.got = r.got, s.offset = r.offset, s.skipped = r.skipped,
         FromNext(s.pending, s.offset)
  PROVE  Reads(s)
BY DEF Reads

ReadInv == \A c \in Children : Reads(child[c])

\* The steps that hand children about read nothing.
LEMMA HandingReadsNothing ==
  ASSUME ConsumerInv, ReadInv,
         \/ \E c \in Children : \/ ConsumePartition(c) \/ AsyncClose(c) \/ Dispatcher(c)
                                \/ \E w \in BrokerWorkers : Abort(w, c) \/ BlockError(w, c)
         \/ \E w \in BrokerWorkers : updateSubscriptionCache(w)
  PROVE  ReadInv'
<1>0. \A c \in Children : ChildType(child[c])
  BY DEF ConsumerInv, ConsumerType
<1>1. child = [c \in Children |-> child[c]]
  BY DEF ConsumerInv, ConsumerType
<1> DEFINE Same == \A d \in Children : SameReads(child'[d], child[d])
<1>2. ASSUME NEW c \in Children, NEW x, child' = [child EXCEPT ![c] = x], SameReads(x, child[c])
      PROVE  Same
  BY <1>1, <1>2 DEF SameReads
<1>3. ASSUME NEW c \in Children, ConsumePartition(c) \/ Dispatch(c) PROVE Same
  <2>1. PICK k \in Brokers : refBrokerConsumer(c, k)
    BY <1>3 DEF ConsumePartition, Dispatch
  <2>2. \E w : child' = [child EXCEPT ![c] = [child[c] EXCEPT !.broker = w, !.at = "push"]]
    BY <2>1 DEF refBrokerConsumer
  <2>3. PICK w : child' = [child EXCEPT ![c] = [child[c] EXCEPT !.broker = w, !.at = "push"]]
    BY <2>2
  <2> DEFINE x == [child[c] EXCEPT !.broker = w, !.at = "push"]
  <2>4. SameReads(x, child[c])
    BY <1>0 DEF SameReads, ChildType
  <2> HIDE DEF x
  <2> QED
    BY <1>2, <2>3, <2>4 DEF x
<1>4. ASSUME NEW c \in Children, Input(c) \/ Remove(c) \/ AsyncClose(c)  PROVE Same
  BY <1>0, <1>1, <1>4 DEF Input, Remove, AsyncClose, SameReads, ChildType
<1>5. ASSUME NEW c \in Children, RangeTrigger(c) PROVE Same
  <2> DEFINE x == [child[c] EXCEPT !.trigger = 0, !.at = "select"]
             y == [child[c] EXCEPT !.at = "unref"]
  <2>1. child' = [child EXCEPT ![c] = x] \/ child' = [child EXCEPT ![c] = y]
    BY <1>5 DEF RangeTrigger
  <2>2. SameReads(x, child[c]) /\ SameReads(y, child[c])
    BY <1>0 DEF SameReads, ChildType
  <2> HIDE DEF x, y
  <2> QED
    BY <1>2, <2>1, <2>2
<1>6. ASSUME NEW c \in Children, Dying(c) \/ DispatchFails(c) PROVE Same
  <2> DEFINE x == TriggerClosed([child[c] EXCEPT !.at = "range"])
             y == Triggered([child[c] EXCEPT !.at = "range"])
  <2>1. child' = [child EXCEPT ![c] = x] \/ child' = [child EXCEPT ![c] = y]
    BY <1>6 DEF Dying, DispatchFails
  <2>2. SameReads(x, child[c]) /\ SameReads(y, child[c])
    BY <1>0 DEF SameReads, ChildType, Triggered, TriggerClosed
  <2> HIDE DEF x, y
  <2> QED
    BY <1>2, <2>1, <2>2
<1>7. ASSUME NEW c \in Children, Backoff(c) \/ Unref(c) PROVE Same
  <2> DEFINE x == [child[c] EXCEPT !.at = "dispatch", !.broker = None]
             y == [child[c] EXCEPT !.at = "remove", !.broker = None]
  <2>1. child' = [child EXCEPT ![c] = x] \/ child' = [child EXCEPT ![c] = y]
    BY <1>7 DEF Backoff, Unref
  <2>2. SameReads(x, child[c]) /\ SameReads(y, child[c])
    BY <1>0 DEF SameReads, ChildType
  <2> HIDE DEF x, y
  <2> QED
    BY <1>2, <2>1, <2>2
<1>8. ASSUME NEW c \in Children, NEW w \in BrokerWorkers, Abort(w, c) \/ BlockError(w, c) PROVE Same
  BY <1>0, <1>1, <1>8 DEF Abort, BlockError, GiveBack, Triggered, SameReads, ChildType
<1>10. ASSUME NEW w \in BrokerWorkers, updateSubscriptionCache(w) PROVE Same
  BY <1>0, <1>10 DEF updateSubscriptionCache, TriggerClosed, SameReads, ChildType
<1>11. Same
  BY <1>3, <1>4, <1>5, <1>6, <1>7, <1>8, <1>10 DEF Dispatcher
<1> HIDE DEF Same
<1>12. ASSUME NEW c \in Children PROVE Reads(child'[c])
  <2>1. SameReads(child'[c], child[c]) /\ Reads(child[c])
    BY <1>11 DEF ReadInv, Same
  <2> QED
    BY <2>1, ReadsAgain DEF SameReads, Reads
<1> QED
  BY <1>12 DEF ReadInv

\* What a response and the user's reading do.
LEMMA ReadingSteps ==
  ASSUME ConsumerInv, ReadInv, NEW w \in BrokerWorkers, NEW c \in Children,
         NoMessage(w, c) \/ Messages(w, c) \/ Deliver(w, c)
  PROVE  ReadInv'
<1> DEFINE r == child[c]
<1>0. ChildType(r) /\ Reads(r) /\ child = [d \in Children |-> child[d]]
  BY DEF ConsumerInv, ConsumerType, ReadInv
<1>1. ASSUME NEW x, child' = [child EXCEPT ![c] = x], Reads(x) PROVE ReadInv'
  BY <1>0, <1>1 DEF ReadInv
<1>2. ASSUME NEW x, GiveBack(w, c, x), ChildType(x), Reads(x) PROVE ReadInv'
  <2>1. child' = [child EXCEPT ![c] = Triggered(x)]
    BY <1>2 DEF GiveBack
  <2>2. SameReads(Triggered(x), x)
    BY <1>2 DEF Triggered, SameReads, ChildType
  <2>3. Reads(Triggered(x))
    BY <1>2, <2>2, ReadsAgain DEF SameReads, Reads
  <2> QED
    BY <1>1, <2>1, <2>3
<1>3. CASE NoMessage(w, c)
  <2> DEFINE skip == [r EXCEPT !.offset = r.offset + 1, !.skipped = r.skipped \cup {r.offset}]
             more == [r EXCEPT !.fetchSize = Grown(r.fetchSize)]
  <2>1. r.pending = <<>>
    BY <1>3 DEF NoMessage, Handling
  <2>2. \/ child' = [child EXCEPT ![c] = r] \/ child' = [child EXCEPT ![c] = more]
        \/ child' = [child EXCEPT ![c] = skip] /\ TooLarge(c) /\ r.fetchSize = MaxFetch
    BY <1>3 DEF NoMessage
  <2>3. SameReads(more, r)
    BY <1>0 DEF SameReads, ChildType
  <2>4. Reads(more)
    <3> HIDE DEF more
    <3> QED
      BY <1>0, <2>3, ReadsAgain DEF SameReads, Reads
  <2>5. ASSUME TooLarge(c), r.fetchSize = MaxFetch PROVE Reads(skip)
    <3>1. /\ skip.got = r.got /\ skip.offset = r.offset + 1 /\ skip.pending = r.pending
          /\ skip.skipped = r.skipped \cup {r.offset}
      BY <1>0 DEF ChildType
    <3>2. Size(r.offset) > MaxFetch
      BY <2>5 DEF TooLarge
    <3> HIDE DEF skip
    <3> QED
      BY <1>0, <2>1, <3>1, <3>2, ReadsSkip
  <2> HIDE DEF skip, more
  <2> QED
    BY <1>0, <1>1, <2>2, <2>4, <2>5
<1>4. CASE Messages(w, c)
  <2>1. PICK batch \in Batches(c) :
          LET pending == ToSend(batch, child[c].offset)
              x == [child[c] EXCEPT !.fetchSize = Default]
          IN  IF pending = <<>> THEN GiveBack(w, c, x)
              ELSE /\ child' = [child EXCEPT ![c] = [x EXCEPT !.pending = pending,
                                              !.incomplete = Incomplete(batch, child[c].offset)]]
                   /\ UNCHANGED <<children, brokerConsumers, worker, broken>>
    BY <1>4 DEF Messages
  <2> DEFINE x == [r EXCEPT !.fetchSize = Default]
             y == [x EXCEPT !.pending = ToSend(batch, r.offset), !.incomplete = Incomplete(batch, r.offset)]
  <2>2. FromNext(ToSend(batch, r.offset), r.offset)
    BY <1>0, SendsFromNext DEF Reads
  <2>3. ChildType(x) /\ SameReads(x, r)
    BY <1>0 DEF ChildType, SameReads
  <2>4. Reads(x)
    <3> HIDE DEF x
    <3> QED
      BY <1>0, <2>3, ReadsAgain DEF SameReads, Reads
  <2>5. y.got = r.got /\ y.offset = r.offset /\ y.skipped = r.skipped /\ y.pending = ToSend(batch, r.offset)
    BY <1>0 DEF ChildType
  <2>6. Reads(y)
    <3> HIDE DEF y
    <3> QED
      BY <1>0, <2>2, <2>5, ReadsAgain
  <2>7. GiveBack(w, c, x) \/ child' = [child EXCEPT ![c] = y]
    BY <2>1
  <2> HIDE DEF x, y
  <2> QED
    BY <1>1, <1>2, <2>3, <2>4, <2>6, <2>7
<1>5. CASE Deliver(w, c)
  <2> DEFINE m == Head(r.pending)
             last == Len(r.pending) = 1
             x == [r EXCEPT !.pending = Tail(r.pending), !.got = Append(r.got, m), !.offset = m + 1,
                            !.incomplete = r.incomplete /\ ~last]
  <2>1. (GiveBack(w, c, x) \/ child' = [child EXCEPT ![c] = x]) /\ r.pending # <<>>
    BY <1>5 DEF Deliver
  <2>2. /\ ChildType(x) /\ x.got = Append(r.got, m) /\ x.offset = m + 1 /\ x.pending = Tail(r.pending)
        /\ x.skipped = r.skipped
    BY <1>0 DEF ChildType
  <2> HIDE DEF x
  <2>3. Reads(x)
    BY <1>0, <2>1, <2>2, ReadsNext
  <2> QED
    BY <1>1, <1>2, <2>1, <2>2, <2>3
<1> QED
  BY <1>3, <1>4, <1>5

LEMMA ReadingKeeps == ConsumerInv /\ ReadInv /\ [ConsumerNext]_consumerVars => ReadInv'
<1> SUFFICES ASSUME ConsumerInv, ReadInv, [ConsumerNext]_consumerVars PROVE ReadInv'
  OBVIOUS
<1>1. CASE child' = child
  BY <1>1 DEF ReadInv
<1>2. ASSUME NEW c \in Children, ConsumePartition(c) \/ AsyncClose(c) \/ Dispatcher(c) PROVE ReadInv'
  BY <1>2, HandingReadsNothing
<1>3. ASSUME NEW w \in BrokerWorkers, Manager(w) PROVE ReadInv'
  BY <1>1, <1>3 DEF Manager, Subscribe, InputClosed, Flushed
<1>4. ASSUME NEW w \in BrokerWorkers, Fetcher(w) PROVE ReadInv'
  <2>1. ASSUME NEW c \in Children, Abort(w, c) \/ BlockError(w, c) PROVE ReadInv'
    BY <2>1, HandingReadsNothing
  <2>2. ASSUME NEW c \in Children, NoMessage(w, c) \/ Messages(w, c) \/ Deliver(w, c) PROVE ReadInv'
    BY <2>2, ReadingSteps
  <2>3. CASE updateSubscriptionCache(w)
    BY <2>3, HandingReadsNothing
  <2>4. CASE Wait(w) \/ Ended(w) \/ Fetched(w) \/ FetchFails(w) \/ AbortNext(w) \/ Handled(w)
    BY <1>1, <2>4 DEF Wait, Ended, Fetched, FetchFails, AbortNext, Handled
  <2> QED
    BY <1>4, <2>1, <2>2, <2>3, <2>4 DEF Fetcher
<1> QED
  BY <1>1, <1>2, <1>3, <1>4 DEF ConsumerNext, consumerVars, Over

LEMMA ReadingStarts == ConsumerInit => ReadInv
<1> SUFFICES ASSUME ConsumerInit, NEW c \in Children PROVE Reads(child[c])
  BY DEF ReadInv
<1>1. child[c].offset = 0 /\ child[c].got = <<>> /\ child[c].pending = <<>> /\ child[c].skipped = {}
  BY DEF ConsumerInit
<1>2. FromNext(<<>>, 0)
  BY DEF FromNext
<1> QED
  BY <1>1, <1>2 DEF Reads

LEMMA ReadInvShows == ReadInv => EveryMessageOnce
<1> SUFFICES ASSUME ReadInv, NEW c \in Children
             PROVE  LET got == child[c].got
                    IN  /\ \A i \in 1 .. Len(got) - 1 : got[i] < got[i + 1]
                        /\ {got[i] : i \in 1 .. Len(got)} \cup child[c].skipped = 0 .. child[c].offset - 1
                        /\ {got[i] : i \in 1 .. Len(got)} \cap child[c].skipped = {}
                        /\ \A o \in child[c].skipped : Size(o) > MaxFetch
  BY DEF EveryMessageOnce, InOrder, SkipsOnlyTooLarge
<1> QED
  BY DEF ReadInv, Reads

\* What a partition consumer has read is all before its offset, in order and
\* each once, but for what is larger than Fetch.Max, whatever the log, the fetch
\* sizes, the failures and the moves from worker to worker.
THEOREM EveryMessageOnceHolds == ConsumerSpec => []EveryMessageOnce
<1>1. ConsumerSpec => [](ConsumerInv /\ ReadInv)
  <2>1. ConsumerInit => ConsumerInv /\ ReadInv
    BY ConsumerStarts, ReadingStarts
  <2>2. (ConsumerInv /\ ReadInv) /\ [ConsumerNext]_consumerVars => (ConsumerInv /\ ReadInv)'
    BY ConsumerKeeps, ReadingKeeps
  <2> QED
    BY <2>1, <2>2, PTL DEF ConsumerSpec
<1> QED
  BY <1>1, ReadInvShows, PTL
=============================================================================
