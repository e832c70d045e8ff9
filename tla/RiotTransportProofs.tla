------------------------- MODULE RiotTransportProofs -------------------------
(***************************************************************************)
(* Proofs about RiotTransport, for any number of callers and attempts, any *)
(* statuses and any Retry-After: what ends a call, and what a caller waits *)
(* for before the next attempt, whatever the bucket does; and that calls   *)
(* are steps of the bucket, so that what TokenBucketProofs says of it is   *)
(* true of all the requests that the calls and their retries send.         *)
(***************************************************************************)
EXTENDS RiotTransport, FiniteSetTheorems, TLAPS

(* Who waits has an attempt left, and once no call has ended with an error *)
(* before the last attempt none has left the loop by its end.              *)
LoopInv(t) ==
  /\ t.at = "idle" => t.attempt = 0
  /\ t.at \in {"limiter", "sent"} => t.attempt > 0
  /\ t.at = "delay" => t.attempt < TotalAttempts
  /\ t.outcome # "loop_exit"
  /\ t.outcome = "api_error" /\ IsRetryable(t.status) => t.attempt = TotalAttempts
  /\ t.at = "ended" <=> t.outcome # "none"

(* What is left of the delay brings the time since the answer to what its  *)
(* Retry-After asks for.                                                   *)
DelayInv(t) ==
  /\ t.at = "idle" => t.asked = 0
  /\ t.at = "delay" /\ t.asked > 0 => t.since + t.delay >= t.asked
  /\ t.at = "limiter" => t.since >= t.asked

CallInv(t) == LoopInv(t) /\ DelayInv(t)

IInv ==
  /\ call \in [Callers -> Calls]
  /\ \A c \in Callers : CallInv(call[c])

----------------------------------------------------------------------------
(* A step that gives one caller another record leaves the others alone.    *)
LEMMA UpdateStep ==
  ASSUME IInv, NEW c \in Callers, NEW t \in Calls, Update(c, t), CallInv(t)
  PROVE  IInv'
BY DEF IInv, Update

LEMMA SameStep ==
  ASSUME IInv, UNCHANGED call
  PROVE  IInv'
BY DEF IInv

(* Fields may change within their types. *)
LEMMA CallsKeep ==
  ASSUME NEW o \in Calls
  PROVE  /\ \A at \in {"idle", "limiter", "sent", "delay", "ended"}, attempt \in 0 .. TotalAttempts :
              [o EXCEPT !.at = at, !.attempt = attempt] \in Calls
         /\ \A delay \in Nat, since \in Nat :
              [o EXCEPT !.delay = delay, !.since = since] \in Calls
         /\ \A delay \in Nat, asked \in Nat :
              [o EXCEPT !.at = "delay", !.delay = delay, !.since = 0, !.asked = asked] \in Calls
         /\ \A outcome \in Outcomes, status \in Statuses \cup {0} :
              [o EXCEPT !.at = "ended", !.outcome = outcome, !.status = status] \in Calls
<1>1. ASSUME NEW at \in {"idle", "limiter", "sent", "delay", "ended"},
             NEW attempt \in 0 .. TotalAttempts
      PROVE  [o EXCEPT !.at = at, !.attempt = attempt] \in Calls
  BY <1>1 DEF Calls
<1>2. ASSUME NEW outcome \in Outcomes, NEW status \in Statuses \cup {0}
      PROVE  [o EXCEPT !.at = "ended", !.outcome = outcome, !.status = status] \in Calls
  BY <1>2 DEF Calls
<1>3. ASSUME NEW delay \in Nat, NEW since \in Nat
      PROVE  [o EXCEPT !.delay = delay, !.since = since] \in Calls
  BY <1>3 DEF Calls
<1>4. ASSUME NEW delay \in Nat, NEW asked \in Nat
      PROVE  [o EXCEPT !.at = "delay", !.delay = delay, !.since = 0, !.asked = asked] \in Calls
  BY <1>4 DEF Calls
<1> QED
  BY <1>1, <1>2, <1>3, <1>4

LEMMA InitIInv == Init => IInv
<1> DEFINE t == [at |-> "idle", attempt |-> 0, delay |-> 0, asked |-> 0, since |-> 0,
                 outcome |-> "none", status |-> 0]
<1>1. t \in Calls
  BY AttemptsAssumption DEF Calls, Outcomes
<1>2. CallInv(t)
  BY DEF CallInv, LoopInv, DelayInv
<1> HIDE DEF t
<1> QED
  BY <1>1, <1>2 DEF Init, IInv, t

LEMMA GetJsonStep ==
  ASSUME IInv, NEW c \in Callers, GetJson(c)
  PROVE  IInv'
<1> DEFINE t == [call[c] EXCEPT !.at = "limiter", !.attempt = 1]
<1>1. call[c] \in Calls /\ CallInv(call[c]) /\ call[c].at = "idle"
  BY DEF IInv, GetJson
<1>2. t \in Calls
  <2>1. 1 \in 0 .. TotalAttempts
    BY AttemptsAssumption
  <2> QED
    BY <1>1, <2>1, CallsKeep
<1>3. CallInv(t)
  BY <1>1 DEF CallInv, LoopInv, DelayInv, Calls
<1> QED
  BY <1>2, <1>3, UpdateStep DEF GetJson

LEMMA RequestStep ==
  ASSUME IInv, NEW c \in Callers, Request(c)
  PROVE  IInv'
<1> DEFINE t == [call[c] EXCEPT !.at = "sent"]
<1>1. call[c] \in Calls /\ CallInv(call[c]) /\ call[c].at = "limiter"
  BY DEF IInv, Request
<1>2. t \in Calls
  BY <1>1 DEF Calls
<1>3. CallInv(t)
  BY <1>1 DEF CallInv, LoopInv, DelayInv, Calls
<1> QED
  BY <1>2, <1>3, UpdateStep DEF Request

(* A call may end with anything but the loop's exit, and with a retryable  *)
(* error only on its last attempt.                                         *)
LEMMA FinishStep ==
  ASSUME IInv, NEW c \in Callers,
         NEW outcome \in Outcomes \ {"none", "loop_exit"}, NEW status \in Statuses \cup {0},
         outcome = "api_error" /\ IsRetryable(status) => call[c].attempt = TotalAttempts,
         Finish(c, outcome, status)
  PROVE  IInv'
<1> DEFINE t == [call[c] EXCEPT !.at = "ended", !.outcome = outcome, !.status = status]
<1>1. call[c] \in Calls /\ CallInv(call[c])
  BY DEF IInv
<1>2. t \in Calls
  BY <1>1, CallsKeep
<1>3. CallInv(t)
  BY <1>1 DEF CallInv, LoopInv, DelayInv, Calls
<1> QED
  BY <1>2, <1>3, UpdateStep DEF Finish

USE AttemptsAssumption, TimesAssumption, StatusesAssumption, RetryAftersAssumption

(* The policy and the parser agree: an error that is not retried is one    *)
(* the parser does not call retryable, or there is no attempt left.        *)
LEMMA NotRetriedIs ==
  ASSUME NEW status \in Statuses, NEW attempt \in 0 .. TotalAttempts,
         ~ShouldRetry(status, attempt), IsRetryable(status)
  PROVE  attempt = TotalAttempts
BY DEF ShouldRetry, IsRetryable

(* The backoff doubles a number of times: a power of two is the number of  *)
(* subsets of an interval, hence a natural number.                         *)
LEMMA PowersOfTwo == \A n \in Nat : 2 ^ n \in Nat
<1> SUFFICES ASSUME NEW n \in Nat PROVE 2 ^ n \in Nat
  OBVIOUS
<1>1. IsFiniteSet(1 .. n) /\ Cardinality(1 .. n) = n
  <2>1. 1 \in Int /\ n \in Int
    OBVIOUS
  <2>2. /\ IsFiniteSet(1 .. n)
        /\ Cardinality(1 .. n) = IF 1 > n THEN 0 ELSE n - 1 + 1
    BY <2>1, FS_Interval, Zenon
  <2>3. (IF 1 > n THEN 0 ELSE n - 1 + 1) = n
    OBVIOUS
  <2> QED
    BY <2>2, <2>3
<1>2. IsFiniteSet(SUBSET (1 .. n)) /\ Cardinality(SUBSET (1 .. n)) = 2 ^ n
  BY <1>1, FS_SUBSET
<1> QED
  BY <1>2, FS_CardinalityType

(* A delay that follows a meaningful Retry-After is what the header says.  *)
LEMMA DelayIsAsked ==
  ASSUME NEW status \in Statuses, NEW retryAfter \in RetryAfters, NEW attempt \in Nat \ {0},
         NEW delay \in Delays(status, retryAfter, attempt)
  PROVE  /\ Asked(status, retryAfter) \in Nat
         /\ delay \in Nat
         /\ Asked(status, retryAfter) > 0 => delay = Asked(status, retryAfter)
<1>1. CASE status = 429 /\ retryAfter # None
  <2>1. retryAfter \in Int /\ Second \in Nat
    BY <1>1
  <2>2. CASE retryAfter > 0
    <3>1. Asked(status, retryAfter) = retryAfter * Second
      BY <1>1, <2>2 DEF Asked
    <3>2. RetryAfterDelay(retryAfter) = retryAfter * Second
      BY <1>1, <2>1, <2>2 DEF RetryAfterDelay
    <3>3. delay = RetryAfterDelay(retryAfter)
      BY <1>1 DEF Delays
    <3>4. retryAfter * Second \in Nat
      BY <2>1, <2>2
    <3> QED
      BY <3>1, <3>2, <3>3, <3>4
  <2>3. CASE ~(retryAfter > 0)
    <3>1. Asked(status, retryAfter) = 0
      BY <1>1, <2>3 DEF Asked
    <3>2. delay = Second
      BY <1>1, <2>1, <2>3 DEF Delays, RetryAfterDelay
    <3> QED
      BY <2>1, <3>1, <3>2
  <2> QED
    BY <2>2, <2>3
<1>2. CASE ~(status = 429 /\ retryAfter # None)
  <2>1. Asked(status, retryAfter) = 0
    BY <1>2 DEF Asked
  <2>2. CASE status = 429
    BY <1>2, <2>1, <2>2 DEF Delays, RetryAfterDelay
  <2>3. CASE status # 429
    <3>1. PICK jitter \in 0 .. MaxJitter : delay = BackoffBase * 2 ^ (attempt - 1) + jitter
      BY <2>3 DEF Delays, Backoffs
    <3>2. BackoffBase \in Nat /\ 2 ^ (attempt - 1) \in Nat
      BY PowersOfTwo
    <3> DEFINE power == 2 ^ (attempt - 1)
    <3> HIDE DEF power
    <3>3. BackoffBase * power \in Nat
      BY <3>2 DEF power
    <3> QED
      BY <2>1, <3>1, <3>3 DEF power
  <2> QED
    BY <2>2, <2>3
<1> QED
  BY <1>1, <1>2

LEMMA ErrorAnsweredStep ==
  ASSUME IInv, NEW c \in Callers, ErrorAnswered(c)
  PROVE  IInv'
<1>1. call[c] \in Calls /\ CallInv(call[c]) /\ call[c].at = "sent"
  BY DEF IInv, ErrorAnswered
<1>2. call[c].attempt \in 0 .. TotalAttempts
  BY <1>1 DEF Calls
<1>3. PICK status \in Statuses, retryAfter \in RetryAfters :
        IF ShouldRetry(status, call[c].attempt)
        THEN \E delay \in Delays(status, retryAfter, call[c].attempt) :
               Update(c, [call[c] EXCEPT !.at = "delay", !.delay = delay, !.since = 0,
                                         !.asked = Asked(status, retryAfter)])
        ELSE Finish(c, "api_error", status)
  BY DEF ErrorAnswered
<1>4. CASE ShouldRetry(status, call[c].attempt)
  <2>1. PICK delay \in Delays(status, retryAfter, call[c].attempt) :
          Update(c, [call[c] EXCEPT !.at = "delay", !.delay = delay, !.since = 0,
                                    !.asked = Asked(status, retryAfter)])
    BY <1>3, <1>4
  <2> DEFINE asked == Asked(status, retryAfter)
             t == [call[c] EXCEPT !.at = "delay", !.delay = delay, !.since = 0, !.asked = asked]
  <2>2. delay \in Nat /\ asked \in Nat /\ (asked > 0 => delay = asked)
    <3>1. call[c].attempt > 0
      BY <1>1 DEF CallInv, LoopInv
    <3> QED
      BY <1>2, <3>1, DelayIsAsked
  <2>3. call[c].attempt < TotalAttempts
    BY <1>4 DEF ShouldRetry
  <2> HIDE DEF asked
  <2>4. t \in Calls
    BY <1>1, <2>2, CallsKeep
  <2>5. CallInv(t)
    BY <1>1, <2>2, <2>3 DEF CallInv, LoopInv, DelayInv, Calls
  <2> QED
    BY <2>1, <2>4, <2>5, UpdateStep DEF asked
<1>5. CASE ~ShouldRetry(status, call[c].attempt)
  <2>1. Finish(c, "api_error", status)
    BY <1>3, <1>5
  <2>2. IsRetryable(status) => call[c].attempt = TotalAttempts
    BY <1>2, <1>5, NotRetriedIs
  <2>3. "api_error" \in Outcomes \ {"none", "loop_exit"}
    BY DEF Outcomes
  <2> QED
    BY <2>1, <2>2, <2>3, FinishStep
<1> QED
  BY <1>4, <1>5

LEMMA RetryStep ==
  ASSUME IInv, NEW c \in Callers, Retry(c)
  PROVE  IInv'
<1> DEFINE t == [call[c] EXCEPT !.at = "limiter", !.attempt = NextAttempt(@)]
<1>1. call[c] \in Calls /\ CallInv(call[c]) /\ call[c].at = "delay" /\ call[c].delay = 0
  BY DEF IInv, Retry
<1>2. call[c].attempt < TotalAttempts /\ call[c].attempt \in Nat
  BY <1>1 DEF CallInv, LoopInv, Calls
<1>3. Update(c, t)
  BY <1>2 DEF Retry
<1>4. t \in Calls
  <2>1. NextAttempt(call[c].attempt) \in 0 .. TotalAttempts
    BY <1>2 DEF NextAttempt
  <2> QED
    BY <1>1, <2>1, CallsKeep
<1>5. CallInv(t)
  BY <1>1, <1>2 DEF CallInv, LoopInv, DelayInv, Calls, NextAttempt
<1> QED
  BY <1>3, <1>4, <1>5, UpdateStep

(* The clock takes from the delay what it adds to the time waited.         *)
LEMMA TickStep ==
  ASSUME IInv, Tick
  PROVE  IInv'
<1>1. ASSUME NEW c \in Callers PROVE call'[c] \in Calls /\ CallInv(call'[c])
  <2>1. call[c] \in Calls /\ CallInv(call[c])
    BY <1>1 DEF IInv
  <2> DEFINE delay == IF call[c].delay > 0 THEN call[c].delay - 1 ELSE call[c].delay
             since == IF call[c].since < call[c].asked THEN call[c].since + 1 ELSE call[c].since
             t == [call[c] EXCEPT !.delay = delay, !.since = since]
  <2>2. call'[c] = t
    BY <1>1 DEF Tick
  <2>3. /\ since \in Nat /\ since >= call[c].since
        /\ call[c].since < call[c].asked => since = call[c].since + 1
    BY <2>1 DEF Calls
  <2>4. /\ delay \in Nat
        /\ delay = call[c].delay \/ (call[c].delay > 0 /\ delay = call[c].delay - 1)
    BY <2>1 DEF Calls
  <2> HIDE DEF delay, since
  <2>5. t \in Calls
    BY <2>1, <2>3, <2>4, CallsKeep
  <2>6. LoopInv(t)
    BY <2>1, <2>3, <2>4 DEF CallInv, LoopInv, Calls
  <2>7. DelayInv(t)
    <3>1. t.at = call[c].at /\ t.asked = call[c].asked /\ t.delay = delay /\ t.since = since
      BY <2>1 DEF Calls
    <3>2. DelayInv(call[c]) /\ call[c].asked \in Nat /\ call[c].since \in Nat /\ call[c].delay \in Nat
      BY <2>1 DEF CallInv, Calls
    <3> HIDE DEF t
    <3>3. t.at = "delay" /\ t.asked > 0 => t.since + t.delay >= t.asked
      BY <2>3, <2>4, <3>1, <3>2 DEF DelayInv
    <3>4. t.at = "limiter" => t.since >= t.asked
      BY <2>3, <3>1, <3>2 DEF DelayInv
    <3> QED
      BY <3>1, <3>2, <3>3, <3>4 DEF DelayInv
  <2> QED
    BY <2>2, <2>5, <2>6, <2>7 DEF CallInv
<1>2. DOMAIN call' = Callers
  BY DEF Tick
<1> QED
  BY <1>1 DEF IInv, Tick

LEMMA NextIInv == IInv /\ [Next]_vars => IInv'
<1> SUFFICES ASSUME IInv, [Next]_vars PROVE IInv'
  OBVIOUS
<1>1. ASSUME NEW c \in Callers, GetJson(c) PROVE IInv'
  BY <1>1, GetJsonStep
<1>2. ASSUME NEW c \in Callers, Request(c) PROVE IInv'
  BY <1>2, RequestStep
<1>3. ASSUME NEW c \in Callers, AwaitToken(c) PROVE IInv'
  BY <1>3, SameStep DEF AwaitToken
<1>4. ASSUME NEW c \in Callers, Answered(c) PROVE IInv'
  BY <1>4, FinishStep DEF Answered, Outcomes
<1>5. ASSUME NEW c \in Callers, RequestFails(c) PROVE IInv'
  BY <1>5, FinishStep DEF RequestFails, Outcomes
<1>6. ASSUME NEW c \in Callers, ErrorAnswered(c) PROVE IInv'
  BY <1>6, ErrorAnsweredStep
<1>7. ASSUME NEW c \in Callers, Retry(c) PROVE IInv'
  BY <1>7, RetryStep
<1>8. CASE Tick
  BY <1>8, TickStep
<1>9. CASE Observe \/ UNCHANGED vars
  BY <1>9, SameStep DEF Observe, vars
<1> QED
  BY <1>1, <1>2, <1>3, <1>4, <1>5, <1>6, <1>7, <1>8, <1>9 DEF Next, Step

----------------------------------------------------------------------------
(* What the loop knows of every call, at every moment.                     *)
THEOREM Invariance == Spec => []IInv
BY InitIInv, NextIInv, PTL DEF Spec

(* A retryable error is raised only when every attempt was used.           *)
THEOREM EveryAttemptIsUsed == Spec => []RetryableMeansExhausted
<1>1. IInv => RetryableMeansExhausted
  BY DEF IInv, CallInv, LoopInv, RetryableMeansExhausted
<1> QED
  BY Invariance, <1>1, PTL

(* The error behind the loop of get_json is never raised.                  *)
THEOREM LoopIsNeverLeft == Spec => []LoopIsNotLeft
<1>1. IInv => LoopIsNotLeft
  BY DEF IInv, CallInv, LoopInv, LoopIsNotLeft
<1> QED
  BY Invariance, <1>1, PTL

(* No caller sends its next attempt before its Retry-After is over.        *)
THEOREM RetryAfterIsKept == Spec => RetryAfterIsHonoured
<1>1. IInv /\ [Next]_vars =>
        [\A c \in Callers :
           call[c].at = "limiter" /\ call'[c].at = "sent" => call[c].since >= call[c].asked]_vars
  BY DEF IInv, CallInv, DelayInv
<1> QED
  BY Invariance, <1>1, PTL DEF Spec, RetryAfterIsHonoured

----------------------------------------------------------------------------
(* The bucket below, and the promise above *)

Limiter == INSTANCE TokenBucketProofs
  WITH Callers <- Callers, Rate <- Rate, Cost <- Cost, Capacity <- Capacity,
       MaxCalls <- MaxCalls, MaxWindow <- MaxWindow,
       tokens <- tokens, elapsed <- elapsed, pc <- pc, sleep <- sleep,
       calls <- calls, overtaken <- overtaken, window <- window

(* The bucket of TokenBucketProofs is the one this loop is composed with.  *)
LEMMA SameBucket == Bucket!Spec => Limiter!Spec
<1>1. Bucket!Init => Limiter!Init
  BY DEF Bucket!Init, Limiter!Init, Bucket!NoWindow, Limiter!NoWindow
<1>2. [Bucket!Next]_(Bucket!vars) => [Limiter!Next]_(Limiter!vars)
  BY Zenon DEF Bucket!Next, Bucket!vars, Bucket!Acquire, Bucket!Defer, Bucket!Respond,
         Bucket!Tick, Bucket!Observe, Bucket!Attempts, Bucket!Refilled, Bucket!Capped,
         Bucket!SinceRefill, Bucket!SleepFor, Bucket!NoWindow,
         Limiter!Next, Limiter!vars, Limiter!Acquire, Limiter!Defer, Limiter!Respond,
         Limiter!Tick, Limiter!Observe, Limiter!Attempts, Limiter!Refilled, Limiter!Capped,
         Limiter!SinceRefill, Limiter!SleepFor, Limiter!NoWindow
<1> QED
  BY <1>1, <1>2, PTL DEF Bucket!Spec, Limiter!Spec

(* A call does to the bucket what TokenBucket allows, or nothing.          *)
LEMMA BucketStep == [Next]_vars => [Bucket!Next]_bucket
<1> SUFFICES ASSUME [Next]_vars PROVE [Bucket!Next]_bucket
  OBVIOUS
<1>1. ASSUME NEW c \in Callers, GetJson(c) \/ Step(c) PROVE [Bucket!Next]_bucket
  BY <1>1 DEF GetJson, Step, Request, AwaitToken, Answered, RequestFails, ErrorAnswered, Retry,
              Bucket!Next
<1>2. CASE Tick \/ Observe
  BY <1>2 DEF Tick, Observe, Bucket!Next
<1>3. CASE UNCHANGED vars
  BY <1>3 DEF vars, bucket
<1> QED
  BY <1>1, <1>2, <1>3 DEF Next

(* No request leaves without its token, the retries included.              *)
THEOREM BucketIsKept == Spec => BucketIsRespected
<1>1. Init => Bucket!Init
  BY DEF Init
<1>2. [Next]_vars => [Bucket!Next]_(Bucket!vars)
  BY BucketStep DEF bucket, Bucket!vars
<1> QED
  BY <1>1, <1>2, PTL DEF Spec, BucketIsRespected, Bucket!Spec

(* So all the attempts of all the calls keep to the host's rate.           *)
THEOREM RetriesAreLimited == Spec => []Bucket!WindowIsBounded
<1>1. Limiter!Spec => []Limiter!WindowIsBounded
  BY Limiter!RateIsLimited, BucketAssumption, AttemptsAssumption
<1>2. Limiter!WindowIsBounded => Bucket!WindowIsBounded
  BY DEF Limiter!WindowIsBounded, Bucket!WindowIsBounded
<1> QED
  BY <1>1, <1>2, SameBucket, BucketIsKept, PTL DEF BucketIsRespected

(* The bucket's contents, the attempts, the delays and the results of all  *)
(* calls stay what they are declared to be, the backoff's powers included. *)
THEOREM TypeCorrect == Spec => []TypeOK
<1>1. Limiter!Spec => []Limiter!TypeOK
  BY Limiter!TypeCorrect, BucketAssumption, AttemptsAssumption
<1>2. Limiter!TypeOK => Bucket!TypeOK
  BY Zenon DEF Limiter!TypeOK, Bucket!TypeOK, Limiter!Windows, Bucket!Windows
<1>3. IInv /\ Bucket!TypeOK => TypeOK
  BY DEF IInv, TypeOK
<1> QED
  BY <1>1, <1>2, <1>3, SameBucket, BucketIsKept, Invariance, PTL DEF BucketIsRespected

(* A step of one caller's call gives that caller another record, and takes *)
(* the call from its beginning to its end.                                 *)
LEMMA CallMoves ==
  ASSUME IInv, NEW c \in Callers, GetJson(c) \/ Step(c)
  PROVE  /\ \A d \in Callers \ {c} : call'[d] = call[d]
         /\ \/ call[c].at = "idle" /\ call'[c].at = "limiter"
            \/ call[c].at \in {"limiter", "sent", "delay"} /\ call'[c].at # "idle"
<1>1. call \in [Callers -> Calls] /\ call[c] \in Calls
  BY DEF IInv
<1>2. ASSUME NEW outcome, NEW status, Finish(c, outcome, status)
      PROVE  call'[c].at = "ended" /\ \A d \in Callers \ {c} : call'[d] = call[d]
  <2> DEFINE t == [call[c] EXCEPT !.at = "ended", !.outcome = outcome, !.status = status]
  <2>1. t.at = "ended"
    BY <1>1 DEF Calls
  <2>2. call' = [call EXCEPT ![c] = t]
    BY <1>2 DEF Finish, Update
  <2> QED
    BY <1>1, <2>1, <2>2
<1>3. CASE GetJson(c)
  BY <1>1, <1>3 DEF GetJson, Update, Calls
<1>4. CASE Request(c)
  BY <1>1, <1>4 DEF Request, Update, Calls
<1>5. CASE AwaitToken(c)
  BY <1>1, <1>5 DEF AwaitToken
<1>6. CASE Answered(c) \/ RequestFails(c)
  BY <1>2, <1>6 DEF Answered, RequestFails
<1>7. CASE ErrorAnswered(c)
  <2>1. CASE \E status \in Statuses : Finish(c, "api_error", status)
    BY <1>2, <1>7, <2>1 DEF ErrorAnswered
  <2>2. CASE \A status \in Statuses : ~Finish(c, "api_error", status)
    <3>1. PICK delay, asked :
            call' = [call EXCEPT ![c] = [call[c] EXCEPT !.at = "delay", !.delay = delay,
                                                        !.since = 0, !.asked = asked]]
      BY <1>7, <2>2 DEF ErrorAnswered, Update
    <3> DEFINE t == [call[c] EXCEPT !.at = "delay", !.delay = delay, !.since = 0, !.asked = asked]
    <3>2. t.at = "delay"
      BY <1>1 DEF Calls
    <3> HIDE DEF t
    <3>3. call' = [call EXCEPT ![c] = t]
      BY <3>1 DEF t
    <3> QED
      BY <1>1, <1>7, <3>2, <3>3 DEF ErrorAnswered
  <2> QED
    BY <2>1, <2>2
<1>8. CASE Retry(c)
  <2>1. CASE call[c].attempt < TotalAttempts
    <3> DEFINE t == [call[c] EXCEPT !.at = "limiter", !.attempt = NextAttempt(@)]
    <3>1. t.at = "limiter"
      BY <1>1 DEF Calls
    <3>2. call' = [call EXCEPT ![c] = t]
      BY <1>8, <2>1 DEF Retry, Update
    <3> QED
      BY <1>1, <1>8, <3>1, <3>2 DEF Retry
  <2>2. CASE ~(call[c].attempt < TotalAttempts)
    BY <1>2, <1>8, <2>2 DEF Retry
  <2> QED
    BY <2>1, <2>2
<1> QED
  BY <1>3, <1>4, <1>5, <1>6, <1>7, <1>8 DEF Step

(* What it does to the call's result is what the promise allows.           *)
LEMMA ResultStep ==
  ASSUME IInv, IInv', NEW c \in Callers, GetJson(c) \/ Step(c)
  PROVE  [Promise!Next]_[d \in Callers |-> Result(d)]
<1> DEFINE R == [d \in Callers |-> Result(d)]
<1>1. R' = [d \in Callers |-> Result(d)'] /\ \A d \in Callers \ {c} : Result(d)' = Result(d)
  BY CallMoves DEF Result
<1>2. R' = [R EXCEPT ![c] = Result(c)']
  BY <1>1
<1>3. CASE Result(c)' = Result(c)
  BY <1>1, <1>3
<1>4. CASE call[c].at = "idle" /\ call'[c].at = "limiter"
  <2>1. Result(c) = "not_begun" /\ Result(c)' = "pending"
    BY <1>4 DEF Result
  <2> QED
    BY <1>2, <2>1 DEF Promise!Next, Promise!Begin
<1>5. CASE call[c].at \in {"limiter", "sent", "delay"} /\ call'[c].at = "ended"
  <2>1. Result(c) = "pending" /\ Result(c)' = call'[c].outcome
    BY <1>5 DEF Result
  <2>2. call'[c].outcome \in Promise!Ends
    BY <1>5 DEF IInv, CallInv, LoopInv, Calls, Outcomes, Promise!Ends
  <2>3. R[c] = "pending" /\ \E end \in Promise!Ends : R' = [R EXCEPT ![c] = end]
    BY <1>2, <2>1, <2>2
  <2>4. Promise!End(c)
    BY <2>3 DEF Promise!End
  <2> QED
    BY <2>4 DEF Promise!Next
<1>6. CASE call[c].at \in {"limiter", "sent", "delay"} /\ call'[c].at \notin {"idle", "ended"}
  <2>1. Result(c)' = Result(c)
    BY <1>6 DEF Result
  <2> QED
    BY <1>3, <2>1
<1> QED
  BY <1>4, <1>5, <1>6, CallMoves

(* Every call ends at most once, and as RiotClient expects; that it does   *)
(* end is a matter of fairness.                                            *)
THEOREM CallsEndOnce == Spec => Promise!Spec
<1>1. Init => Promise!Init
  BY DEF Init, Promise!Init, Result
<1>2. IInv /\ IInv' /\ [Next]_vars => [Promise!Next]_[c \in Callers |-> Result(c)]
  <2> SUFFICES ASSUME IInv, IInv', [Next]_vars
               PROVE  [Promise!Next]_[c \in Callers |-> Result(c)]
    OBVIOUS
  <2>1. CASE Tick
    <3>1. ASSUME NEW d \in Callers
          PROVE  call'[d].at = call[d].at /\ call'[d].outcome = call[d].outcome
      <4>1. PICK delay, since : call'[d] = [call[d] EXCEPT !.delay = delay, !.since = since]
        BY <2>1 DEF Tick
      <4> QED
        BY <4>1 DEF IInv, Calls
    <3> QED
      BY <3>1 DEF Result
  <2>2. CASE Observe \/ UNCHANGED vars
    BY <2>2 DEF Observe, vars, Result
  <2> QED
    BY <2>1, <2>2, ResultStep DEF Next
<1> QED
  BY <1>1, <1>2, Invariance, PTL DEF Spec, Promise!Spec
=============================================================================
