-------------------------- MODULE TokenBucketProofs --------------------------
(***************************************************************************)
(* Proofs about TokenBucket, for any number of callers, any rate, cost and *)
(* capacity: the bound on the requests of any window of time, and that a   *)
(* sleep is long enough.                                                   *)
(***************************************************************************)
EXTENDS TokenBucket, TLAPS

USE RateAssumption, CostAssumption, CapacityAssumption, BoundsAssumption

(* What a window has cost so far, with what could be spent right now, is   *)
(* at most a full bucket and what came in while the window was open.       *)
Budget ==
  window.on => window.sent * Cost + Refilled <= Capacity + window.age * Rate

IInv == TypeOK /\ Budget /\ SleepSuffices

----------------------------------------------------------------------------
(* A bucket never holds less than nothing nor more than its capacity.      *)
LEMMA CappedIs ==
  ASSUME NEW u \in Nat
  PROVE  /\ Capped(u) \in 0 .. Capacity
         /\ Capped(u) <= u
         /\ u <= Capacity => Capped(u) = u
         /\ u >= Capacity => Capped(u) = Capacity
BY DEF Capped

(* So neither does _refill. *)
LEMMA RefilledIs ==
  ASSUME TypeOK
  PROVE  /\ tokens + elapsed * Rate \in Nat
         /\ Refilled \in 0 .. Capacity
         /\ Refilled <= tokens + elapsed * Rate
         /\ Refilled < Capacity => Refilled = tokens + elapsed * Rate
<1>1. tokens \in Nat /\ elapsed \in Nat
  BY DEF TypeOK
<1>2. elapsed * Rate \in Nat
  BY <1>1
<1>3. tokens + elapsed * Rate \in Nat
  BY <1>1, <1>2
<1> QED
  BY <1>3 DEF Refilled, Capped

(* The sleep acquire computes brings in the deficit.                       *)
LEMMA SleepForIs ==
  ASSUME NEW d \in Nat
  PROVE  SleepFor(d) \in Nat /\ SleepFor(d) * Rate >= d
<1> DEFINE n == d + Rate - 1
           k == n \div Rate
<1>1. n \in Nat /\ Rate \in Nat /\ Rate > 0
  OBVIOUS
<1>2. k \in Nat
  BY <1>1
<1>3. n = Rate * k + (n % Rate) /\ n % Rate \in 0 .. Rate - 1
  BY <1>1
<1>4. Rate * k >= d
  BY <1>1, <1>2, <1>3
<1>5. k * Rate = Rate * k
  BY <1>1, <1>2
<1> HIDE DEF k
<1> QED
  BY <1>2, <1>4, <1>5 DEF SleepFor, k

----------------------------------------------------------------------------
LEMMA InitIInv == Init => IInv
<1> SUFFICES ASSUME Init PROVE IInv
  OBVIOUS
<1>1. TypeOK
  BY DEF Init, TypeOK, NoWindow, Windows
<1>2. Budget
  BY DEF Init, Budget, NoWindow
<1>3. SleepSuffices
  BY DEF Init, SleepSuffices
<1> QED
  BY <1>1, <1>2, <1>3 DEF IInv

(* A caller that is served takes Cost units and adds one request.          *)
LEMMA AcquireStep ==
  ASSUME IInv, NEW c \in Callers, Acquire(c)
  PROVE  IInv'
<1> USE DEF IInv
<1>1. /\ Refilled \in 0 .. Capacity /\ Refilled >= Cost
      /\ tokens' = Refilled - Cost /\ elapsed' = 0
  BY RefilledIs DEF Acquire, SinceRefill
<1>2. TypeOK'
  <2>1. tokens' \in 0 .. Capacity /\ elapsed' \in 0 .. Capacity
    BY <1>1
  <2>2. window' \in Windows
    BY DEF TypeOK, Acquire, Windows
  <2>3. pc' \in [Callers -> {"outside", "asleep", "sent"}] /\ sleep' \in [Callers -> Nat]
    BY DEF TypeOK, Acquire
  <2>4. calls' \in [Callers -> 0 .. MaxCalls]
    BY DEF TypeOK, Acquire, Attempts
  <2>5. overtaken' \in [Callers -> BOOLEAN]
    BY DEF Acquire
  <2> QED
    BY <2>1, <2>2, <2>3, <2>4, <2>5 DEF TypeOK
<1>3. Budget'
  <2> SUFFICES ASSUME window'.on
               PROVE  window'.sent * Cost + Refilled' <= Capacity + window'.age * Rate
    BY DEF Budget
  <2>1. window.on /\ window'.sent = window.sent + 1 /\ window'.age = window.age
    BY DEF Acquire, TypeOK, Windows
  <2>2. window.sent \in Nat /\ window.age \in Nat
    BY DEF TypeOK, Windows
  <2>3. Refilled' = Refilled - Cost
    <3>1. Refilled' = Capped(tokens' + elapsed' * Rate)
      BY DEF Refilled, Capped
    <3>2. tokens' + elapsed' * Rate = Refilled - Cost
      BY <1>1
    <3> QED
      BY <1>1, <3>1, <3>2, CappedIs
  <2>4. (window.sent + 1) * Cost = window.sent * Cost + Cost
    BY <2>2
  <2>5. window.sent * Cost + Refilled <= Capacity + window.age * Rate
    BY <2>1 DEF Budget
  <2>6. window.sent * Cost \in Nat /\ window.age * Rate \in Nat
    BY <2>2
  <2> QED
    BY <1>1, <2>1, <2>3, <2>4, <2>5, <2>6
<1>4. SleepSuffices'
  BY DEF SleepSuffices, Acquire, TypeOK
<1> QED
  BY <1>2, <1>3, <1>4

(* A caller that falls asleep has credited the bucket and spent nothing.   *)
LEMMA DeferStep ==
  ASSUME IInv, NEW c \in Callers, Defer(c)
  PROVE  IInv'
<1> USE DEF IInv
<1> DEFINE deficit == Cost - Refilled
<1>1. /\ Refilled \in 0 .. Capacity /\ Refilled < Cost
      /\ Refilled = tokens + elapsed * Rate
      /\ tokens' = Refilled /\ elapsed' = 0
  BY RefilledIs DEF Defer, SinceRefill
<1>2. SleepFor(deficit) \in Nat /\ SleepFor(deficit) * Rate >= deficit
  <2>1. deficit \in Nat
    BY <1>1
  <2> QED
    BY <2>1, SleepForIs
<1>3. sleep' = [sleep EXCEPT ![c] = SleepFor(deficit)]
  BY DEF Defer
<1> HIDE DEF deficit
<1>4. TypeOK'
  <2>1. tokens' \in 0 .. Capacity /\ elapsed' \in 0 .. Capacity
    BY <1>1
  <2>2. window' \in Windows
    BY DEF TypeOK, Defer
  <2>3. pc' \in [Callers -> {"outside", "asleep", "sent"}]
    BY DEF TypeOK, Defer
  <2>4. sleep' \in [Callers -> Nat]
    BY <1>2, <1>3 DEF TypeOK
  <2>5. calls' \in [Callers -> 0 .. MaxCalls]
    BY DEF TypeOK, Defer, Attempts
  <2>6. overtaken' \in [Callers -> BOOLEAN]
    BY DEF TypeOK, Defer
  <2> QED
    BY <2>1, <2>2, <2>3, <2>4, <2>5, <2>6 DEF TypeOK
<1>5. Budget'
  <2>1. Refilled' = Capped(tokens' + elapsed' * Rate)
    BY DEF Refilled, Capped
  <2>2. tokens' + elapsed' * Rate = Refilled
    BY <1>1
  <2>3. Refilled' = Refilled
    BY <1>1, <2>1, <2>2, CappedIs
  <2>4. window' = window
    BY DEF Defer
  <2> QED
    BY <2>3, <2>4 DEF Budget
<1>6. SleepSuffices'
  <2> SUFFICES ASSUME NEW o \in Callers, pc'[o] = "asleep", ~overtaken'[o]
               PROVE  tokens' + (elapsed' + sleep'[o]) * Rate >= Cost
    BY DEF SleepSuffices
  <2>1. CASE o = c
    <3>1. sleep'[o] = SleepFor(deficit)
      BY <1>3, <2>1 DEF TypeOK
    <3>2. elapsed' + sleep'[o] = SleepFor(deficit)
      BY <1>1, <1>2, <3>1
    <3>3. Refilled + SleepFor(deficit) * Rate >= Cost
      BY <1>1, <1>2 DEF deficit
    <3> QED
      BY <1>1, <3>2, <3>3
  <2>2. CASE o # c
    <3>1. pc[o] = "asleep" /\ ~overtaken[o] /\ sleep'[o] = sleep[o] /\ sleep[o] \in Nat
      BY <2>2, <1>3 DEF TypeOK, Defer
    <3>2. tokens + (elapsed + sleep[o]) * Rate >= Cost
      BY <3>1 DEF SleepSuffices
    <3>3. elapsed \in Nat /\ tokens \in Nat
      BY DEF TypeOK
    <3>4. (elapsed + sleep[o]) * Rate = elapsed * Rate + sleep[o] * Rate
      BY <3>1, <3>3
    <3>5. elapsed * Rate \in Nat /\ sleep[o] * Rate \in Nat
      BY <3>1, <3>3
    <3>6. Refilled + sleep[o] * Rate >= Cost
      BY <1>1, <3>2, <3>3, <3>4, <3>5
    <3>7. elapsed' + sleep'[o] = sleep[o]
      BY <1>1, <3>1
    <3> QED
      BY <1>1, <3>6, <3>7
  <2> QED
    BY <2>1, <2>2
<1> QED
  BY <1>4, <1>5, <1>6

(* A response changes neither the bucket nor who sleeps.                   *)
LEMMA RespondStep ==
  ASSUME IInv, NEW c \in Callers, Respond(c)
  PROVE  IInv'
<1> USE DEF IInv
<1>1. TypeOK'
  BY DEF TypeOK, Respond
<1>2. Budget'
  BY DEF Budget, Refilled, Capped, Respond
<1>3. SleepSuffices'
  BY DEF SleepSuffices, Respond, TypeOK
<1> QED
  BY <1>1, <1>2, <1>3

(* One tick brings at most Rate units, to the bucket and to the window's   *)
(* allowance; a clock that stands at Capacity ticks fills any bucket.      *)
LEMMA TickStep ==
  ASSUME IInv, Tick
  PROVE  IInv'
<1> USE DEF IInv
<1>1. /\ tokens \in 0 .. Capacity /\ elapsed \in 0 .. Capacity
      /\ tokens' = tokens
      /\ elapsed' \in 0 .. Capacity
      /\ elapsed' = IF elapsed < Capacity THEN elapsed + 1 ELSE elapsed
  BY DEF TypeOK, Tick
<1>2. TypeOK'
  <2>1. window' \in Windows
    BY DEF TypeOK, Tick, Windows, NoWindow
  <2>2. sleep' \in [Callers -> Nat]
    BY DEF TypeOK, Tick
  <2>3. UNCHANGED <<pc, calls, overtaken>>
    BY DEF Tick
  <2> QED
    BY <1>1, <2>1, <2>2, <2>3 DEF TypeOK
<1>3. Refilled' <= Refilled + Rate
  <2> DEFINE u == tokens + elapsed * Rate
             v == tokens' + elapsed' * Rate
  <2>1. u \in Nat /\ v \in Nat
    BY <1>1
  <2>2. v <= u + Rate
    <3>1. (elapsed + 1) * Rate = elapsed * Rate + Rate
      BY <1>1
    <3>2. elapsed * Rate \in Nat
      BY <1>1
    <3> QED
      BY <1>1, <3>1, <3>2
  <2>3. Refilled = Capped(u) /\ Refilled' = Capped(v)
    BY DEF Refilled, Capped
  <2> HIDE DEF u, v
  <2> QED
    BY <2>1, <2>2, <2>3 DEF Capped
<1>4. Budget'
  <2> SUFFICES ASSUME window'.on
               PROVE  window'.sent * Cost + Refilled' <= Capacity + window'.age * Rate
    BY DEF Budget
  <2>1. window.on /\ window'.sent = window.sent /\ window'.age = window.age + 1
    BY DEF Tick, TypeOK, Windows, NoWindow
  <2>2. window.sent \in Nat /\ window.age \in Nat
    BY DEF TypeOK, Windows
  <2>3. window.sent * Cost + Refilled <= Capacity + window.age * Rate
    BY <2>1 DEF Budget
  <2>4. (window.age + 1) * Rate = window.age * Rate + Rate
    BY <2>2
  <2>5. window.sent * Cost \in Nat /\ window.age * Rate \in Nat
    BY <2>2
  <2>6. Refilled \in Int /\ Refilled' \in Int
    <3>1. Refilled \in Int
      BY RefilledIs
    <3>2. Refilled' \in 0 .. Capacity
      <4>1. tokens' + elapsed' * Rate \in Nat
        BY <1>1
      <4>2. Refilled' = Capped(tokens' + elapsed' * Rate)
        BY DEF Refilled, Capped
      <4> QED
        BY <4>1, <4>2, CappedIs
    <3> QED
      BY <3>1, <3>2
  <2> QED
    BY <1>3, <2>1, <2>3, <2>4, <2>5, <2>6
<1>5. SleepSuffices'
  <2> SUFFICES ASSUME NEW o \in Callers, pc'[o] = "asleep", ~overtaken'[o]
               PROVE  tokens' + (elapsed' + sleep'[o]) * Rate >= Cost
    BY DEF SleepSuffices
  <2>1. sleep[o] \in Nat /\ sleep'[o] \in Nat
    BY DEF TypeOK, Tick
  <2>2. tokens + (elapsed + sleep[o]) * Rate >= Cost
    BY DEF SleepSuffices, Tick
  <2>3. CASE elapsed < Capacity
    <3>1. elapsed' + sleep'[o] >= elapsed + sleep[o]
      BY <1>1, <2>1, <2>3 DEF Tick
    <3>2. (elapsed' + sleep'[o]) * Rate >= (elapsed + sleep[o]) * Rate
      BY <1>1, <2>1, <3>1
    <3>3. (elapsed' + sleep'[o]) * Rate \in Int /\ (elapsed + sleep[o]) * Rate \in Int
      BY <1>1, <2>1
    <3> QED
      BY <1>1, <2>2, <3>2, <3>3
  <2>4. CASE ~(elapsed < Capacity)
    <3>1. elapsed' + sleep'[o] >= Capacity
      BY <1>1, <2>1, <2>4
    <3>2. (elapsed' + sleep'[o]) * Rate >= Capacity
      BY <1>1, <2>1, <3>1
    <3>3. (elapsed' + sleep'[o]) * Rate \in Int
      BY <1>1, <2>1
    <3> QED
      BY <1>1, <3>2, <3>3
  <2> QED
    BY <2>3, <2>4
<1> QED
  BY <1>2, <1>4, <1>5

(* A window opens with nothing sent, and no bucket holds more than its     *)
(* capacity.                                                               *)
LEMMA ObserveStep ==
  ASSUME IInv, Observe
  PROVE  IInv'
<1> USE DEF IInv
<1>1. TypeOK'
  BY DEF TypeOK, Observe, Windows
<1>2. Budget'
  <2>1. Refilled' = Refilled
    BY DEF Refilled, Capped, Observe
  <2>2. Refilled <= Capacity /\ Refilled \in Nat
    BY RefilledIs
  <2>3. window' = [on |-> TRUE, age |-> 0, sent |-> 0]
    BY DEF Observe
  <2> QED
    BY <2>1, <2>2, <2>3 DEF Budget
<1>3. SleepSuffices'
  BY DEF SleepSuffices, Observe
<1> QED
  BY <1>1, <1>2, <1>3

LEMMA NextIInv == IInv /\ [Next]_vars => IInv'
<1> SUFFICES ASSUME IInv, [Next]_vars PROVE IInv'
  OBVIOUS
<1>1. ASSUME NEW c \in Callers, Acquire(c) PROVE IInv'
  BY <1>1, AcquireStep
<1>2. ASSUME NEW c \in Callers, Defer(c) PROVE IInv'
  BY <1>2, DeferStep
<1>3. ASSUME NEW c \in Callers, Respond(c) PROVE IInv'
  BY <1>3, RespondStep
<1>4. CASE Tick
  BY <1>4, TickStep
<1>5. CASE Observe
  BY <1>5, ObserveStep
<1>6. CASE UNCHANGED vars
  BY <1>6 DEF vars, IInv, TypeOK, Budget, SleepSuffices, Refilled, Capped
<1> QED
  BY <1>1, <1>2, <1>3, <1>4, <1>5, <1>6 DEF Next

----------------------------------------------------------------------------
(* The three invariants of the bucket, together because SleepSuffices and  *)
(* Budget need the types.                                                  *)
THEOREM Invariance == Spec => []IInv
BY InitIInv, NextIInv, PTL DEF Spec

(* The bucket's contents stay between nothing and its capacity.            *)
THEOREM TypeCorrect == Spec => []TypeOK
<1>1. IInv => TypeOK
  BY DEF IInv
<1> QED
  BY Invariance, <1>1, PTL

(* In any window of time the host receives at most a full bucket of        *)
(* requests and what the rate brings in during the window.                 *)
THEOREM RateIsLimited == Spec => []WindowIsBounded
<1>1. IInv => WindowIsBounded
  <2> SUFFICES ASSUME IInv, window.on
               PROVE  window.sent * Cost <= Capacity + window.age * Rate
    BY DEF WindowIsBounded
  <2>1. Refilled \in Nat
    BY RefilledIs DEF IInv
  <2>2. window.sent * Cost \in Int /\ window.age * Rate \in Int
    BY DEF IInv, TypeOK, Windows
  <2>3. window.sent * Cost + Refilled <= Capacity + window.age * Rate
    BY DEF IInv, Budget
  <2> QED
    BY <2>1, <2>2, <2>3
<1> QED
  BY Invariance, <1>1, PTL

(* A caller that no other overtakes sleeps once.                           *)
THEOREM OneSleepIsEnough == Spec => []SleepSuffices
<1>1. IInv => SleepSuffices
  BY DEF IInv
<1> QED
  BY Invariance, <1>1, PTL
=============================================================================
