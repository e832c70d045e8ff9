----------------------------- MODULE TokenBucket -----------------------------
(***************************************************************************)
(* services/integrations/riot/transport/rate_limit.py: the token bucket    *)
(* that every request to one Riot host passes, shared by the coroutines of *)
(* the process. A caller that finds too few tokens sleeps for as long as   *)
(* the deficit takes to come in, and then tries again among whoever else   *)
(* tries: there is no queue. asyncio runs acquire without interruption up  *)
(* to its sleep, so the lock is never waited for and one attempt is one    *)
(* step.                                                                   *)
(*                                                                         *)
(* The code's floats are whole numbers of units here: a request costs Cost *)
(* units, one tick of the monotonic clock brings Rate of them. Time is     *)
(* relative: what matters is how long ago the last refill was, and how     *)
(* much of its sleep each caller has left.                                 *)
(***************************************************************************)
EXTENDS Integers, FiniteSets

CONSTANTS
  Callers,    \* the coroutines that call the host
  Rate,       \* units per tick
  Cost,       \* units per request: TokenBucket.acquire's tokens
  Capacity,   \* units the bucket holds
  MaxCalls,   \* bound: how often one caller calls
  MaxWindow   \* bound: the length of the window that is measured

(* The floors of __init__: some rate, and room for one request. *)
ASSUME RateAssumption == Rate \in Nat \ {0}
ASSUME CostAssumption == Cost \in Nat \ {0}
ASSUME CapacityAssumption == Capacity \in Nat /\ Capacity >= Cost
ASSUME BoundsAssumption == MaxCalls \in Nat /\ MaxWindow \in Nat

VARIABLES
  tokens,    \* units in the bucket at the last refill
  elapsed,   \* ticks since the last refill, up to what fills the bucket
  pc,        \* "outside", "asleep" or "sent", per caller
  sleep,     \* ticks of its sleep each caller has left
  calls,     \* requests each caller has made
  overtaken, \* whether another caller was served since this one fell asleep
  window     \* a window of time some observer chose: its age and its requests

vars == <<tokens, elapsed, pc, sleep, calls, overtaken, window>>

NoWindow == [on |-> FALSE, age |-> 0, sent |-> 0]
Windows == [on : BOOLEAN, age : 0 .. MaxWindow, sent : Nat]

TypeOK ==
  /\ tokens \in 0 .. Capacity
  /\ elapsed \in 0 .. Capacity
  /\ pc \in [Callers -> {"outside", "asleep", "sent"}]
  /\ sleep \in [Callers -> Nat]
  /\ calls \in [Callers -> 0 .. MaxCalls]
  /\ overtaken \in [Callers -> BOOLEAN]
  /\ window \in Windows

Init ==
  /\ tokens = Capacity
  /\ elapsed = 0
  /\ pc = [c \in Callers |-> "outside"]
  /\ sleep = [c \in Callers |-> 0]
  /\ calls = [c \in Callers |-> 0]
  /\ overtaken = [c \in Callers |-> FALSE]
  /\ window = NoWindow

----------------------------------------------------------------------------
(* Fault: a bucket left alone fills beyond its capacity. *)
Capped_Never(units) == units

(* min(capacity, ...): what does not fit in the bucket is lost. *)
Capped(units) == IF units > Capacity THEN Capacity ELSE units

(* Fault: only whole requests' worth of units is credited. *)
Refilled_Whole == Capped(tokens + ((elapsed * Rate) \div Cost) * Cost)

(* _refill: the units in the bucket now. *)
Refilled == Capped(tokens + elapsed * Rate)

(* Fault: the time of the last refill is not brought forward. *)
SinceRefill_Kept == elapsed

SinceRefill == 0

(* Fault: the sleep is rounded down. *)
SleepFor_RoundedDown(deficit) == deficit \div Rate

(* The ticks that bring deficit units, rounded up: the code's quotient is  *)
(* a float, whose last bit is below the model's clock.                     *)
SleepFor(deficit) == (deficit + Rate - 1) \div Rate

(* A caller's first attempt, or one it makes when its sleep is over. *)
Attempts(c) ==
  \/ pc[c] = "outside" /\ calls[c] < MaxCalls
  \/ pc[c] = "asleep" /\ sleep[c] = 0

(* acquire finds the tokens, and the request goes out. *)
Acquire(c) ==
  /\ Attempts(c)
  /\ Refilled >= Cost
  /\ tokens' = Refilled - Cost
  /\ elapsed' = SinceRefill
  /\ pc' = [pc EXCEPT ![c] = "sent"]
  /\ sleep' = [sleep EXCEPT ![c] = 0]
  /\ calls' = [calls EXCEPT ![c] = IF pc[c] = "outside" THEN @ + 1 ELSE @]
  /\ overtaken' = [o \in Callers |-> o # c]
  /\ window' = IF window.on THEN [window EXCEPT !.sent = @ + 1] ELSE window

(* acquire finds too few, and sleeps. *)
Defer(c) ==
  /\ Attempts(c)
  /\ Refilled < Cost
  /\ tokens' = Refilled
  /\ elapsed' = SinceRefill
  /\ pc' = [pc EXCEPT ![c] = "asleep"]
  /\ sleep' = [sleep EXCEPT ![c] = SleepFor(Cost - Refilled)]
  /\ calls' = [calls EXCEPT ![c] = IF pc[c] = "outside" THEN @ + 1 ELSE @]
  /\ overtaken' = [overtaken EXCEPT ![c] = FALSE]
  /\ UNCHANGED window

(* The response is there: the caller may call the host again. *)
Respond(c) ==
  /\ pc[c] = "sent"
  /\ pc' = [pc EXCEPT ![c] = "outside"]
  /\ UNCHANGED <<tokens, elapsed, sleep, calls, overtaken, window>>

(* The clock moves on. No sleeper is woken before its time; how long after *)
(* is the event loop's affair.                                             *)
Tick ==
  /\ elapsed' = IF elapsed < Capacity THEN elapsed + 1 ELSE elapsed
  /\ sleep' = [c \in Callers |-> IF sleep[c] > 0 THEN sleep[c] - 1 ELSE 0]
  /\ window' = IF ~window.on THEN window
               ELSE IF window.age < MaxWindow THEN [window EXCEPT !.age = @ + 1]
               ELSE NoWindow
  /\ UNCHANGED <<tokens, pc, calls, overtaken>>

(* Some observer starts to count, at any moment. *)
Observe ==
  /\ window' = [on |-> TRUE, age |-> 0, sent |-> 0]
  /\ UNCHANGED <<tokens, elapsed, pc, sleep, calls, overtaken>>

Next ==
  \/ \E c \in Callers : Acquire(c) \/ Defer(c) \/ Respond(c)
  \/ Tick
  \/ Observe

Spec == Init /\ [][Next]_vars

(* Time passes, and a coroutine that is ready runs.                        *)
FairSpec ==
  /\ Spec
  /\ WF_vars(Tick)
  /\ \A c \in Callers : WF_vars(Acquire(c) \/ Defer(c)) /\ WF_vars(Respond(c))

----------------------------------------------------------------------------
(* Whenever one starts to count, the requests sent so far are at most a    *)
(* full bucket and what came in meanwhile.                                 *)
WindowIsBounded ==
  window.on => window.sent * Cost <= Capacity + window.age * Rate

(* Who sleeps and is not overtaken by another caller finds its token when  *)
(* it wakes up: the code never has to sleep twice for one token, up to the *)
(* rounding of its floats.                                                 *)
SleepSuffices ==
  \A c \in Callers :
    pc[c] = "asleep" /\ ~overtaken[c] => tokens + (elapsed + sleep[c]) * Rate >= Cost

(* Every caller gets its token: sleepers that wake out of phase never      *)
(* take each other's fractions of a token away.                            *)
EveryCallerIsServed ==
  \A c \in Callers : pc[c] = "asleep" ~> pc[c] = "sent"
=============================================================================
