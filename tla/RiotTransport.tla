---------------------------- MODULE RiotTransport ----------------------------
(***************************************************************************)
(* services/integrations/riot/transport: RiotTransport.get_json, the loop  *)
(* of attempts around one request to a Riot host, for coroutines that      *)
(* share the host's token bucket.  Each attempt passes the bucket first.   *)
(* An answer of 429 or 5xx is followed by a delay and another attempt,     *)
(* every other error ends the call, and so does the last attempt.          *)
(*                                                                         *)
(* The bucket is TokenBucket, and a step of this module that passes it is  *)
(* a step of that one.  The API key is configured; each caller makes one   *)
(* call.  Times are ticks of the clock.                                    *)
(***************************************************************************)
EXTENDS Integers, FiniteSets

CONSTANTS
  Callers, Rate, Cost, Capacity, MaxCalls, MaxWindow,  \* of the bucket
  TotalAttempts,  \* RiotRetryPolicy.total_attempts: the first and the retries
  Second,         \* ticks of a second
  BackoffBase,    \* ticks of backoff_base_seconds
  MaxJitter,      \* ticks the jitter may add
  Statuses,       \* the HTTP statuses Riot answers an error with
  RetryAfters,    \* the values of its Retry-After header, None if unreadable
  None

ASSUME AttemptsAssumption ==
  /\ TotalAttempts \in Nat \ {0}
  /\ MaxCalls \in Nat /\ MaxCalls >= TotalAttempts
(* What TokenBucket assumes of its constants. *)
ASSUME BucketAssumption ==
  /\ {Rate, Cost} \subseteq Nat \ {0}
  /\ Capacity \in Nat /\ Capacity >= Cost
  /\ MaxWindow \in Nat
ASSUME TimesAssumption == {Second, BackoffBase, MaxJitter} \subseteq Nat
ASSUME StatusesAssumption == Statuses \subseteq 400 .. 599
ASSUME RetryAftersAssumption == RetryAfters \subseteq Int \cup {None} /\ None \notin Int

VARIABLES tokens, elapsed, pc, sleep, calls, overtaken, window, call

bucket == <<tokens, elapsed, pc, sleep, calls, overtaken, window>>
vars == <<tokens, elapsed, pc, sleep, calls, overtaken, window, call>>

Bucket == INSTANCE TokenBucket
  WITH Callers <- Callers, Rate <- Rate, Cost <- Cost, Capacity <- Capacity,
       MaxCalls <- MaxCalls, MaxWindow <- MaxWindow,
       tokens <- tokens, elapsed <- elapsed, pc <- pc, sleep <- sleep,
       calls <- calls, overtaken <- overtaken, window <- window

Outcomes == {"none", "payload", "client_error", "api_error", "loop_exit"}

Calls == [at      : {"idle", "limiter", "sent", "delay", "ended"},
          attempt : 0 .. TotalAttempts,
          delay   : Nat,    \* ticks left before the next attempt
          asked   : Nat,    \* ticks the last answer's Retry-After asks for
          since   : Nat,    \* ticks since then, counted up to asked
          outcome : Outcomes,
          status  : Statuses \cup {0}]   \* of the RiotApiError, 0 without one

TypeOK ==
  /\ Bucket!TypeOK
  /\ call \in [Callers -> Calls]

Init ==
  /\ Bucket!Init
  /\ call = [c \in Callers |-> [at |-> "idle", attempt |-> 0, delay |-> 0,
                                asked |-> 0, since |-> 0,
                                outcome |-> "none", status |-> 0]]

----------------------------------------------------------------------------
(* RiotRetryPolicy *)

(* What RiotResponseParser.build_api_error calls retryable. *)
IsRetryable(status) == status = 429 \/ status \in 500 .. 599

(* Faults: one retry too many, and 429 taken for a final error. *)
ShouldRetry_OnceMore(status, attempt) ==
  attempt <= TotalAttempts /\ (status = 429 \/ status \in 500 .. 599)

ShouldRetry_ServerErrors(status, attempt) ==
  attempt < TotalAttempts /\ status \in 500 .. 599

ShouldRetry(status, attempt) ==
  /\ attempt < TotalAttempts
  /\ status \notin {403, 404}
  /\ status = 429 \/ status \in 500 .. 599

(* Fault: the header is taken as it is. *)
RetryAfterDelay_Unchecked(retryAfter) ==
  IF retryAfter = None THEN Second ELSE retryAfter * Second

RetryAfterDelay(retryAfter) ==
  IF retryAfter = None THEN Second
  ELSE IF retryAfter <= 0 THEN Second
  ELSE retryAfter * Second

Backoffs(attempt) ==
  {BackoffBase * 2 ^ (attempt - 1) + jitter : jitter \in 0 .. MaxJitter}

(* Fault: the header is not looked at. *)
Delays_Backoff(status, retryAfter, attempt) == Backoffs(attempt)

(* What retry_delay_seconds may return. *)
Delays(status, retryAfter, attempt) ==
  IF status = 429 THEN {RetryAfterDelay(retryAfter)} ELSE Backoffs(attempt)

----------------------------------------------------------------------------
(* RiotTransport.get_json *)

Update(c, fields) == call' = [call EXCEPT ![c] = fields]

GetJson(c) ==
  /\ call[c].at = "idle"
  /\ Update(c, [call[c] EXCEPT !.at = "limiter", !.attempt = 1])
  /\ UNCHANGED bucket

(* Fault: only the first attempt passes the limiter. *)
Request_FirstOnly(c) ==
  /\ call[c].at = "limiter"
  /\ IF call[c].attempt = 1 THEN Bucket!Acquire(c)
     ELSE /\ pc' = [pc EXCEPT ![c] = "sent"]
          /\ UNCHANGED <<tokens, elapsed, sleep, calls, overtaken, window>>
  /\ Update(c, [call[c] EXCEPT !.at = "sent"])

(* The limiter grants a token, and the request goes out. *)
Request(c) ==
  /\ call[c].at = "limiter"
  /\ Bucket!Acquire(c)
  /\ Update(c, [call[c] EXCEPT !.at = "sent"])

AwaitToken(c) ==
  /\ call[c].at = "limiter"
  /\ Bucket!Defer(c)
  /\ UNCHANGED call

Finish(c, outcome, status) ==
  Update(c, [call[c] EXCEPT !.at = "ended", !.outcome = outcome, !.status = status])

(* A response that is no error: its JSON, or RiotClientError if it is none *)
(* or not of the expected kind.                                            *)
Answered(c) ==
  /\ call[c].at = "sent"
  /\ Bucket!Respond(c)
  /\ \E outcome \in {"payload", "client_error"} : Finish(c, outcome, 0)

(* httpx.HTTPError, the timeouts among them: never retried. *)
RequestFails(c) ==
  /\ call[c].at = "sent"
  /\ Bucket!Respond(c)
  /\ Finish(c, "client_error", 0)

(* What the header asks for, if this answer has one that means something.  *)
Asked(status, retryAfter) ==
  IF status = 429 /\ retryAfter # None
  THEN (IF retryAfter > 0 THEN retryAfter * Second ELSE 0)
  ELSE 0

ErrorAnswered(c) ==
  /\ call[c].at = "sent"
  /\ Bucket!Respond(c)
  /\ \E status \in Statuses, retryAfter \in RetryAfters :
       IF ShouldRetry(status, call[c].attempt)
       THEN \E delay \in Delays(status, retryAfter, call[c].attempt) :
              Update(c, [call[c] EXCEPT !.at = "delay", !.delay = delay, !.since = 0,
                                        !.asked = Asked(status, retryAfter)])
       ELSE Finish(c, "api_error", status)

(* Fault: the attempt is not counted. *)
NextAttempt_Same(attempt) == attempt

NextAttempt(attempt) == attempt + 1

(* The delay is over: the next turn of the loop, or what follows its end.  *)
Retry(c) ==
  /\ call[c].at = "delay"
  /\ call[c].delay = 0
  /\ IF call[c].attempt < TotalAttempts
     THEN Update(c, [call[c] EXCEPT !.at = "limiter", !.attempt = NextAttempt(@)])
     ELSE Finish(c, "loop_exit", 0)
  /\ UNCHANGED bucket

Tick ==
  /\ Bucket!Tick
  /\ call' = [c \in Callers |->
       [call[c] EXCEPT !.delay = IF @ > 0 THEN @ - 1 ELSE @,
                       !.since = IF @ < call[c].asked THEN @ + 1 ELSE @]]

(* Some observer starts to count the requests, whosever they are. *)
Observe ==
  /\ Bucket!Observe
  /\ UNCHANGED call

(* All that a caller's coroutine, or the host that answers it, does. *)
Step(c) ==
  \/ Request(c) \/ AwaitToken(c)
  \/ Answered(c) \/ RequestFails(c) \/ ErrorAnswered(c)
  \/ Retry(c)

Next ==
  \/ \E c \in Callers : GetJson(c) \/ Step(c)
  \/ Tick
  \/ Observe

Spec == Init /\ [][Next]_vars

(* Time passes, httpx gives up on a host that does not answer, and a       *)
(* coroutine that is ready runs.                                           *)
FairSpec == Spec /\ WF_vars(Tick) /\ \A c \in Callers : WF_vars(Step(c))

----------------------------------------------------------------------------
(* An error the parser calls retryable is raised only when every attempt   *)
(* was used: what two classes say of a status separately agrees.           *)
RetryableMeansExhausted ==
  \A c \in Callers :
    call[c].outcome = "api_error" /\ IsRetryable(call[c].status)
      => call[c].attempt = TotalAttempts

(* The error at the end of get_json, "retry loop exited unexpectedly", is  *)
(* never raised: no delay follows the last attempt.                        *)
LoopIsNotLeft == \A c \in Callers : call[c].outcome # "loop_exit"

(* A caller told to retry after some seconds sends nothing before, however *)
(* many tokens the bucket has meanwhile.                                   *)
RetryAfterIsHonoured ==
  [][\A c \in Callers :
       call[c].at = "limiter" /\ call'[c].at = "sent" => call[c].since >= call[c].asked]_vars

(* Every call that is begun ends, once, and in one of the three ways that  *)
(* RiotClient knows, although each attempt queues again for a token that   *)
(* the attempts of others compete for.                                     *)
Result(c) ==
  CASE call[c].at = "idle"  -> "not_begun"
    [] call[c].at = "ended" -> call[c].outcome
    [] OTHER                -> "pending"

Promise == INSTANCE RiotCall
  WITH Callers <- Callers, result <- [c \in Callers |-> Result(c)]

CallsKeepTheirPromise == Promise!FairSpec

(* However often calls are retried, what they take from the bucket are     *)
(* steps the bucket allows: no request leaves without its token.           *)
BucketIsRespected == Bucket!Spec
=============================================================================
