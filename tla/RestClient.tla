----------------------------- MODULE RestClient -----------------------------
(***************************************************************************)
(* BinanceRESTClient._get: one request at a time, paced by a client-side   *)
(* rate limiter, repeated after a transport error or a passing status with *)
(* Retry-After or an exponential backoff.  Several calls follow each       *)
(* other, as the collection of a window makes them: a call that raises is  *)
(* caught and the next one begins at once.                                 *)
(*                                                                         *)
(* Time is kept as distances, in ticks: how long the client still sleeps,  *)
(* how long ago it last noted an answer.                                   *)
(***************************************************************************)
EXTENDS Integers

CONSTANTS
  Retries,      \* settings.rest_max_retries, at least 1 (max(1, retries))
  MinInterval,  \* _min_interval_seconds
  RetryDelay,   \* _min_retry_delay_seconds
  MaxBackoff,   \* _max_backoff_seconds
  MaxJitter,    \* the 0.3 seconds of random.uniform
  RetryAfters,  \* the Retry-After values the exchange may send
  NoHeader      \* no Retry-After, or one that cannot be parsed

ASSUME RetriesAssumption == Retries \in Nat \ {0}
ASSUME DelaysAssumption ==
  /\ MinInterval \in Nat /\ RetryDelay \in Nat
  /\ MaxBackoff \in Nat /\ MaxJitter \in Nat
  /\ RetryAfters \subseteq Nat
  /\ NoHeader \notin Nat
  /\ MinInterval <= RetryDelay /\ MinInterval <= MaxBackoff
ASSUME PowersAssumption == \A a \in 1..Retries : 2 ^ (a - 1) \in Nat \ {0}

VARIABLES
  pc,        \* where the current call is
  attempt,   \* its attempt
  nap,       \* ticks left of the sleep before the next request
  gap,       \* ticks since _last_request_monotonic, MinInterval and more alike
  last,      \* what the last request came to
  ask,       \* history: ticks left of the wait asked for in this call
  since      \* history: ticks since the last request, as gap

restVars == <<pc, attempt, nap, gap, last, ask, since>>

Waits == RetryAfters \union {NoHeader}

Smaller(a, b) == IF a <= b THEN a ELSE b

Larger(a, b) == IF a >= b THEN a ELSE b

(* Mutant: the exchange's wish ignored.                                    *)
DelayOwn(a, header) == Smaller(MaxBackoff, RetryDelay * 2 ^ (a - 1))

(* _sleep_before_retry without its jitter.                                 *)
Delay(a, header) ==
  IF header # NoHeader THEN header
  ELSE Smaller(MaxBackoff, RetryDelay * 2 ^ (a - 1))

RestTypeOK ==
  /\ pc \in {"pause", "sent", "returned", "raised"}
  /\ attempt \in 1..Retries
  /\ nap \in Nat
  /\ gap \in 0..MinInterval
  /\ last \in {"good", "passing", "lost", "fatal"}
  /\ ask \in Nat
  /\ since \in 0..MinInterval

RestInit ==
  /\ pc = "returned" /\ attempt = 1 /\ nap = 0 /\ last = "good"
  /\ gap = MinInterval /\ since = MinInterval /\ ask = 0

(* Time passes while the client sleeps or waits for an answer; between two *)
(* calls none is needed.                                                   *)
Pass ==
  /\ nap' = Larger(nap - 1, 0)
  /\ gap' = Smaller(gap + 1, MinInterval)
  /\ ask' = Larger(ask - 1, 0)
  /\ since' = Smaller(since + 1, MinInterval)
  /\ <<nap, gap, ask, since>>' # <<nap, gap, ask, since>>
  /\ UNCHANGED <<pc, attempt, last>>

Idle == pc \in {"returned", "raised"}

(* A fetch_... method calls _get.  What the exchange asked of an earlier   *)
(* call that gave up is forgotten.                                         *)
Call ==
  /\ Idle
  /\ pc' = "pause" /\ attempt' = 1 /\ nap' = 0 /\ ask' = 0
  /\ UNCHANGED <<gap, last, since>>

(* Mutant: the rate limiter left out.                                      *)
SendUnpaced ==
  /\ pc = "pause" /\ nap = 0
  /\ pc' = "sent" /\ since' = 0
  /\ UNCHANGED <<attempt, nap, gap, last, ask>>

(* The sleep is over and the rate limiter lets the request go.             *)
Send ==
  /\ pc = "pause" /\ nap = 0 /\ gap = MinInterval
  /\ pc' = "sent" /\ since' = 0
  /\ UNCHANGED <<attempt, nap, gap, last, ask>>

(* _sleep_before_retry, then the next turn of the loop.                    *)
SleepAndRepeat(header) ==
  /\ attempt < Retries
  /\ \E jitter \in 0..MaxJitter : nap' = Delay(attempt, header) + jitter
  /\ pc' = "pause" /\ attempt' = attempt + 1

(* Mutants: a lost request repeated for ever; a fatal status repeated.     *)
LostForEver ==
  /\ pc = "sent" /\ last' = "lost"
  /\ nap' = Delay(attempt, NoHeader) /\ pc' = "pause"
  /\ UNCHANGED <<attempt, gap, ask, since>>
RefusedRepeats ==
  /\ pc = "sent" /\ last' = "fatal" /\ gap' = 0
  /\ SleepAndRepeat(NoHeader)
  /\ UNCHANGED <<ask, since>>

(* httpx.TransportError: a timeout, a refused or broken connection.  The   *)
(* rate limiter notes nothing.                                             *)
Lost ==
  /\ pc = "sent"
  /\ last' = "lost"
  /\ \/ SleepAndRepeat(NoHeader)
     \/ attempt >= Retries /\ pc' = "raised" /\ UNCHANGED <<attempt, nap>>
  /\ UNCHANGED <<gap, ask, since>>

(* Status 429 or 5xx.                                                      *)
Busy(header) ==
  /\ pc = "sent"
  /\ last' = "passing" /\ gap' = 0
  /\ ask' = IF header = NoHeader THEN 0 ELSE header
  /\ \/ SleepAndRepeat(header)
     \/ attempt >= Retries /\ pc' = "raised" /\ UNCHANGED <<attempt, nap>>
  /\ UNCHANGED since

(* Any other status from 400 on: raise_for_status.                         *)
Refused ==
  /\ pc = "sent"
  /\ last' = "fatal" /\ gap' = 0 /\ pc' = "raised"
  /\ UNCHANGED <<attempt, nap, ask, since>>

Answered ==
  /\ pc = "sent"
  /\ last' = "good" /\ gap' = 0 /\ pc' = "returned"
  /\ UNCHANGED <<attempt, nap, ask, since>>

Reply == Lost \/ Refused \/ Answered \/ \E h \in Waits : Busy(h)

RestStep == Pass \/ Send \/ Reply

RestNext == Call \/ RestStep

RestSpec == RestInit /\ [][RestNext]_restVars

(* Time passes, a sleep ends, and every request is answered or times out.  *)
RestFairness == WF_restVars(Pass) /\ WF_restVars(Send) /\ WF_restVars(Reply)

-----------------------------------------------------------------------------
Sending == pc = "pause" /\ pc' = "sent"

(* Within a call no request goes out before the time Retry-After names is  *)
(* over, whatever the backoff would be (_get, _sleep_before_retry).        *)
RetryAfterHonoured == [][Sending /\ attempt > 1 => ask = 0]_restVars

(* Two requests are at least MinInterval apart, over retries and calls,    *)
(* unless the earlier one was lost and ended its call: _get notes the time *)
(* of answers only (the rate limiter of _get).                             *)
RequestsSpaced ==
  [][Sending => since = MinInterval \/ (attempt = 1 /\ last = "lost")]_restVars

(* A call as its caller sees it.                                           *)
Phase ==
  CASE pc = "pause" -> "open"
    [] pc = "sent"  -> "waiting"
    [] OTHER        -> pc

Requests == IF pc = "pause" THEN attempt - 1 ELSE attempt

Unanswered == pc = "sent" \/ (pc = "pause" /\ attempt = 1)

Verdict ==
  IF Unanswered THEN "none" ELSE IF last = "lost" THEN "passing" ELSE last

Calls == INSTANCE RestCall WITH
           MaxRequests <- Retries, phase <- Phase,
           requests <- Requests, verdict <- Verdict

(* Every call keeps the promise of RestCall: at most Retries requests, a   *)
(* refused one is the last, and only a call out of attempts gives up on a  *)
(* passing failure (_get).                                                 *)
ImplementsCall == Calls!CallSpec
=============================================================================
