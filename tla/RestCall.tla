------------------------------ MODULE RestCall ------------------------------
(***************************************************************************)
(* What a caller of BinanceRESTClient may count on, with neither sleeps    *)
(* nor status codes: a call makes a bounded number of requests and ends in *)
(* a payload or in an exception; a payload is the answer to its last       *)
(* request, and an exception is not raised while a request that failed for *)
(* a passing reason may still be repeated.                                 *)
(***************************************************************************)
EXTENDS Integers

CONSTANT MaxRequests

VARIABLES
  phase,     \* where the call is
  requests,  \* requests it has made
  verdict    \* what its last request came to

callVars == <<phase, requests, verdict>>

CallInit == phase = "returned" /\ requests = 1 /\ verdict = "good"

Ended == phase \in {"returned", "raised"}

Begin ==
  /\ Ended
  /\ phase' = "open" /\ requests' = 0 /\ verdict' = "none"

Request ==
  /\ phase = "open" /\ requests < MaxRequests
  /\ verdict \in {"none", "passing"}
  /\ phase' = "waiting" /\ requests' = requests + 1 /\ verdict' = "none"

(* The answer to a request that may be repeated.                           *)
Answer ==
  /\ phase = "waiting" /\ requests < MaxRequests
  /\ phase' = "open" /\ verdict' = "passing"
  /\ UNCHANGED requests

Finish ==
  /\ phase = "waiting"
  /\ \/ phase' = "returned" /\ verdict' = "good"
     \/ phase' = "raised" /\ verdict' = "fatal"
     \/ phase' = "raised" /\ verdict' = "passing" /\ requests = MaxRequests
  /\ UNCHANGED requests

CallNext == Begin \/ Request \/ Answer \/ Finish

CallSpec == CallInit /\ [][CallNext]_callVars
=============================================================================
