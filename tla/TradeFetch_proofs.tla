------------------------- MODULE TradeFetch_proofs --------------------------
(***************************************************************************)
(* Proofs about RestClient, for any number of retries and any delays, and  *)
(* about TradeFetch, which makes its requests through it, for any tape,    *)
(* any window, any size and number of pages, and any behaviour of the      *)
(* exchange.                                                               *)
(***************************************************************************)
EXTENDS TradeFetch, Induction

-----------------------------------------------------------------------------
(* The REST client.                                                        *)

(* A delay is a number of ticks, no shorter than what the exchange asked   *)
(* for, nor, if it asked for nothing, than the interval of the limiter.    *)
LEMMA DelayLongEnough ==
  ASSUME NEW a \in 1..Retries, NEW header \in Waits
  PROVE  /\ Delay(a, header) \in Nat
         /\ header # NoHeader => Delay(a, header) = header /\ header \in Nat
         /\ header = NoHeader => Delay(a, header) >= MinInterval
<1>1. CASE header # NoHeader
  BY <1>1, DelaysAssumption DEF Delay, Waits
<1>2. CASE header = NoHeader
  <2> DEFINE p == 2 ^ (a - 1)
  <2>1. p \in Nat \ {0}
    BY PowersAssumption
  <2> HIDE DEF p
  <2>2. RetryDelay * p \in Nat /\ RetryDelay * p >= RetryDelay
    BY <2>1, DelaysAssumption
  <2>3. Delay(a, header) = Smaller(MaxBackoff, RetryDelay * p)
    BY <1>2 DEF Delay, p
  <2> QED
    BY <1>2, <2>2, <2>3, DelaysAssumption DEF Smaller
<1> QED
  BY <1>1, <1>2

(* What holds between the steps of calls: a sleep is as long as the        *)
(* exchange asked, and the next request as far away as the limiter wants.  *)
RestInv ==
  /\ RestTypeOK
  /\ pc = "pause" => ask <= nap
  /\ pc = "sent" => ask = 0
  /\ pc # "sent" /\ last # "lost" => gap <= since
  /\ pc = "pause" /\ attempt > 1 /\ last = "lost" => MinInterval <= since + nap
  /\ pc = "pause" /\ attempt > 1 => last \in {"lost", "passing"}

LEMMA RestInvInit == RestInit => RestInv
  BY RetriesAssumption, DelaysAssumption DEF RestInit, RestInv, RestTypeOK

(* What _sleep_before_retry leaves behind.                                 *)
LEMMA Sleep ==
  ASSUME RestTypeOK, NEW header \in Waits, SleepAndRepeat(header)
  PROVE  /\ pc' = "pause" /\ attempt' \in 1..Retries /\ attempt' > 1
         /\ nap' \in Nat
         /\ header # NoHeader => header <= nap' /\ header \in Nat
         /\ header = NoHeader => MinInterval <= nap'
<1>1. /\ attempt \in 1..Retries /\ attempt < Retries
      /\ pc' = "pause" /\ attempt' = attempt + 1
  BY DEF RestTypeOK, SleepAndRepeat
<1>2. PICK jitter \in 0..MaxJitter : nap' = Delay(attempt, header) + jitter
  BY DEF SleepAndRepeat
<1>3. jitter \in Nat
  BY <1>2, DelaysAssumption
<1> QED
  BY <1>1, <1>2, <1>3, DelayLongEnough, RetriesAssumption, DelaysAssumption

(* Every step of calls preserves RestInv.                                  *)
LEMMA RestInvStep == RestInv /\ [RestNext]_restVars => RestInv'
<1> SUFFICES ASSUME RestInv, [RestNext]_restVars PROVE RestInv'
  OBVIOUS
<1> USE RetriesAssumption, DelaysAssumption
<1>0. NoHeader \in Waits
  BY DEF Waits
<1>1. CASE Call
  BY <1>1 DEF Call, Idle, RestInv, RestTypeOK
<1>2. CASE Pass
  BY <1>2 DEF Pass, RestInv, RestTypeOK, Larger, Smaller
<1>3. CASE Send
  BY <1>3 DEF Send, RestInv, RestTypeOK
<1>4. CASE Lost
  <2>1. CASE SleepAndRepeat(NoHeader)
    BY <1>0, <1>4, <2>1, Sleep DEF Lost, RestInv, RestTypeOK
  <2>2. CASE pc' = "raised" /\ UNCHANGED <<attempt, nap>>
    BY <1>4, <2>2 DEF Lost, RestInv, RestTypeOK
  <2> QED
    BY <1>4, <2>1, <2>2 DEF Lost
<1>5. ASSUME NEW header \in Waits, Busy(header) PROVE RestInv'
  <2>0. ask' \in Nat /\ (header # NoHeader => ask' = header)
        /\ (header = NoHeader => ask' = 0)
    BY <1>5 DEF Busy, Waits
  <2>1. CASE SleepAndRepeat(header)
    BY <1>5, <2>0, <2>1, Sleep DEF Busy, RestInv, RestTypeOK
  <2>2. CASE pc' = "raised" /\ UNCHANGED <<attempt, nap>>
    BY <1>5, <2>0, <2>2 DEF Busy, RestInv, RestTypeOK
  <2> QED
    BY <1>5, <2>1, <2>2 DEF Busy
<1>6. CASE Refused
  BY <1>6 DEF Refused, RestInv, RestTypeOK
<1>7. CASE Answered
  BY <1>7 DEF Answered, RestInv, RestTypeOK
<1>8. CASE UNCHANGED restVars
  BY <1>8 DEF restVars, RestInv, RestTypeOK
<1> QED
  BY <1>1, <1>2, <1>3, <1>4, <1>5, <1>6, <1>7, <1>8
  DEF RestNext, RestStep, Reply

(* Between calls and in them the client is in a state of its types.        *)
THEOREM RestTypeCorrect == RestSpec => []RestTypeOK
<1>1. RestInv => RestTypeOK
  BY DEF RestInv
<1> QED
  BY <1>1, RestInvInit, RestInvStep, PTL DEF RestSpec

(* No request of a call goes out before the wait the exchange asked for is *)
(* over (_get, _sleep_before_retry).                                       *)
THEOREM WaitsAreHonoured == RestSpec => RetryAfterHonoured
<1>1. RestInv /\ [RestNext]_restVars =>
        [Sending /\ attempt > 1 => ask = 0]_restVars
  BY DEF RestNext, RestStep, Reply, Sending, RestInv, RestTypeOK, restVars,
         Call, Idle, Pass, Send, Lost, Busy, Refused, Answered, SleepAndRepeat
<1> QED
  BY <1>1, RestInvInit, RestInvStep, PTL DEF RestSpec, RetryAfterHonoured

(* Two requests are an interval apart, but for a lost one that ended its   *)
(* call (the rate limiter of _get).                                        *)
THEOREM RequestsAreSpaced == RestSpec => RequestsSpaced
<1>1. RestInv /\ [RestNext]_restVars =>
        [Sending => since = MinInterval \/ (attempt = 1 /\ last = "lost")]_restVars
  <2> SUFFICES ASSUME RestInv, RestNext, Sending
               PROVE  since = MinInterval \/ (attempt = 1 /\ last = "lost")
    BY DEF restVars
  <2>1. Send
    BY DEF RestNext, RestStep, Reply, Sending, Call, Idle, Pass, Lost, Busy,
           Refused, Answered
  <2> QED
    BY <2>1, DelaysAssumption, RetriesAssumption DEF Send, RestInv, RestTypeOK
<1> QED
  BY <1>1, RestInvInit, RestInvStep, PTL DEF RestSpec, RequestsSpaced
(* A repeated request is one more of the same call.                        *)
LEMMA RepeatIsAnswer ==
  ASSUME RestInv, NEW header \in Waits, SleepAndRepeat(header), pc = "sent",
         last' \in {"lost", "passing"}
  PROVE  Calls!Answer
<1>1. /\ attempt \in 1..Retries /\ attempt < Retries /\ attempt' = attempt + 1
      /\ pc' = "pause"
  BY DEF RestInv, RestTypeOK, SleepAndRepeat
<1>2. /\ Phase = "waiting" /\ Phase' = "open"
      /\ Requests = attempt /\ Requests' = attempt
      /\ Verdict' = "passing"
  BY <1>1, RetriesAssumption DEF Phase, Requests, Verdict, Unanswered
<1> QED
  BY <1>1, <1>2 DEF Calls!Answer

(* Every step of the client is one of the call or a stutter of it.         *)
LEMMA StepRefines ==
  RestInv /\ [RestNext]_restVars => [Calls!CallNext]_(Calls!callVars)
<1> SUFFICES ASSUME RestInv, [RestNext]_restVars
             PROVE  Calls!CallNext \/ UNCHANGED <<Phase, Requests, Verdict>>
  BY DEF Calls!callVars
<1> USE RetriesAssumption
<1>1. CASE Call
  <2>1. Phase \in {"returned", "raised"}
    BY <1>1 DEF Call, Idle, Phase
  <2>2. Phase' = "open" /\ Requests' = 0 /\ Verdict' = "none"
    BY <1>1 DEF Call, Phase, Requests, Verdict, Unanswered
  <2> QED
    BY <2>1, <2>2 DEF Calls!CallNext, Calls!Begin, Calls!Ended
<1>2. CASE Pass
  BY <1>2 DEF Pass, Phase, Requests, Verdict, Unanswered
<1>3. CASE Send
  <2>1. Phase = "open" /\ Phase' = "waiting" /\ Verdict' = "none"
    BY <1>3 DEF Send, Phase, Verdict, Unanswered
  <2>2. /\ Requests = attempt - 1 /\ Requests' = attempt
        /\ attempt \in 1..Retries
    BY <1>3 DEF Send, Requests, RestInv, RestTypeOK
  <2>3. CASE attempt = 1
    BY <1>3, <2>1, <2>2, <2>3
    DEF Send, Verdict, Unanswered, Calls!CallNext, Calls!Request
  <2>4. CASE attempt # 1
    <3>1. last \in {"lost", "passing"}
      BY <1>3, <2>4 DEF Send, RestInv, RestTypeOK
    <3> QED
      BY <1>3, <2>1, <2>2, <2>4, <3>1
      DEF Send, Verdict, Unanswered, Calls!CallNext, Calls!Request
  <2> QED
    BY <2>3, <2>4
<1>4. CASE Lost
  <2>1. CASE SleepAndRepeat(NoHeader)
    BY <1>4, <2>1, RepeatIsAnswer DEF Lost, Waits, Calls!CallNext
  <2>2. CASE attempt >= Retries /\ pc' = "raised" /\ UNCHANGED <<attempt, nap>>
    <3>1. attempt = Retries
      BY <2>2 DEF RestInv, RestTypeOK
    <3>2. /\ Phase = "waiting" /\ Phase' = "raised"
          /\ Requests = attempt /\ Requests' = attempt /\ Verdict' = "passing"
      BY <1>4, <2>2 DEF Lost, Phase, Requests, Verdict, Unanswered
    <3> QED
      BY <3>1, <3>2 DEF Calls!CallNext, Calls!Finish
  <2> QED
    BY <1>4, <2>1, <2>2 DEF Lost
<1>5. ASSUME NEW header \in Waits, Busy(header)
      PROVE  Calls!CallNext
  <2>1. CASE SleepAndRepeat(header)
    BY <1>5, <2>1, RepeatIsAnswer DEF Busy, Calls!CallNext
  <2>2. CASE attempt >= Retries /\ pc' = "raised" /\ UNCHANGED <<attempt, nap>>
    <3>1. attempt = Retries
      BY <2>2 DEF RestInv, RestTypeOK
    <3>2. /\ Phase = "waiting" /\ Phase' = "raised"
          /\ Requests = attempt /\ Requests' = attempt /\ Verdict' = "passing"
      BY <1>5, <2>2 DEF Busy, Phase, Requests, Verdict, Unanswered
    <3> QED
      BY <3>1, <3>2 DEF Calls!CallNext, Calls!Finish
  <2> QED
    BY <1>5, <2>1, <2>2 DEF Busy
<1>6. CASE Refused
  <2>1. /\ Phase = "waiting" /\ Phase' = "raised"
        /\ Requests' = Requests /\ Verdict' = "fatal"
    BY <1>6 DEF Refused, Phase, Requests, Verdict, Unanswered
  <2> QED
    BY <2>1 DEF Calls!CallNext, Calls!Finish
<1>7. CASE Answered
  <2>1. /\ Phase = "waiting" /\ Phase' = "returned"
        /\ Requests' = Requests /\ Verdict' = "good"
    BY <1>7 DEF Answered, Phase, Requests, Verdict, Unanswered
  <2> QED
    BY <2>1 DEF Calls!CallNext, Calls!Finish
<1>8. CASE UNCHANGED restVars
  BY <1>8 DEF restVars, Phase, Requests, Verdict, Unanswered
<1> QED
  BY <1>1, <1>2, <1>3, <1>4, <1>5, <1>6, <1>7, <1>8
  DEF RestNext, RestStep, Reply

(* The client implements the call its callers count on: bounded requests,  *)
(* a refused one is the last, and giving up only when out of attempts.     *)
THEOREM ClientImplementsCall == RestSpec => ImplementsCall
<1>1. RestInit => Calls!CallInit
  BY DEF RestInit, Calls!CallInit, Phase, Requests, Verdict, Unanswered
<1> QED
  BY <1>1, RestInvInit, RestInvStep, StepRefines, PTL
  DEF RestSpec, ImplementsCall, Calls!CallSpec

-----------------------------------------------------------------------------
(* The aggregate trades of a window.                                       *)

(* A set of trades has a newest one.                                       *)
LEMMA NewestOf ==
  ASSUME NEW ids \in SUBSET Ids, ids # {}
  PROVE  Newest(ids) \in ids /\ \A j \in ids : j <= Newest(ids)
<1>1. Trades \in Nat /\ ids \in SUBSET (0..Trades)
  BY TapeAssumption DEF Ids
<1>2. PICK i \in ids : \A j \in ids : j <= i
  BY <1>1, GreatestOf
<1> QED
  BY <1>2 DEF Newest

(* Sets of trades are finite.                                              *)
LEMMA BetweenFinite ==
  ASSUME NEW S \in SUBSET Ids
  PROVE  IsFiniteSet(S) /\ Cardinality(S) \in Nat
<1>1. IsFiniteSet(Ids)
  BY FS_Interval, TapeAssumption DEF Ids
<1> QED
  BY <1>1, FS_Subset, FS_CardinalityType

(* A page leaves out no trade before its newest one.                       *)
LEMMA PageHasNoHole ==
  ASSUME TypeOK, NEW n \in Page, NEW i \in Between(cursor, End), i < n
  PROVE  i \in Page
<1> DEFINE All == Between(cursor, End)
           Before(k) == { j \in All : j < k }
<1>1. All \subseteq Ids /\ n \in All /\ Cardinality(Before(n)) < Limit
  BY DEF Page, Between
<1>2. Before(i) \subseteq Before(n)
  BY <1>1 DEF Ids
<1>3. Before(i) \in SUBSET Ids /\ Before(n) \in SUBSET Ids
  BY <1>1
<1>4. Cardinality(Before(i)) <= Cardinality(Before(n))
  <2> HIDE DEF Before
  <2> QED BY <1>2, <1>3, BetweenFinite, FS_Subset
<1>5. Cardinality(Before(i)) < Limit
  <2> HIDE DEF Before
  <2> QED BY <1>1, <1>3, <1>4, BetweenFinite, PagesAssumption
<1> QED
  BY <1>5 DEF Page

(* A page that is not full has all there is.                               *)
LEMMA ShortPageIsAll ==
  ASSUME TypeOK, Cardinality(Page) < Limit
  PROVE  Page = Between(cursor, End)
<1> DEFINE All == Between(cursor, End)
           Before(k) == { j \in All : j < k }
           Rest == All \ Page
<1>1. All \subseteq Ids /\ Page \subseteq All
  BY DEF Page, Between
<1>2. SUFFICES ASSUME Rest # {} PROVE FALSE
  BY <1>1
<1>3. Rest \in SUBSET Nat
  BY <1>1 DEF Ids
<1>4. PICK i \in Rest : \A k \in Rest : i <= k
  <2> HIDE DEF Rest
  <2> QED BY <1>2, <1>3, LeastOf
<1>5. Before(i) \subseteq Page
  BY <1>1, <1>3, <1>4 DEF Ids
<1>6. Page \in SUBSET Ids /\ Before(i) \in SUBSET Ids
  BY <1>1
<1>7. Cardinality(Before(i)) <= Cardinality(Page)
  <2> HIDE DEF Before
  <2> QED BY <1>5, <1>6, BetweenFinite, FS_Subset
<1>8. Cardinality(Before(i)) < Limit
  <2> HIDE DEF Before
  <2> QED BY <1>6, <1>7, BetweenFinite, PagesAssumption
<1> QED
  BY <1>4, <1>8 DEF Page

-----------------------------------------------------------------------------
(* A trade that shares its millisecond with one that was fetched.          *)
Tied(i) == \E j \in Ids : j < i /\ rows[j] > 0 /\ tape[j] = tape[i]

(* While pages are fetched, everything fetched is behind the cursor, and   *)
(* what is behind it and was not fetched is tied.                          *)
BehindCursor ==
  /\ source = "rest" /\ Start <= cursor
  /\ \A i \in Ids : rows[i] > 0 => tape[i] < cursor
  /\ \A i \in Missing : tape[i] < cursor => Tied(i)

FetchInv ==
  /\ TypeOK
  /\ RestInv
  /\ NoTradeTwice
  /\ stage = "choose" => rows = NoRows /\ cursor = Start
  /\ stage \in {"ask", "page"} => BehindCursor
  /\ PagesLoseOnlyTies

LEMMA ClientStep == [Next]_vars => [RestNext]_restVars
  BY DEF Next, vars, RestNext, ChooseSource, Settle, StartPaging, AskPage,
         PageArrives, PageFails, NextWindow, restVars

LEMMA FetchInvInit == Init => FetchInv
<1> SUFFICES ASSUME Init PROVE FetchInv
  OBVIOUS
<1>1. RestInv
  BY RestInvInit DEF Init
<1>2. TypeOK
  BY <1>1, WindowAssumption, TapeAssumption, PagesAssumption
  DEF Init, TypeOK, RestInv, NoRows, Stamps
<1> QED
  BY <1>1, <1>2 DEF Init, FetchInv, NoTradeTwice, NoRows, PagesLoseOnlyTies

(* The step of a page.                                                     *)
LEMMA PageArrivesStep ==
  ASSUME FetchInv, RestInv', PageArrives
  PROVE  FetchInv'
<1> USE WindowAssumption, TapeAssumption, PagesAssumption
<1>0. /\ tape \in Tapes /\ tape' = tape /\ source' = source /\ pages' = pages
      /\ cursor \in Nat /\ pages \in 0..MaxPages
      /\ rows \in [Ids -> Nat] /\ source = "rest" /\ stage = "page"
      /\ source' \in {"none", "vision", "live", "rest"}
  BY DEF FetchInv, BehindCursor, TypeOK, PageArrives
<1>1. /\ tape \in [Ids -> Stamps] /\ \A i \in Ids : tape[i] \in Nat
      /\ \A i, j \in Ids : i <= j => tape[i] <= tape[j]
      /\ Start \in Nat /\ End \in Nat /\ Ids \subseteq Nat
  BY <1>0 DEF Tapes, Stamps, Ids
<1>2. /\ \A i \in Ids : rows[i] <= 1
      /\ \A i \in Ids : rows[i] > 0 => tape[i] < cursor
      /\ \A i \in Missing : tape[i] < cursor => Tied(i)
  BY <1>0 DEF FetchInv, NoTradeTwice, BehindCursor
<1>3. Missing \subseteq Ids /\ Page \subseteq Between(cursor, End)
      /\ Between(cursor, End) \subseteq Ids
      /\ \A i \in Missing : Start <= tape[i] /\ tape[i] <= End - 1 /\ rows[i] = 0
  BY DEF Missing, WindowTrades, Between, Page
<1>a. CASE Page = {}
  <2>1. stage' = "done" /\ UNCHANGED <<cursor, rows>>
    BY <1>a DEF PageArrives
  <2>2. Cardinality(Page) < Limit
    BY <1>a, FS_EmptySet
  <2>3. Between(cursor, End) = {}
    BY <1>a, <2>2, ShortPageIsAll DEF FetchInv
  <2>4. \A i \in Missing : tape[i] < cursor
    BY <1>1, <1>3, <2>3, <1>0 DEF Between
  <2>5. \A i \in Missing : Tied(i)
    BY <1>2, <2>4
  <2>6. Missing' = Missing
    BY <1>0, <2>1 DEF Missing, WindowTrades, Between
  <2>7. PagesLoseOnlyTies'
    BY <1>0, <2>1, <2>5, <2>6 DEF PagesLoseOnlyTies, Tied
  <2>8. TypeOK'
    BY <1>0, <2>1 DEF FetchInv, TypeOK, RestInv
  <2> QED
    BY <1>0, <1>2, <2>1, <2>7, <2>8 DEF FetchInv, NoTradeTwice
<1>b. CASE Page # {}
  <2> DEFINE n == Newest(Page)
  <2>1. n \in Page /\ n \in Ids /\ \A j \in Page : j <= n
    BY <1>b, <1>3, NewestOf
  <2> HIDE DEF n
  <2>2. cursor <= tape[n] /\ tape[n] <= End /\ tape[n] \in Stamps
    BY <1>1, <1>3, <2>1 DEF Between
  <2>3. NextCursor(Page) = tape[n] + 1
    BY DEF NextCursor, n
  <2>4. rows' = [i \in Ids |-> IF i \in Page THEN rows[i] + 1 ELSE rows[i]]
    BY <1>b DEF PageArrives
  <2>5. \A i \in Page : rows[i] = 0
    BY <1>0, <1>1, <1>2, <1>3 DEF Between
  <2>6. /\ rows' \in [Ids -> Nat] /\ \A i \in Ids : rows'[i] <= 1
        /\ \A i \in Ids : rows'[i] >= rows[i]
        /\ \A i \in Ids : rows'[i] = 0 => rows[i] = 0 /\ i \notin Page
        /\ rows'[n] = 1
    BY <1>0, <1>2, <2>1, <2>4, <2>5
  <2>7. /\ Missing' \subseteq Missing
        /\ \A i \in Missing' : i \in Ids /\ i \notin Page
    BY <1>0, <2>6 DEF Missing, WindowTrades, Between
  <2>8. \A i \in Ids : rows'[i] > 0 => tape[i] < tape[n] + 1
    <3> SUFFICES ASSUME NEW i \in Ids, rows'[i] > 0 PROVE tape[i] <= tape[n]
      BY <1>1, <2>1
    <3>1. CASE i \in Page
      BY <1>1, <2>1, <3>1
    <3>2. CASE i \notin Page
      BY <1>0, <1>1, <1>2, <2>1, <2>2, <2>4, <3>2
    <3> QED
      BY <3>1, <3>2
  <2>9. ASSUME NEW i \in Missing', tape[i] < tape[n] + 1
        PROVE  Tied(i)'
    <3>0. i \in Missing /\ i \in Ids /\ i \notin Page
      BY <2>7, <2>9
    <3>1. CASE tape[i] < cursor
      <4>1. PICK j \in Ids : j < i /\ rows[j] > 0 /\ tape[j] = tape[i]
        BY <1>2, <3>0, <3>1 DEF Tied
      <4>2. rows'[j] > 0
        BY <1>0, <2>6, <4>1
      <4> QED
        BY <1>0, <4>1, <4>2 DEF Tied
    <3>2. CASE cursor <= tape[i]
      <4>1. i \in Between(cursor, End)
        BY <1>1, <1>3, <3>0, <3>2 DEF Between
      <4>2. ~(i < n) /\ i # n
        BY <2>1, <3>0, <4>1, PageHasNoHole DEF FetchInv
      <4>3. n < i
        BY <1>1, <2>1, <3>0, <4>2
      <4>4. tape[n] = tape[i]
        BY <1>1, <2>1, <2>9, <3>0, <4>3
      <4> QED
        BY <1>0, <2>1, <2>6, <4>3, <4>4 DEF Tied
    <3> QED
      BY <1>0, <1>1, <3>0, <3>1, <3>2
  <2>c. CASE LastPage(Page)
    <3>1. stage' = "done" /\ cursor' = cursor
      BY <1>b, <2>c DEF PageArrives
    <3>2. ASSUME NEW i \in Missing' PROVE Tied(i)'
      <4>0. i \in Missing /\ i \in Ids /\ i \notin Page
        BY <2>7, <3>2
      <4>1. CASE NextCursor(Page) >= End
        BY <1>1, <1>3, <2>1, <2>3, <2>9, <4>0, <4>1
      <4>2. CASE NextCursor(Page) <= cursor
        BY <1>0, <1>1, <2>1, <2>2, <2>3, <4>2
      <4>3. CASE Cardinality(Page) < Limit
        <5>1. Page = Between(cursor, End)
          BY <4>3, ShortPageIsAll DEF FetchInv
        <5>2. tape[i] < cursor
          BY <1>0, <1>1, <1>3, <4>0, <5>1 DEF Between
        <5> QED
          BY <1>0, <1>1, <2>1, <2>2, <2>9, <4>0, <5>2
      <4> QED
        BY <2>c, <4>1, <4>2, <4>3 DEF LastPage
    <3>3. PagesLoseOnlyTies'
      BY <1>0, <3>1, <3>2 DEF PagesLoseOnlyTies, Tied
    <3>4. TypeOK'
      BY <1>0, <2>6, <3>1 DEF FetchInv, TypeOK, RestInv
    <3> QED
      BY <2>6, <3>1, <3>3, <3>4 DEF FetchInv, NoTradeTwice
  <2>d. CASE ~LastPage(Page)
    <3>1. stage' = "ask" /\ cursor' = tape[n] + 1
      BY <1>b, <2>3, <2>d DEF PageArrives
    <3>2. BehindCursor'
      <4>1. Start <= cursor'
        BY <1>0, <1>1, <2>1, <2>2, <3>1 DEF FetchInv, BehindCursor
      <4> QED
        BY <1>0, <2>8, <2>9, <3>1, <4>1 DEF BehindCursor
    <3>3. cursor' \in 0..(Horizon + 1)
      BY <1>1, <2>1, <2>2, <3>1 DEF Stamps
    <3>4. TypeOK'
      BY <1>0, <2>6, <3>1, <3>3 DEF FetchInv, TypeOK, RestInv
    <3> QED
      BY <2>6, <3>1, <3>2, <3>4 DEF FetchInv, NoTradeTwice, PagesLoseOnlyTies
  <2> QED
    BY <2>c, <2>d
<1> QED
  BY <1>a, <1>b

(* Every step preserves FetchInv.                                          *)
LEMMA FetchInvStep == FetchInv /\ [Next]_vars => FetchInv'
<1> SUFFICES ASSUME FetchInv, [Next]_vars PROVE FetchInv'
  OBVIOUS
<1> USE WindowAssumption, TapeAssumption, PagesAssumption
<1>0. RestInv'
  BY ClientStep, RestInvStep DEF FetchInv
<1>1. CASE ChooseSource
  <2>1. ASSUME NEW from \in {"vision", "live", "none"}, NEW ids,
               Settle(from, ids)
        PROVE  FetchInv'
    <3>1. /\ rows' = [i \in Ids |-> IF i \in ids THEN 1 ELSE 0]
          /\ stage' = "done" /\ source' = from
          /\ UNCHANGED <<tape, cursor, pages>>
      BY <2>1 DEF Settle, Once
    <3>2. TypeOK'
      BY <1>0, <2>1, <3>1 DEF FetchInv, TypeOK, RestInv
    <3> QED
      BY <1>0, <2>1, <3>1, <3>2 DEF FetchInv, NoTradeTwice, PagesLoseOnlyTies
  <2>2. CASE StartPaging
    <3>1. /\ stage' = "ask" /\ source' = "rest" /\ rows = NoRows
          /\ cursor = Start /\ UNCHANGED <<tape, cursor, pages, rows>>
      BY <1>1, <2>2 DEF ChooseSource, StartPaging, FetchInv
    <3>2. BehindCursor'
      <4>1. \A i \in Ids : ~(rows'[i] > 0)
        BY <3>1 DEF NoRows
      <4>2. \A i \in Missing' : ~(tape'[i] < cursor')
        BY <3>1 DEF Missing, WindowTrades, Between, FetchInv, TypeOK, Tapes,
                    Stamps, Ids
      <4> QED
        BY <3>1, <4>1, <4>2 DEF BehindCursor, Stamps
    <3>3. TypeOK'
      BY <1>0, <3>1 DEF FetchInv, TypeOK, RestInv
    <3> QED
      BY <1>0, <3>1, <3>2, <3>3 DEF FetchInv, NoTradeTwice, PagesLoseOnlyTies
  <2> QED
    BY <1>1, <2>1, <2>2 DEF ChooseSource
<1>2. CASE AskPage
  <2>0. /\ stage = "ask" /\ UNCHANGED <<tape, source, cursor, rows>>
        /\ BehindCursor
    BY <1>2 DEF AskPage, FetchInv
  <2>1. CASE stage' = "page" /\ pages < MaxPages /\ pages' = pages + 1
    <3>1. TypeOK'
      BY <1>0, <2>0, <2>1 DEF FetchInv, TypeOK, RestInv
    <3>2. BehindCursor'
      BY <2>0 DEF BehindCursor, Missing, WindowTrades, Between, Tied
    <3> QED
      BY <1>0, <2>0, <2>1, <3>1, <3>2
      DEF FetchInv, NoTradeTwice, PagesLoseOnlyTies
  <2>2. CASE stage' = "done" /\ pages = MaxPages /\ UNCHANGED pages
    <3>1. TypeOK'
      BY <1>0, <2>0, <2>2 DEF FetchInv, TypeOK, RestInv
    <3>2. Missing' = Missing
      BY <2>0 DEF Missing, WindowTrades, Between
    <3>3. \A i \in Missing : Tied(i) \/ cursor <= tape[i]
      BY <2>0 DEF BehindCursor, FetchInv, TypeOK, Tapes, Stamps, Missing,
                  WindowTrades, Between
    <3>4. PagesLoseOnlyTies'
      BY <2>0, <2>2, <3>2, <3>3 DEF PagesLoseOnlyTies, Tied
    <3> QED
      BY <1>0, <2>0, <2>2, <3>1, <3>4 DEF FetchInv, NoTradeTwice
  <2> QED
    BY <1>2, <2>1, <2>2 DEF AskPage
<1>3. CASE PageArrives
  BY <1>0, <1>3, PageArrivesStep
<1>4. CASE PageFails
  <2>1. /\ stage' = "failed" /\ rows' = NoRows
        /\ UNCHANGED <<tape, source, cursor, pages>>
    BY <1>4 DEF PageFails
  <2> QED
    BY <1>0, <2>1 DEF FetchInv, TypeOK, RestInv, NoRows, NoTradeTwice,
                      PagesLoseOnlyTies
<1>5. CASE NextWindow
  <2>1. /\ stage' = "choose" /\ rows' = NoRows /\ source' = "none"
        /\ cursor' = Start /\ pages' = 0 /\ tape' = tape
    BY <1>5 DEF NextWindow
  <2> QED
    BY <1>0, <2>1 DEF FetchInv, TypeOK, RestInv, NoRows, NoTradeTwice, Stamps,
                      PagesLoseOnlyTies
<1>6. CASE UNCHANGED fetchVars
  BY <1>0, <1>6 DEF fetchVars, FetchInv, TypeOK, RestInv, NoTradeTwice,
     PagesLoseOnlyTies, BehindCursor, Missing, WindowTrades, Between, Tied
<1> QED
  BY <1>1, <1>2, <1>3, <1>4, <1>5, <1>6 DEF Next, vars

-----------------------------------------------------------------------------
(* The fetch stays in its types: no cursor leaves the tape, no page is     *)
(* beyond the turns of the loop.                                           *)
THEOREM FetchTypeCorrect == Spec => []TypeOK
<1>1. FetchInv => TypeOK
  BY DEF FetchInv
<1> QED
  BY <1>1, FetchInvInit, FetchInvStep, PTL DEF Spec

(* No trade is in the rows twice, however trades share milliseconds and    *)
(* wherever the pages are cut (_fetch_agg_trades_paginated).               *)
THEOREM TradesAreCountedOnce == Spec => []NoTradeTwice
<1>1. FetchInv => NoTradeTwice
  BY DEF FetchInv
<1> QED
  BY <1>1, FetchInvInit, FetchInvStep, PTL DEF Spec

(* A trade of the window is missing after pages have been fetched only if  *)
(* it is tied with a fetched one, or beyond the last turn of the loop.     *)
THEOREM OnlyTiesAreLost == Spec => []PagesLoseOnlyTies
<1>1. FetchInv => PagesLoseOnlyTies
  BY DEF FetchInv
<1> QED
  BY <1>1, FetchInvInit, FetchInvStep, PTL DEF Spec

(* A fetch uses the client as RestClient lets it be used: what is proved   *)
(* of the client holds of every fetch.                                     *)
THEOREM FetchUsesClient ==
  Spec => RetryAfterHonoured /\ RequestsSpaced /\ ImplementsCall
<1>1. Spec => RestSpec
  <2>1. Init => RestInit
    BY DEF Init
  <2> QED
    BY <2>1, ClientStep, PTL DEF Spec, RestSpec
<1> QED
  BY <1>1, WaitsAreHonoured, RequestsAreSpaced, ClientImplementsCall, PTL
=============================================================================
