--------------------------- MODULE MinuteFeatures ---------------------------
(***************************************************************************)
(* The latency, update-id and liquidation columns of one minute, which are *)
(* computed twice: InMemoryLiveCollector keeps running totals in a bucket, *)
(* LiveEventStore computes them from its rows when the bucket was lost in  *)
(* a restart.  Every payload that is accepted is counted and stored here;  *)
(* what fails in between is the subject of LiveMinutes.                    *)
(***************************************************************************)
EXTENDS Integers, FiniteSetsExt, BagsExt

CONSTANTS
  DepthPayloads,  \* payloads of the depth stream, with their arrival A
  LiqPayloads,    \* order objects of the forceOrder stream
  LatencyBad,     \* LATENCY_BAD_MS
  MaxDepths,      \* bound: depth events in the minute
  MaxLiqs,        \* bound: liquidations in the minute
  Missing         \* a field that is not there or not a number; None

ASSUME LimitsAssumption ==
  LatencyBad \in Nat /\ MaxDepths \in Nat /\ MaxLiqs \in Nat /\ Missing \notin Int

(* A field is coerced to a number or to None.                              *)
ASSUME PayloadsAssumption ==
  /\ \A p \in DepthPayloads :
       {p.E, p.T, p.U, p.u} \subseteq Int \union {Missing} /\ p.A \in Int
  /\ \A o \in LiqPayloads :
       {o.ap, o.p, o.q, o.l} \subseteq Int \union {Missing}

VARIABLES
  bucket,     \* the minute's _MinuteAccumulator
  depthRows,  \* rows of ws_depth_events and ws_events of the minute, a bag
  liqRows     \* rows of ws_liq_events of the minute, a bag

featureVars == <<bucket, depthRows, liqRows>>

-----------------------------------------------------------------------------
(* Sums over a bag, and the extremes of sets that may be empty.            *)
Count(b)       == SumFunction(b)
Total(b, f(_)) == SumFunction([x \in DOMAIN b |-> b[x] * f(x)])

MaxOrMissing(S) == IF S = {} THEN Missing ELSE Max(S)
MinOrMissing(S) == IF S = {} THEN Missing ELSE Min(S)

Larger(old, new)  == IF old = Missing THEN new ELSE Max({old, new})
Smaller(old, new) == IF old = Missing THEN new ELSE Min({old, new})

(* _p95_int of the values in a bag: the value at rank ceil(0.95 n) of the  *)
(* sorted list, None if there is none.                                     *)
P95(b) ==
  LET rank == (95 * Count(b) + 99) \div 100
      upTo(v) == SumFunctionOnSet(b, { w \in DOMAIN b : w <= v })
  IN IF b = <<>> THEN Missing ELSE Min({ v \in DOMAIN b : upTo(v) >= rank })

-----------------------------------------------------------------------------
(* The payload processor: what it takes of a payload, and which it drops.  *)

(* Mutant: an event without update ids is taken.                           *)
TakesTimed(p) == p.E # Missing

TakesDepth(p) == Missing \notin {p.E, p.U, p.u}

PriceOf(o) == IF o.ap # Missing THEN o.ap ELSE o.p

TakesLiq(o) ==
  /\ o.S \in {"BUY", "SELL"}
  /\ Missing \notin {PriceOf(o), o.q} /\ o.q > 0

Notional(o) == PriceOf(o) * o.q

(* Quantity ordered and filled, the latter within the former.              *)
Filled(o) == Min({Max({o.l, 0}), o.q})

-----------------------------------------------------------------------------
(* The bucket.                                                             *)

EmptyBucket ==
  [event_time |-> Missing, transact_time |-> Missing, arrival_time |-> Missing,
   engine |-> <<>>, network |-> <<>>, bad |-> FALSE, depth_events |-> 0,
   update_id_start |-> Missing, update_id_end |-> Missing,
   long_vol |-> 0, short_vol |-> 0, long_count |-> 0, short_count |-> 0,
   qty |-> 0, weighted |-> 0, supported |-> TRUE, orig |-> 0, executed |-> 0]

Slow(p) == p.A - p.E > LatencyBad \/ p.A - p.T > LatencyBad

(* ingest_depth_diff, as far as these columns go.                          *)
CountDepth(b, p) ==
  LET seen == [b EXCEPT
        !.event_time      = Larger(@, p.E),
        !.arrival_time    = Larger(@, p.A),
        !.depth_events    = @ + 1,
        !.update_id_start = Smaller(@, p.U),
        !.update_id_end   = Larger(@, p.u)]
  IN IF p.T = Missing THEN seen
     ELSE [seen EXCEPT
        !.transact_time = Larger(@, p.T),
        !.engine        = BagAdd(@, p.A - p.E),
        !.network       = BagAdd(@, p.A - p.T),
        !.bad           = @ \/ Slow(p)]

(* Mutant: the last event says whether the unfilled ratio is supported.    *)
Forgetful(b, o) == o.l # Missing

(* One order without l and the minute has no unfilled ratio.               *)
Supported(b, o) == b.supported /\ o.l # Missing

(* ingest_liquidation_event.                                               *)
CountLiq(b, o) ==
  LET ok   == Supported(b, o)
      long == o.S = "SELL"
  IN [b EXCEPT
        !.long_vol    = @ + (IF long THEN Notional(o) ELSE 0),
        !.short_vol   = @ + (IF long THEN 0 ELSE Notional(o)),
        !.long_count  = @ + (IF long THEN 1 ELSE 0),
        !.short_count = @ + (IF long THEN 0 ELSE 1),
        !.qty         = @ + o.q,
        !.weighted    = @ + Notional(o),
        !.supported   = ok,
        !.orig        = @ + (IF ok THEN o.q ELSE 0),
        !.executed    = @ + (IF ok THEN Filled(o) ELSE 0)]

-----------------------------------------------------------------------------
(* What is reported: an average and a ratio are a pair, the record of a    *)
(* family without an event is None.                                        *)

Unfilled(supported, unfilled, ordered) ==
  IF supported /\ ordered > 0 THEN <<unfilled, ordered>> ELSE Missing

(* snapshot_for_minute of InMemoryLiveCollector.                           *)
Counted ==
  [latency |-> IF bucket.engine = <<>> THEN Missing
     ELSE [event_time     |-> bucket.event_time,
           transact_time  |-> bucket.transact_time,
           arrival_time   |-> bucket.arrival_time,
           latency_engine |-> P95(bucket.engine),
           latency_network |-> P95(bucket.network),
           ws_latency_bad |-> bucket.bad],
   depth |-> IF bucket.depth_events = 0 THEN Missing
     ELSE [update_id_start |-> bucket.update_id_start,
           update_id_end   |-> bucket.update_id_end],
   liq |-> IF bucket.long_count + bucket.short_count = 0 THEN Missing
     ELSE [long  |-> <<bucket.long_vol, bucket.long_count>>,
           short |-> <<bucket.short_vol, bucket.short_count>>,
           avg_fill_price     |-> <<bucket.weighted, bucket.qty>>,
           unfilled_supported |-> bucket.supported,
           unfilled_ratio     |-> Unfilled(bucket.supported,
                                    bucket.orig - bucket.executed, bucket.orig)]]

(* A bag of the values f has on the members of a bag.                      *)
Values(b, f(_)) ==
  [v \in { f(x) : x \in DOMAIN b } |->
     SumFunctionOnSet(b, { x \in DOMAIN b : f(x) = v })]

(* The rows with all three times.                                          *)
Timed(b) == Restrict(b, { p \in DOMAIN b : p.T # Missing })

(* The orders of a side, and those that say how much was filled.           *)
OfSide(b, s) == Restrict(b, { o \in DOMAIN b : o.S = s })
Told(b)      == Restrict(b, { o \in DOMAIN b : o.l # Missing })

EngineLatencies(b)  == Values(b, LAMBDA p : p.A - p.E)
NetworkLatencies(b) == Values(b, LAMBDA p : p.A - p.T)

Turnover(b) == Total(b, Notional)
Quantity(b) == Total(b, LAMBDA o : o.q)

(* The part of an order that was not filled.                               *)
UnfilledOf(o) == Max({o.q - Filled(o), 0})

(* snapshot_for_minute of LiveEventStore.                                  *)
Recovered ==
  LET timed   == Timed(depthRows)
      sums(s) == <<Turnover(OfSide(liqRows, s)), Count(OfSide(liqRows, s))>>
      told    == Told(liqRows)
  IN
  [latency |-> IF timed = <<>> THEN Missing
     ELSE [event_time     |-> MaxOrMissing({ p.E : p \in DOMAIN timed }),
           transact_time  |-> MaxOrMissing({ p.T : p \in DOMAIN timed }),
           arrival_time   |-> MaxOrMissing({ p.A : p \in DOMAIN timed }),
           latency_engine |-> P95(EngineLatencies(timed)),
           latency_network |-> P95(NetworkLatencies(timed)),
           ws_latency_bad |-> \E p \in DOMAIN timed : Slow(p)],
   depth |-> IF depthRows = <<>> THEN Missing
     ELSE [update_id_start |-> MinOrMissing({ p.U : p \in DOMAIN depthRows }),
           update_id_end   |-> MaxOrMissing({ p.u : p \in DOMAIN depthRows })],
   liq |-> IF liqRows = <<>> THEN Missing
     ELSE [long  |-> sums("SELL"),
           short |-> sums("BUY"),
           avg_fill_price     |-> <<Turnover(liqRows), Quantity(liqRows)>>,
           unfilled_supported |-> told = liqRows,
           unfilled_ratio     |-> Unfilled(told = liqRows,
                                    Total(told, UnfilledOf),
                                    Quantity(told))]]

-----------------------------------------------------------------------------
FeaturesInit == bucket = EmptyBucket /\ depthRows = <<>> /\ liqRows = <<>>

DepthPayload(p) ==
  /\ Count(depthRows) < MaxDepths
  /\ TakesDepth(p)
  /\ bucket' = CountDepth(bucket, p)
  /\ depthRows' = BagAdd(depthRows, p)
  /\ UNCHANGED liqRows

LiqPayload(o) ==
  /\ Count(liqRows) < MaxLiqs
  /\ TakesLiq(o)
  /\ bucket' = CountLiq(bucket, o)
  /\ liqRows' = BagAdd(liqRows, o)
  /\ UNCHANGED depthRows

FeaturesNext ==
  \/ \E p \in DepthPayloads : DepthPayload(p)
  \/ \E o \in LiqPayloads : LiqPayload(o)

FeaturesSpec == FeaturesInit /\ [][FeaturesNext]_featureVars

-----------------------------------------------------------------------------
(* Properties.                                                             *)

FeaturesTypeOK ==
  /\ DOMAIN bucket = DOMAIN EmptyBucket
  /\ bucket.depth_events \in 0..MaxDepths
  /\ bucket.depth_events > 0 =>
       {bucket.update_id_start, bucket.update_id_end} \subseteq Int
  /\ bucket.long_count + bucket.short_count \in 0..MaxLiqs
  /\ bucket.bad \in BOOLEAN /\ bucket.supported \in BOOLEAN
  /\ DOMAIN depthRows \subseteq DepthPayloads
  /\ DOMAIN liqRows \subseteq LiqPayloads

(* A minute that a restart leaves to SQLite gets the values its bucket     *)
(* would have reported, but for those of the order book, which are None:   *)
(* the two implementations agree on which payloads count, on the           *)
(* percentile, and on when a minute has an unfilled ratio.  Depth events   *)
(* without T are the exception (the exchange sends T): the bucket takes    *)
(* the event and arrival time over all events, SQLite over those with T.   *)
RecoveredAsCounted ==
  Timed(depthRows) = depthRows => Recovered = Counted
=============================================================================
