------------------------------ MODULE Columns -------------------------------
(***************************************************************************)
(* Where the values of the enriched columns of one hour come from: the     *)
(* long/short ratio, the funding rate and the predicted funding.  A window *)
(* of the hour is collected (_collect_and_transform), turned into rows     *)
(* (MinuteTransformEngine) and merged into what is there (AtomicParquet-   *)
(* Writer), again and again, with other cuts, at other times and with      *)
(* other requests failing.  A value is the minute it was observed for.     *)
(***************************************************************************)
EXTENDS TimeGrid

CONSTANTS
  Hour,         \* the first minute of the hour
  FundingLen,   \* the eight hours between two fundings
  Points,       \* the data_time of the ratio points the exchange retains
  Tolerance,    \* minutes a ratio point is good for, 30 in the code
  Lookback,     \* minutes before the window ratios are asked for, 30 too
  FillLimit,    \* settings.max_ffill_minutes
  SafetyLag,    \* settings.safety_lag_minutes
  MaxNow,       \* bound: the last minute of the clock
  MaxWrites,    \* bound: windows written in a behaviour
  NoValue       \* null

Spine    == Hour..(Hour + HourLen - 1)
Minutes  == 0..MaxNow
Fundings == { m \in Minutes : m % FundingLen = 0 }

ASSUME HourAssumption ==
  /\ Hour \in Nat /\ Hour % HourLen = 0 /\ Hour >= FundingLen
  /\ MaxNow \in Nat /\ Hour + HourLen <= MaxNow
ASSUME LengthsAssumption ==
  /\ FundingLen \in Nat \ {0} /\ FundingLen % HourLen = 0
  /\ FillLimit \in Nat /\ FillLimit >= HourLen - 1
ASSUME RatioAssumption ==
  /\ Points \subseteq Minutes
  /\ Tolerance \in Nat /\ Lookback \in Nat /\ Tolerance <= Lookback
ASSUME BoundsAssumption == SafetyLag \in Nat \ {0} /\ MaxWrites \in Nat
ASSUME NoValueAssumption == NoValue \notin Int

VARIABLES
  now,      \* wall clock, in minutes
  memory,   \* minutes the live collector has the premium stream of
  table,    \* minute of the hour -> its row
  writes,   \* windows written
  without   \* history: minute -> the requests its last write had failed

vars == <<now, memory, table, writes, without>>

Values == Minutes \union {NoValue}
Rows   == [ratio : Values, funding : Values, predicted : Values]
NoRow  == [ratio |-> NoValue, funding |-> NoValue, predicted |-> NoValue]

(* The requests of include_rest_enrichment.  One that fails is caught; the *)
(* option off is all of them failing.                                      *)
Optional == {"premium", "funding", "ratio"}

TypeOK ==
  /\ now \in Minutes
  /\ memory \subseteq Spine
  /\ table \in [Spine -> Rows]
  /\ writes \in 0..MaxWrites
  /\ without \in [Spine -> SUBSET Optional]

Init ==
  /\ now = Hour
  /\ memory = {}
  /\ table = [m \in Spine |-> NoRow]
  /\ writes = 0
  /\ without = [m \in Spine |-> Optional]

Latest(set, m) ==
  LET before == { k \in set : k <= m }
  IN IF before = {} THEN NoValue
     ELSE CHOOSE k \in before : \A j \in before : j <= k

-----------------------------------------------------------------------------
(* Mutant: no lookback.                                                    *)
RatioFetchedShort(from, to) == { p \in Points : from <= p /\ p <= to + 1 }

(* _fetch_ls_ratio_rows.  Points are those of the thirty days the exchange *)
(* retains; that one leaves them between two writes is not modelled.       *)
RatioFetched(from, to) ==
  { p \in Points : from - Lookback <= p /\ p <= to + 1 /\ p <= now }

(* The backward join_asof of _ls_ratio_frame.                              *)
Ratio(from, to, m) ==
  Latest({ p \in RatioFetched(from, to) : m - p <= Tolerance }, m)

(* fetch_funding_rate, from eight hours before the window.                 *)
FundingFetched(from, to) ==
  { f \in Fundings : from - FundingLen <= f /\ f <= to + 1 /\ f <= now }

(* Mutant: the newest funding, within the window or not.                   *)
SeedNewest(from, to, late) == Latest(FundingFetched(from, to), to + 1)

(* _seed_funding_rates_for_window: the rate in force, put at the start of  *)
(* a window that has no funding of its own.  window_end is the first       *)
(* millisecond of its minute: a funding some milliseconds into it is not   *)
(* in the window.                                                          *)
Seed(from, to, late) ==
  LET reached == { f \in FundingFetched(from, to) :
                     f <= to /\ ~(late /\ f = to) }
  IN IF \E f \in reached : from <= f THEN NoValue ELSE Latest(reached, to)

(* _funding_frame with the coalesce of _derive_columns: what a minute has  *)
(* of its own.  A seed and a late funding of one minute are both rows of   *)
(* it, and which of them unique keeps, the sort before it leaves open.     *)
OwnFunding(from, to, m, off, late, keepSeed) ==
  LET seed  == Seed(from, to, late)
      event == m \in FundingFetched(from, to)
      seeded == m = from /\ seed # NoValue
  IN IF "funding" \notin off /\ event /\ ~(seeded /\ keepSeed) THEN m
     ELSE IF "funding" \notin off /\ seeded THEN seed
     ELSE IF "premium" \notin off /\ m = from THEN Latest(Fundings, now)
     ELSE NoValue

(* forward_fill of _apply_fill_policies.                                   *)
Funding(from, to, m, off, late, keepSeed) ==
  LET Own(k) == OwnFunding(from, to, k, off, late, keepSeed)
      known  == { k \in from..m : Own(k) # NoValue /\ m - k <= FillLimit }
  IN IF known = {} THEN NoValue ELSE Own(Latest(known, m))

(* Mutant: the time of the next funding in the place of its prediction.    *)
PredictedSwapped(from, m, off) ==
  IF m \in memory THEN m
  ELSE IF m = from /\ "premium" \notin off
       THEN now + (FundingLen - (now % FundingLen)) ELSE NoValue

(* The premium snapshot, anchored to the start of the window, and the      *)
(* recorded value, which _derive_columns prefers.                          *)
Predicted(from, m, off) ==
  IF m \in memory THEN m
  ELSE IF m = from /\ "premium" \notin off THEN now ELSE NoValue

(* build_canonical_frame.                                                  *)
Built(from, to, off, late, keepSeed) ==
  [m \in from..to |->
     [ratio     |-> IF "ratio" \in off THEN NoValue ELSE Ratio(from, to, m),
      funding   |-> Funding(from, to, m, off, late, keepSeed),
      predicted |-> Predicted(from, m, off)]]

(* Mutant: the new row as it is.                                           *)
MergedPlain(old, new) == new

(* _merge_partition_frames on a minute of both frames: keep="last", and    *)
(* the LIVE_ONLY predicted_funding coalesced with the old one.             *)
Merged(old, new) ==
  [new EXCEPT !.predicted = IF @ = NoValue THEN old.predicted ELSE @]

(* A window is collected, built and merged.                                *)
Write(from, to, off, late, keepSeed) ==
  /\ from <= to /\ to <= TargetHorizon(now, SafetyLag)
  /\ writes < MaxWrites
  /\ writes' = writes + 1
  /\ LET built == Built(from, to, off, late, keepSeed)
     IN table' = [m \in Spine |->
          IF m \in from..to THEN Merged(table[m], built[m]) ELSE table[m]]
  /\ without' = [m \in Spine |-> IF m \in from..to THEN off ELSE without[m]]
  /\ UNCHANGED <<now, memory>>

(* A minute ends; the collector has recorded it, or was not connected.     *)
Tick ==
  /\ now < MaxNow
  /\ now' = now + 1
  /\ memory' \in {memory, (memory \union {now}) \intersect Spine}
  /\ UNCHANGED <<table, writes, without>>

Restart ==
  /\ memory # {} /\ memory' = {}
  /\ UNCHANGED <<now, table, writes, without>>

Next ==
  \/ \E from, to \in Spine, off \in SUBSET Optional,
       late, keepSeed \in BOOLEAN :
       (late => to \in Fundings) /\ (keepSeed => late)
       /\ Write(from, to, off, late, keepSeed)
  \/ Tick \/ Restart

Spec == Init /\ [][Next]_vars

-----------------------------------------------------------------------------
(* A ratio is that of the last point before its minute, if that is not too *)
(* old, however the hour was cut into windows: what a window is given      *)
(* reaches back as far as the join does (_fetch_ls_ratio_rows and          *)
(* _ls_ratio_frame).                                                       *)
RatioCutFree ==
  \A m \in Spine : "ratio" \notin without[m] =>
    table[m].ratio = Latest({ p \in Points : m - p <= Tolerance }, m)

(* A funding rate is the one in force in its minute, and in the minute of  *)
(* a funding that or the one before, unless the row was last written       *)
(* without the funding history (_seed_funding_rates_for_window,            *)
(* _apply_fill_policies).                                                  *)
FundingInForce ==
  \A m \in Spine : "funding" \notin without[m] =>
    \/ table[m].funding = Latest(Fundings, m)
    \/ m \in Fundings /\ table[m].funding = Latest(Fundings, m - 1)

(* LIVE_ONLY: a predicted funding that was recorded in its minute stays    *)
(* there, whatever is rewritten without the recording.  The snapshot that  *)
(* _collect_and_transform anchors to window_start breaks it: the           *)
(* prediction of the time of the rewrite goes into the first minute of any *)
(* window, however old, in the place of what was recorded or of NULL.      *)
RecordedKept ==
  [][\A m \in Spine :
       table[m].predicted = m => table'[m].predicted = m]_vars

(* A rewrite nulls a value only where its request failed or was not made,  *)
(* and a recorded prediction never: no cut of the hour, no restart of the  *)
(* collector and no order of the writes nulls a column the exchange has    *)
(* answered for (_collect_and_transform, _merge_partition_frames).         *)
NullsExplained ==
  [][\A m \in Spine :
       /\ table[m].ratio # NoValue /\ table'[m].ratio = NoValue
            => "ratio" \in without'[m]
       /\ table[m].funding # NoValue /\ table'[m].funding = NoValue
            => "funding" \in without'[m]
       /\ table[m].predicted # NoValue => table'[m].predicted # NoValue]_vars
=============================================================================
