--------------------------- MODULE Columns_proofs ---------------------------
(***************************************************************************)
(* Proofs about Columns, for any hour, any ratio points and fundings, any  *)
(* cut of the hour into windows and any order of writes.                   *)
(***************************************************************************)
EXTENDS Columns, TimeGrid_proofs, Induction

(* The minutes of the hour are natural numbers of the clock.               *)
LEMMA SpineTyped ==
  /\ Hour \in Nat /\ HourLen \in Nat \ {0} /\ FundingLen \in Nat \ {0}
  /\ Hour \in Spine /\ Spine \subseteq Minutes
  /\ \A m \in Spine : m \in Nat /\ Hour <= m /\ m < Hour + HourLen
  BY HourAssumption, HourLenAssumption, LengthsAssumption DEF Spine, Minutes

(* Latest is the greatest of the minutes up to m, if there is any.         *)
LEMMA LatestMember ==
  ASSUME NEW S \in SUBSET Nat, NEW m \in Nat, NEW k \in S, k <= m
  PROVE  /\ Latest(S, m) \in S /\ Latest(S, m) <= m
         /\ \A j \in S : j <= m => j <= Latest(S, m)
<1> DEFINE before == { j \in S : j <= m }
<1>1. before \in SUBSET (0..m) /\ before # {}
  <2>1. k \in before
    OBVIOUS
  <2>2. \A j \in before : j \in 0..m
    OBVIOUS
  <2> QED
    BY <2>1, <2>2
<1>2. PICK g \in before : \A j \in before : j <= g
  <2> HIDE DEF before
  <2> QED BY <1>1, GreatestOf
<1> DEFINE c == CHOOSE j \in before : \A i \in before : i <= j
<1>3. c \in before /\ \A i \in before : i <= c
  <2> HIDE DEF before
  <2> QED BY <1>2
<1>4. Latest(S, m) = c
  BY <1>1 DEF Latest
<1> HIDE DEF c
<1> QED
  BY <1>3, <1>4

(* Latest is a minute of the set or null.                                  *)
LEMMA LatestTyped ==
  ASSUME NEW S \in SUBSET Nat, NEW m \in Nat
  PROVE  Latest(S, m) \in S \union {NoValue}
<1>1. CASE { k \in S : k <= m } = {}
  BY <1>1 DEF Latest
<1>2. CASE { k \in S : k <= m } # {}
  BY <1>2, LatestMember
<1> QED
  BY <1>1, <1>2

(* Which minute it is.                                                     *)
LEMMA LatestIs ==
  ASSUME NEW S \in SUBSET Nat, NEW m \in Nat, NEW k \in S, k <= m,
         \A j \in S : j <= m => j <= k
  PROVE  Latest(S, m) = k
<1> DEFINE l == Latest(S, m)
<1>1. l \in S /\ l <= m /\ k <= l
  BY LatestMember
<1> HIDE DEF l
<1>2. l \in Nat /\ k \in Nat /\ l <= k
  BY <1>1
<1> QED
  BY <1>1, <1>2 DEF l

(* A window that is written is over: the horizon is behind the clock.      *)
LEMMA WindowIsPast ==
  ASSUME TypeOK, NEW from \in Spine, NEW to \in Spine,
         NEW off, NEW late, NEW keepSeed, Write(from, to, off, late, keepSeed)
  PROVE  from <= to /\ to < now /\ from..to \subseteq Spine
<1>1. from \in Nat /\ to \in Nat /\ now \in Nat /\ from <= to /\ to <= now - SafetyLag
  BY SpineTyped DEF Write, TypeOK, TargetHorizon, Minutes
<1>2. from..to \subseteq Spine
  BY HourAssumption, HourLenAssumption DEF Spine
<1> QED
  BY <1>1, <1>2, BoundsAssumption

-----------------------------------------------------------------------------
(* Ratio: the points a window is given are those its minutes may join.     *)
LEMMA RatioOfWindow ==
  ASSUME NEW from \in Nat, NEW to \in Nat, to < now, now \in Nat,
         NEW m \in from..to
  PROVE  Ratio(from, to, m) = Latest({ p \in Points : m - p <= Tolerance }, m)
<1> DEFINE near == { p \in Points : m - p <= Tolerance }
           given == { p \in RatioFetched(from, to) : m - p <= Tolerance }
<1>1. ASSUME NEW p \in Points, m - p <= Tolerance, p <= m
      PROVE  p \in given
  <2>1. /\ p \in Nat /\ Tolerance \in Nat /\ Lookback \in Nat
        /\ Tolerance <= Lookback
    BY RatioAssumption DEF Minutes
  <2>2. from - Lookback <= p /\ p <= to + 1 /\ p <= now
    BY <1>1, <2>1
  <2> QED
    BY <1>1, <2>2 DEF RatioFetched
<1>2. given \subseteq near
  BY DEF RatioFetched
<1>3. { k \in given : k <= m } = { k \in near : k <= m }
  <2>1. \A k \in near : k \in Points /\ m - k <= Tolerance
    OBVIOUS
  <2> HIDE DEF given, near
  <2> QED BY <1>1, <1>2, <2>1
<1>4. Latest(given, m) = Latest(near, m)
  <2> HIDE DEF given, near
  <2> DEFINE G == { k \in given : k <= m }
             N == { k \in near : k <= m }
             Top(S) == IF S = {} THEN NoValue
                       ELSE CHOOSE k \in S : \A j \in S : j <= k
  <2>1. Latest(given, m) = Top(G) /\ Latest(near, m) = Top(N)
    BY DEF Latest
  <2>2. G = N
    BY <1>3
  <2> HIDE DEF G, N, Top
  <2> QED
    BY <2>1, <2>2
<1> QED
  BY <1>4 DEF Ratio

(* The ratio of a minute is a point or null.                               *)
LEMMA RatioTyped ==
  ASSUME NEW m \in Nat
  PROVE  Latest({ p \in Points : m - p <= Tolerance }, m) \in Values
<1> DEFINE near == { p \in Points : m - p <= Tolerance }
<1>1. near \in SUBSET Nat /\ near \subseteq Minutes
  <2>1. Points \subseteq Minutes /\ Minutes \subseteq Nat
    BY RatioAssumption DEF Minutes
  <2> QED
    BY <2>1
<1>2. Latest(near, m) \in near \union {NoValue}
  <2> HIDE DEF near
  <2> QED BY <1>1, LatestTyped
<1> QED
  BY <1>1, <1>2 DEF Values

-----------------------------------------------------------------------------
(* Fundings are a grid of whole hours, so that at most the first minute of *)
(* an hour is one.                                                         *)
LEMMA FundingAtTheHour ==
  ASSUME NEW f \in Fundings, f \in Spine
  PROVE  f = Hour
<1>1. /\ f \in Nat /\ f % FundingLen = 0 /\ Hour <= f /\ f < Hour + HourLen
  BY SpineTyped DEF Fundings
<1> DEFINE a == f \div FundingLen
           b == FundingLen \div HourLen
<1>2. a \in Nat /\ b \in Nat /\ f = FundingLen * a /\ FundingLen = HourLen * b
  BY <1>1, SpineTyped, LengthsAssumption
<1> HIDE DEF a, b
<1>3. f = HourLen * (b * a)
  BY <1>2, SpineTyped
<1>4. f % HourLen = 0
  BY <1>2, <1>3, SpineTyped
<1>5. HourStart(f) = f /\ HourStart(Hour) = Hour
  BY <1>1, <1>4, SpineTyped, HourAssumption DEF HourStart
<1>6. HourStart(f) = HourStart(Hour)
  BY <1>1, <1>5, SpineTyped, HourIsBlock
<1> QED
  BY <1>5, <1>6

(* The grid goes on, and has nothing in between.                           *)
LEMMA FundingGrid ==
  ASSUME NEW f \in Fundings
  PROVE  /\ f + FundingLen <= MaxNow => f + FundingLen \in Fundings
         /\ FundingLen <= f => f - FundingLen \in Fundings
         /\ \A g \in Fundings : f < g => f + FundingLen <= g
<1>1. f \in 0..MaxNow /\ f % FundingLen = 0 /\ MaxNow \in Nat
  BY HourAssumption DEF Fundings, Minutes
<1> DEFINE a == f \div FundingLen
<1>2. a \in Nat /\ f = FundingLen * a
  BY <1>1, SpineTyped
<1> HIDE DEF a
<1>3. (f + FundingLen) % FundingLen = 0
  <2>1. f + FundingLen = FundingLen * (a + 1)
    BY <1>2, SpineTyped
  <2> QED BY <1>2, <2>1, SpineTyped
<1>4. FundingLen <= f => (f - FundingLen) % FundingLen = 0
  <2>1. f - FundingLen = FundingLen * (a - 1)
    BY <1>2, SpineTyped
  <2> QED BY <1>2, <2>1, SpineTyped
<1>5. ASSUME NEW g \in Fundings, f < g PROVE f + FundingLen <= g
  <2> DEFINE c == g \div FundingLen
  <2>1. c \in Nat /\ g = FundingLen * c
    BY SpineTyped DEF Fundings, Minutes
  <2> HIDE DEF c
  <2>2. a < c
    <3>1. ASSUME c <= a PROVE FALSE
      <4>1. FundingLen * c <= FundingLen * a
        BY <1>2, <2>1, <3>1, SpineTyped
      <4> QED BY <1>1, <1>2, <1>5, <2>1, <4>1
    <3> QED BY <1>2, <2>1, <3>1
  <2>3. FundingLen * (a + 1) <= FundingLen * c
    BY <1>2, <2>1, <2>2, SpineTyped
  <2>4. FundingLen * (a + 1) = FundingLen * a + FundingLen
    BY <1>2, SpineTyped
  <2> QED
    BY <1>2, <2>1, <2>3, <2>4
<1> QED
  BY <1>1, <1>3, <1>4, <1>5, SpineTyped DEF Fundings, Minutes

(* The rate in force all over the hour, G: no funding comes between it and *)
(* the hour, and the next one not before the hour's end.                   *)
LEMMA FundingOfHour ==
  \E G \in Fundings :
    /\ G <= Hour /\ Hour + HourLen <= G + FundingLen
    /\ \A m \in Spine : Latest(Fundings, m) = G
    /\ \A f \in Fundings : f < Hour + HourLen => f <= G
    /\ Hour \in Fundings => G = Hour
<1>1. Fundings \in SUBSET Nat /\ 0 \in Fundings
  BY SpineTyped, HourAssumption DEF Fundings, Minutes
<1> DEFINE G == Latest(Fundings, Hour)
<1>2. /\ G \in Fundings /\ G <= Hour
      /\ \A j \in Fundings : j <= Hour => j <= G
  <2>1. Hour \in Nat /\ 0 <= Hour
    BY SpineTyped
  <2> QED
    BY <1>1, <2>1, LatestMember
<1> HIDE DEF G
<1>3. G \in Nat /\ Hour \in Nat /\ HourLen \in Nat \ {0} /\ FundingLen \in Nat \ {0}
      /\ MaxNow \in Nat /\ Hour + HourLen <= MaxNow
  BY <1>1, <1>2, SpineTyped, HourAssumption
<1>4. ASSUME NEW f \in Fundings, f < Hour + HourLen PROVE f <= G
  <2>1. f \in Nat
    BY <1>1
  <2>2. CASE f <= Hour
    BY <1>2, <2>2
  <2>3. CASE Hour < f
    <3>1. f \in Spine
      BY <1>3, <1>4, <2>1, <2>3 DEF Spine
    <3>2. f = Hour
      BY <3>1, FundingAtTheHour
    <3> QED
      BY <1>3, <2>3, <3>2
  <2> QED
    BY <1>3, <2>1, <2>2, <2>3
<1>5. Hour + HourLen <= G + FundingLen
  <2>1. SUFFICES ASSUME G + FundingLen < Hour + HourLen PROVE FALSE
    BY <1>3
  <2>2. G + FundingLen \in Fundings
    BY <1>2, <1>3, <2>1, FundingGrid
  <2>3. G + FundingLen <= G
    BY <1>4, <2>1, <2>2
  <2> QED
    BY <1>3, <2>3
<1>6. ASSUME NEW m \in Spine PROVE Latest(Fundings, m) = G
  <2>1. m \in Nat /\ Hour <= m /\ m < Hour + HourLen
    BY SpineTyped
  <2>2. \A j \in Fundings : j <= m => j <= G
    BY <1>1, <1>3, <1>4, <2>1
  <2> QED
    BY <1>1, <1>2, <1>3, <2>1, <2>2, LatestIs
<1>7. Hour \in Fundings => G = Hour
  BY <1>2, <1>3
<1> QED
  BY <1>2, <1>4, <1>5, <1>6, <1>7

(* What a window is filled with, if the funding history was fetched: the   *)
(* rate in force or, in the minute of a funding, the one before it.        *)
LEMMA FundingOfWindow ==
  ASSUME NEW from \in Spine, NEW to \in Spine, NEW m \in from..to,
         now \in Nat, to < now, NEW off, "funding" \notin off,
         NEW late \in BOOLEAN, NEW keepSeed \in BOOLEAN,
         late => to \in Fundings
  PROVE  \/ Funding(from, to, m, off, late, keepSeed) = Latest(Fundings, m)
         \/ /\ m \in Fundings
            /\ Funding(from, to, m, off, late, keepSeed) = Latest(Fundings, m - 1)
<1> DEFINE Own(k) == OwnFunding(from, to, k, off, late, keepSeed)
           known == { k \in from..m : Own(k) # NoValue /\ m - k <= FillLimit }
           reached == { f \in FundingFetched(from, to) :
                          f <= to /\ ~(late /\ f = to) }
           seed == Seed(from, to, late)
<1>1. PICK G \in Fundings :
        /\ G <= Hour /\ Hour + HourLen <= G + FundingLen
        /\ \A k \in Spine : Latest(Fundings, k) = G
        /\ \A f \in Fundings : f < Hour + HourLen => f <= G
        /\ Hour \in Fundings => G = Hour
  BY FundingOfHour
<1>2. /\ from \in Nat /\ to \in Nat /\ m \in Nat /\ G \in Nat
      /\ Hour \in Nat /\ HourLen \in Nat \ {0} /\ FundingLen \in Nat \ {0}
      /\ Hour <= from /\ from <= m /\ m <= to /\ to < Hour + HourLen
      /\ Fundings \in SUBSET Nat
  BY SpineTyped DEF Fundings, Minutes
<1>3. m \in Spine /\ Latest(Fundings, m) = G
  BY <1>1, <1>2 DEF Spine
<1>5. /\ reached \in SUBSET Fundings
      /\ \A f \in Fundings : from - FundingLen <= f /\ f <= to /\ ~(late /\ f = to)
           => f \in reached
      /\ \A f \in reached : f <= to /\ f <= G /\ ~(late /\ f = to)
  <2>1. \A f \in reached : f \in Fundings /\ f <= to /\ ~(late /\ f = to)
    BY DEF FundingFetched
  <2>2. ASSUME NEW f \in reached PROVE f <= G
    <3>1. f \in Fundings /\ f \in Nat /\ f < Hour + HourLen
      <4>1. f \in Fundings /\ f <= to
        BY <2>1
      <4> QED BY <1>2, <4>1
    <3> HIDE DEF reached
    <3> QED
      BY <1>1, <3>1
  <2>3. ASSUME NEW f \in Fundings, from - FundingLen <= f, f <= to, ~(late /\ f = to)
        PROVE  f \in reached
    <3>1. f \in Nat /\ f <= to + 1 /\ f <= now
      BY <1>2, <2>3
    <3> QED
      BY <2>3, <3>1 DEF FundingFetched
  <2> QED
    BY <2>1, <2>2, <2>3
<1>6. G # NoValue
  BY <1>2, NoValueAssumption
<1>7. \A k \in from..to : k \in FundingFetched(from, to) => k = Hour /\ k = G
  <2> SUFFICES ASSUME NEW k \in from..to, k \in FundingFetched(from, to)
               PROVE  k = Hour /\ k = G
    OBVIOUS
  <2>1. k \in Spine /\ k \in Fundings
    BY <1>2 DEF FundingFetched, Spine
  <2>2. k = Hour
    BY <2>1, FundingAtTheHour
  <2> QED
    BY <1>1, <2>1, <2>2
<1>8. \A k \in from..m : m - k <= FillLimit
  BY <1>2, LengthsAssumption
(* Only the first minute of the window has a rate of its own.              *)
<1>9. \A k \in from..m : k # from => Own(k) = NoValue
  <2> SUFFICES ASSUME NEW k \in from..m, k # from PROVE Own(k) = NoValue
    OBVIOUS
  <2>1. k \in Nat /\ from < k /\ k \in from..to
    BY <1>2
  <2>2. k \notin FundingFetched(from, to)
    BY <1>2, <1>7, <2>1
  <2> QED
    BY <2>1, <2>2 DEF OwnFunding
<1>10. Own(from) # NoValue => Funding(from, to, m, off, late, keepSeed) = Own(from)
  <2> SUFFICES ASSUME Own(from) # NoValue
               PROVE  Funding(from, to, m, off, late, keepSeed) = Own(from)
    OBVIOUS
  <2>1. from \in known
    BY <1>2, <1>8
  <2>2. \A k \in known : k = from
    BY <1>9
  <2>3. known = {from}
    BY <2>1, <2>2
  <2>4. Funding(from, to, m, off, late, keepSeed) =
          IF known = {} THEN NoValue ELSE Own(Latest(known, m))
    BY DEF Funding
  <2>5. Latest(known, m) = from
    <3> HIDE DEF known
    <3> QED BY <1>2, <2>3, LatestIs
  <2> HIDE DEF known, Own
  <2> QED
    BY <2>3, <2>4, <2>5
<1>11. from \in FundingFetched(from, to) <=> from = Hour /\ Hour \in Fundings
  <2>1. Hour \in Fundings /\ from = Hour => from \in FundingFetched(from, to)
    BY <1>2 DEF FundingFetched
  <2> QED
    BY <1>2, <1>7, <2>1 DEF FundingFetched
<1>12. Own(from) = IF from \in FundingFetched(from, to) /\ ~(seed # NoValue /\ keepSeed)
                   THEN from
                   ELSE IF seed # NoValue THEN seed
                   ELSE IF "premium" \notin off THEN Latest(Fundings, now)
                   ELSE NoValue
  BY DEF OwnFunding
<1>13. seed = IF \E f \in reached : from <= f THEN NoValue ELSE Latest(reached, to)
  BY DEF Seed
<1> HIDE DEF Own, known, seed, reached
<1>14. CASE G \in reached /\ G < from
  <2>1. Latest(reached, to) = G
    BY <1>2, <1>5, <1>14, LatestIs
  <2>2. seed = G
    BY <1>2, <1>5, <1>13, <1>14, <2>1
  <2>3. from \notin FundingFetched(from, to)
    BY <1>1, <1>2, <1>11, <1>14
  <2> QED
    BY <1>3, <1>6, <1>10, <1>12, <2>2, <2>3
<1>15. CASE G \in reached /\ from <= G
  <2>1. seed = NoValue /\ from = Hour /\ Hour = G
    BY <1>1, <1>2, <1>13, <1>15
  <2>2. Own(from) = G
    BY <1>11, <1>12, <2>1
  <2> QED
    BY <1>3, <1>6, <1>10, <2>2
(* The funding is some milliseconds into the window's last minute, which   *)
(* is its first then: the seed is the rate before it.                      *)
<1>16. CASE G \notin reached
  <2>1. late /\ G = to /\ to = from /\ from = Hour /\ m = Hour /\ Hour \in Fundings
    BY <1>1, <1>2, <1>5, <1>16
  <2> DEFINE B == Hour - FundingLen
  <2>2. B \in Fundings
    BY <2>1, FundingGrid, HourAssumption
  <2>3. B \in Nat /\ B < Hour /\ \A f \in Fundings : f < Hour => f <= B
    <3>1. ASSUME NEW f \in Fundings, f < Hour PROVE f <= B
      <4>1. f + FundingLen <= Hour
        BY <2>1, <3>1, FundingGrid
      <4> QED
        BY <1>2, <4>1
    <3> QED
      BY <1>2, <2>2, <3>1
  <2>4. B \in reached /\ \A f \in reached : f <= B
    <3>1. B \in reached
      BY <1>2, <1>5, <2>1, <2>2, <2>3
    <3>2. \A f \in reached : f < Hour
      BY <1>2, <1>5, <2>1
    <3> QED
      BY <1>5, <2>3, <3>1, <3>2
  <2> HIDE DEF B
  <2>5. Latest(reached, to) = B
    BY <1>2, <1>5, <2>1, <2>3, <2>4, LatestIs
  <2>6. seed = B
    BY <1>2, <1>5, <1>13, <2>1, <2>3, <2>4, <2>5
  <2>7. B # NoValue
    BY <2>3, NoValueAssumption
  <2>8. Latest(Fundings, Hour - 1) = B
    <3>1. Hour - 1 \in Nat /\ B <= Hour - 1
          /\ \A f \in Fundings : f <= Hour - 1 => f <= B
      BY <1>2, <2>3
    <3> QED
      BY <1>2, <2>2, <3>1, LatestIs
  <2>9. Own(from) = from \/ Own(from) = B
    BY <1>12, <2>6, <2>7
  <2>10. from # NoValue
    BY <1>2, NoValueAssumption
  <2> QED
    BY <1>3, <1>10, <2>1, <2>7, <2>8, <2>9, <2>10
<1> QED
  BY <1>2, <1>14, <1>15, <1>16

-----------------------------------------------------------------------------
(* A rewrite is a write, and the other steps leave the rows alone.         *)
LEMMA RowsByWrite ==
  ASSUME [Next]_vars
  PROVE  \/ \E from, to \in Spine, off \in SUBSET Optional,
              late, keepSeed \in BOOLEAN :
              (late => to \in Fundings) /\ Write(from, to, off, late, keepSeed)
         \/ UNCHANGED <<table, writes, without>>
  BY DEF Next, Tick, Restart, vars

(* A row of a window that is written, and one outside of it.               *)
RowOf(from, to, off, late, keepSeed, m) ==
  [ratio     |-> IF "ratio" \in off THEN NoValue ELSE Ratio(from, to, m),
   funding   |-> Funding(from, to, m, off, late, keepSeed),
   predicted |-> IF Predicted(from, m, off) = NoValue
                 THEN table[m].predicted ELSE Predicted(from, m, off)]

LEMMA RowWritten ==
  ASSUME NEW from, NEW to, NEW off, NEW late, NEW keepSeed,
         Write(from, to, off, late, keepSeed)
  PROVE  \A m \in Spine :
           /\ m \notin from..to => table'[m] = table[m] /\ without'[m] = without[m]
           /\ m \in from..to =>
                /\ without'[m] = off
                /\ table'[m] = RowOf(from, to, off, late, keepSeed, m)
<1> SUFFICES ASSUME NEW m \in Spine
             PROVE  /\ m \notin from..to
                         => table'[m] = table[m] /\ without'[m] = without[m]
                    /\ m \in from..to =>
                         /\ without'[m] = off
                         /\ table'[m] = RowOf(from, to, off, late, keepSeed, m)
  OBVIOUS
<1>1. m \notin from..to => table'[m] = table[m] /\ without'[m] = without[m]
  BY DEF Write
<1>2. ASSUME m \in from..to
      PROVE  /\ without'[m] = off
             /\ table'[m] = Merged(table[m], Built(from, to, off, late, keepSeed)[m])
  BY <1>2 DEF Write
<1>3. ASSUME m \in from..to
      PROVE  Built(from, to, off, late, keepSeed)[m] =
               [ratio     |-> IF "ratio" \in off THEN NoValue ELSE Ratio(from, to, m),
                funding   |-> Funding(from, to, m, off, late, keepSeed),
                predicted |-> Predicted(from, m, off)]
  BY <1>3 DEF Built
<1> QED
  BY <1>1, <1>2, <1>3 DEF Merged, RowOf

LEMMA RowFields ==
  ASSUME NEW from, NEW to, NEW off, NEW late, NEW keepSeed, NEW m
  PROVE  LET row == RowOf(from, to, off, late, keepSeed, m) IN
         /\ row.ratio = IF "ratio" \in off THEN NoValue ELSE Ratio(from, to, m)
         /\ row.funding = Funding(from, to, m, off, late, keepSeed)
         /\ row.predicted = IF Predicted(from, m, off) = NoValue
                            THEN table[m].predicted ELSE Predicted(from, m, off)
  BY DEF RowOf

(* What the two fundings of a window are made of.                          *)
LEMMA OwnTyped ==
  ASSUME TypeOK, NEW from \in Spine, NEW to \in Spine, NEW k \in Spine,
         NEW off, NEW late, NEW keepSeed
  PROVE  OwnFunding(from, to, k, off, late, keepSeed) \in Values
<1>1. Fundings \in SUBSET Nat /\ Fundings \subseteq Minutes /\ now \in Nat
      /\ to \in Nat /\ k \in Minutes
  BY SpineTyped DEF Fundings, Minutes, TypeOK
<1> DEFINE reached == { f \in FundingFetched(from, to) :
                          f <= to /\ ~(late /\ f = to) }
<1>2. reached \in SUBSET Nat /\ reached \subseteq Minutes
  BY <1>1 DEF FundingFetched
<1>3. Latest(reached, to) \in Values
  <2> HIDE DEF reached
  <2> QED BY <1>1, <1>2, LatestTyped DEF Values
<1>4. Seed(from, to, late) \in Values
  BY <1>3 DEF Seed, Values
<1>5. Latest(Fundings, now) \in Values
  BY <1>1, LatestTyped DEF Values
<1> QED
  BY <1>1, <1>4, <1>5 DEF OwnFunding, Values

LEMMA FundingTyped ==
  ASSUME TypeOK, NEW from \in Spine, NEW to \in Spine, NEW m \in from..to,
         from..to \subseteq Spine, NEW off, NEW late, NEW keepSeed
  PROVE  Funding(from, to, m, off, late, keepSeed) \in Values
<1> DEFINE Own(k) == OwnFunding(from, to, k, off, late, keepSeed)
           known == { k \in from..m : Own(k) # NoValue /\ m - k <= FillLimit }
<1>1. from \in Nat /\ m \in Nat /\ to \in Nat /\ m <= to
  BY SpineTyped
<1>2. known \in SUBSET Nat /\ known \subseteq Spine /\ \A k \in known : k <= m
  <2>1. \A k \in from..m : k \in Nat /\ k \in from..to /\ k <= m
    BY <1>1
  <2> HIDE DEF Own
  <2> QED BY <2>1
<1>3. known # {} => Latest(known, m) \in known
  <2> HIDE DEF known
  <2> QED BY <1>1, <1>2, LatestMember
<1>4. known # {} => Own(Latest(known, m)) \in Values
  <2> SUFFICES ASSUME known # {} PROVE Own(Latest(known, m)) \in Values
    OBVIOUS
  <2>1. Latest(known, m) \in Spine
    <3> HIDE DEF known
    <3> QED BY <1>2, <1>3
  <2> HIDE DEF known
  <2> QED BY <2>1, OwnTyped
<1>5. Funding(from, to, m, off, late, keepSeed) =
        IF known = {} THEN NoValue ELSE Own(Latest(known, m))
  BY DEF Funding
<1> HIDE DEF known, Own
<1> QED
  BY <1>4, <1>5 DEF Values

-----------------------------------------------------------------------------
(* Every variable keeps its type, and every value is null or a minute of   *)
(* the clock: no column takes a value from after now.                      *)
THEOREM ColumnsTypeCorrect == Spec => []TypeOK
<1>1. Init => TypeOK
  BY SpineTyped, BoundsAssumption, HourAssumption
     DEF Init, TypeOK, Rows, NoRow, Values, Minutes
<1>2. TypeOK /\ [Next]_vars => TypeOK'
  <2> SUFFICES ASSUME TypeOK, [Next]_vars PROVE TypeOK'
    OBVIOUS
  <2>1. CASE UNCHANGED vars
    BY <2>1 DEF TypeOK, vars
  <2>2. CASE Tick
    BY <2>2, HourAssumption DEF Tick, TypeOK, Minutes
  <2>3. CASE Restart
    BY <2>3 DEF Restart, TypeOK
  <2>4. ASSUME NEW from \in Spine, NEW to \in Spine, NEW off \in SUBSET Optional,
               NEW late \in BOOLEAN, NEW keepSeed \in BOOLEAN,
               Write(from, to, off, late, keepSeed)
        PROVE  TypeOK'
    <3>1. from..to \subseteq Spine /\ to < now /\ from \in Nat /\ to \in Nat
          /\ now \in Nat
      BY <2>4, WindowIsPast, SpineTyped DEF TypeOK, Minutes
    <3>2. ASSUME NEW m \in Spine PROVE table'[m] \in Rows /\ without'[m] \in SUBSET Optional
      <4>1. CASE m \notin from..to
        BY <2>4, <4>1, RowWritten DEF TypeOK
      <4>2. CASE m \in from..to
        <5>1. Ratio(from, to, m) \in Values
          BY <3>1, <4>2, RatioOfWindow, RatioTyped, SpineTyped
        <5>2. Funding(from, to, m, off, late, keepSeed) \in Values
          BY <3>1, <4>2, FundingTyped
        <5>3. Predicted(from, m, off) \in Values /\ table[m].predicted \in Values
          BY SpineTyped DEF Predicted, TypeOK, Values, Rows
        <5>4. NoValue \in Values
          BY DEF Values
        <5>5. /\ without'[m] = off
              /\ table'[m] = RowOf(from, to, off, late, keepSeed, m)
          BY <2>4, <4>2, RowWritten
        <5>6. RowOf(from, to, off, late, keepSeed, m) \in Rows
          BY <5>1, <5>2, <5>3, <5>4 DEF RowOf, Rows
        <5> QED
          BY <5>5, <5>6
      <4> QED
        BY <4>1, <4>2
    <3>3. table' \in [Spine -> Rows] /\ without' \in [Spine -> SUBSET Optional]
      <4>1. /\ table' = [m \in Spine |-> table'[m]]
            /\ without' = [m \in Spine |-> without'[m]]
        BY <2>4 DEF Write
      <4> QED
        BY <3>2, <4>1
    <3>4. writes' \in 0..MaxWrites /\ now' = now /\ memory' = memory
      BY <2>4, BoundsAssumption DEF Write, TypeOK
    <3> QED
      BY <3>3, <3>4 DEF TypeOK
  <2> QED
    BY <2>1, <2>2, <2>3, <2>4 DEF Next
<1> QED
  BY <1>1, <1>2, PTL DEF Spec

(* Whatever windows an hour is cut into, a ratio is that of the last point *)
(* before its minute: RatioCutFree, for every hour and all ratio points.   *)
THEOREM RatioIsCutFree == Spec => []RatioCutFree
<1>1. Init => RatioCutFree
  BY DEF Init, RatioCutFree, Optional
<1>2. TypeOK /\ RatioCutFree /\ [Next]_vars => RatioCutFree'
  <2> SUFFICES ASSUME TypeOK, RatioCutFree, [Next]_vars,
                      NEW m \in Spine, "ratio" \notin without'[m]
               PROVE  table'[m].ratio = Latest({ p \in Points : m - p <= Tolerance }, m)
    BY DEF RatioCutFree
  <2>1. CASE UNCHANGED <<table, writes, without>>
    BY <2>1 DEF RatioCutFree
  <2>2. ASSUME NEW from \in Spine, NEW to \in Spine, NEW off \in SUBSET Optional,
               NEW late \in BOOLEAN, NEW keepSeed \in BOOLEAN,
               Write(from, to, off, late, keepSeed)
        PROVE  table'[m].ratio = Latest({ p \in Points : m - p <= Tolerance }, m)
    <3>1. CASE m \notin from..to
      BY <2>2, <3>1, RowWritten DEF RatioCutFree
    <3>2. CASE m \in from..to
      <4>1. to < now /\ from \in Nat /\ to \in Nat /\ now \in Nat
        BY <2>2, WindowIsPast, SpineTyped DEF TypeOK, Minutes
      <4>2. table'[m].ratio = Ratio(from, to, m)
        BY <2>2, <3>2, RowWritten, RowFields
      <4> QED
        BY <3>2, <4>1, <4>2, RatioOfWindow
    <3> QED
      BY <3>1, <3>2
  <2> QED
    BY <2>1, <2>2, RowsByWrite
<1> QED
  BY <1>1, <1>2, ColumnsTypeCorrect, PTL DEF Spec

(* FundingInForce, for every hour and grid of fundings.                    *)
THEOREM FundingIsInForce == Spec => []FundingInForce
<1>1. Init => FundingInForce
  BY DEF Init, FundingInForce, Optional
<1>2. TypeOK /\ FundingInForce /\ [Next]_vars => FundingInForce'
  <2> SUFFICES ASSUME TypeOK, FundingInForce, [Next]_vars,
                      NEW m \in Spine, "funding" \notin without'[m]
               PROVE  \/ table'[m].funding = Latest(Fundings, m)
                      \/ /\ m \in Fundings
                         /\ table'[m].funding = Latest(Fundings, m - 1)
    BY DEF FundingInForce
  <2>1. CASE UNCHANGED <<table, writes, without>>
    BY <2>1 DEF FundingInForce
  <2>2. ASSUME NEW from \in Spine, NEW to \in Spine, NEW off \in SUBSET Optional,
               NEW late \in BOOLEAN, NEW keepSeed \in BOOLEAN,
               late => to \in Fundings, Write(from, to, off, late, keepSeed)
        PROVE  \/ table'[m].funding = Latest(Fundings, m)
               \/ /\ m \in Fundings
                  /\ table'[m].funding = Latest(Fundings, m - 1)
    <3>1. CASE m \notin from..to
      BY <2>2, <3>1, RowWritten DEF FundingInForce
    <3>2. CASE m \in from..to
      <4>1. to < now /\ now \in Nat
        BY <2>2, WindowIsPast DEF TypeOK, Minutes
      <4>2. /\ without'[m] = off
            /\ table'[m].funding = Funding(from, to, m, off, late, keepSeed)
        BY <2>2, <3>2, RowWritten, RowFields
      <4> QED
        BY <2>2, <3>2, <4>1, <4>2, FundingOfWindow
    <3> QED
      BY <3>1, <3>2
  <2> QED
    BY <2>1, <2>2, RowsByWrite
<1> QED
  BY <1>1, <1>2, ColumnsTypeCorrect, PTL DEF Spec

-----------------------------------------------------------------------------
(* A ratio that is there was asked for, or there is none.                  *)
NullWithout == \A m \in Spine : "ratio" \in without[m] => table[m].ratio = NoValue

LEMMA NullWithoutHolds == Spec => []NullWithout
<1>1. Init => NullWithout
  BY DEF Init, NullWithout, NoRow
<1>2. NullWithout /\ [Next]_vars => NullWithout'
  <2> SUFFICES ASSUME NullWithout, [Next]_vars,
                      NEW m \in Spine, "ratio" \in without'[m]
               PROVE  table'[m].ratio = NoValue
    BY DEF NullWithout
  <2>1. CASE UNCHANGED <<table, writes, without>>
    BY <2>1 DEF NullWithout
  <2>2. ASSUME NEW from \in Spine, NEW to \in Spine, NEW off \in SUBSET Optional,
               NEW late \in BOOLEAN, NEW keepSeed \in BOOLEAN,
               Write(from, to, off, late, keepSeed)
        PROVE  table'[m].ratio = NoValue
    <3>1. CASE m \notin from..to
      BY <2>2, <3>1, RowWritten DEF NullWithout
    <3>2. CASE m \in from..to
      BY <2>2, <3>2, RowWritten, RowFields
    <3> QED
      BY <3>1, <3>2
  <2> QED
    BY <2>1, <2>2, RowsByWrite
<1> QED
  BY <1>1, <1>2, PTL DEF Spec

(* A rate was in force at every minute of the hour, and at the one before. *)
LEMMA RateInForce ==
  ASSUME NEW m \in Spine
  PROVE  /\ Latest(Fundings, m) # NoValue
         /\ m \in Fundings => Latest(Fundings, m - 1) # NoValue
<1>1. /\ 0 \in Fundings /\ Fundings \in SUBSET Nat /\ m \in Nat /\ 0 <= m
      /\ m - 1 \in Nat /\ 0 <= m - 1
  BY SpineTyped, HourAssumption, LengthsAssumption DEF Fundings, Minutes
<1>2. Latest(Fundings, m) \in Nat /\ Latest(Fundings, m - 1) \in Nat
  BY <1>1, LatestMember
<1> QED
  BY <1>2, NoValueAssumption

(* NullsExplained, from the two invariants and the rate that is always in  *)
(* force.                                                                  *)
THEOREM NullsAreExplained == Spec => NullsExplained
<1> DEFINE Explained ==
      \A m \in Spine :
        /\ table[m].ratio # NoValue /\ table'[m].ratio = NoValue
             => "ratio" \in without'[m]
        /\ table[m].funding # NoValue /\ table'[m].funding = NoValue
             => "funding" \in without'[m]
        /\ table[m].predicted # NoValue => table'[m].predicted # NoValue
<1>1. TypeOK /\ RatioCutFree /\ RatioCutFree' /\ FundingInForce' /\ NullWithout
      /\ [Next]_vars => [Explained]_vars
  <2> SUFFICES ASSUME TypeOK, RatioCutFree, RatioCutFree', FundingInForce',
                      NullWithout, [Next]_vars, NEW m \in Spine
               PROVE  /\ table[m].ratio # NoValue /\ table'[m].ratio = NoValue
                           => "ratio" \in without'[m]
                      /\ table[m].funding # NoValue /\ table'[m].funding = NoValue
                           => "funding" \in without'[m]
                      /\ table[m].predicted # NoValue
                           => table'[m].predicted # NoValue
    OBVIOUS
  <2>1. table[m].ratio # NoValue /\ table'[m].ratio = NoValue
          => "ratio" \in without'[m]
    BY DEF RatioCutFree, NullWithout
  <2>2. table[m].funding # NoValue /\ table'[m].funding = NoValue
          => "funding" \in without'[m]
    BY RateInForce DEF FundingInForce
  <2>3. table[m].predicted # NoValue => table'[m].predicted # NoValue
    <3>1. CASE UNCHANGED <<table, writes, without>>
      BY <3>1
    <3>2. ASSUME NEW from \in Spine, NEW to \in Spine, NEW off \in SUBSET Optional,
                 NEW late \in BOOLEAN, NEW keepSeed \in BOOLEAN,
                 Write(from, to, off, late, keepSeed)
          PROVE  table[m].predicted # NoValue => table'[m].predicted # NoValue
      <4>1. CASE m \notin from..to
        BY <3>2, <4>1, RowWritten
      <4>2. CASE m \in from..to
        <5>1. table'[m].predicted = IF Predicted(from, m, off) = NoValue
                                    THEN table[m].predicted
                                    ELSE Predicted(from, m, off)
          BY <3>2, <4>2, RowWritten, RowFields
        <5> QED
          BY <5>1
      <4> QED
        BY <4>1, <4>2
    <3> QED
      BY <3>1, <3>2, RowsByWrite
  <2> QED
    BY <2>1, <2>2, <2>3
<1>2. []NullWithout /\ []RatioCutFree /\ []FundingInForce /\ []TypeOK
      /\ [][Next]_vars => [][Explained]_vars
  <2> HIDE DEF Explained
  <2> QED BY <1>1, PTL
<1> QED
  BY <1>2, ColumnsTypeCorrect, RatioIsCutFree, FundingIsInForce, NullWithoutHolds,
     PTL DEF Spec, NullsExplained
=============================================================================
