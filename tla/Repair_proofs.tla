---------------------------- MODULE Repair_proofs ----------------------------
(***************************************************************************)
(* Proofs about Repair, for any lake, any ranges and any number of         *)
(* streams, crashes and damages.  What a backfill reports as remaining     *)
(* rests on a count: the hours that are invalid, due or in hand, and those *)
(* it repaired, are no more than those it found.                           *)
(* Why an hour is left invalid rests on a reason that no later step of the *)
(* backfill takes away, for each hour it is through with.                  *)
(***************************************************************************)
EXTENDS Repair, TimeGrid_proofs, FiniteSetTheorems

(* The hours of a range are hours of the model, and there are finitely     *)
(* many of them.                                                           *)
LEMMA HoursFinite ==
  /\ IsFiniteSet(Hours) /\ 0 \in Hours /\ Hours \subseteq Minutes
  /\ Minutes \subseteq Nat /\ LastMinute \in Nat
<1>1. LastMinute \in Nat
  BY LoadsAssumption
<1>2. IsFiniteSet(Minutes)
  BY <1>1, FS_Interval DEF Minutes
<1>4. HourStart(0) = 0 /\ 0 \in Minutes
  BY <1>1, HourLenAssumption DEF HourStart, Minutes
<1>5. 0 \in Hours
  BY <1>4 DEF Hours
<1>6. ASSUME NEW m \in Minutes PROVE HourStart(m) \in Minutes
  <2>1. m \in Nat /\ m <= LastMinute
    BY <1>1 DEF Minutes
  <2>2. m % HourLen \in Nat /\ m % HourLen <= m
    BY <2>1, HourLenAssumption
  <2> QED
    BY <1>1, <2>1, <2>2 DEF HourStart, Minutes
<1>7. Hours \subseteq Minutes
  BY <1>6 DEF Hours
<1>8. IsFiniteSet(Hours)
  BY <1>2, <1>7, FS_Subset
<1> QED
  BY <1>1, <1>5, <1>7, <1>8 DEF Minutes

LEMMA RangeTyped ==
  ASSUME NEW r \in Ranges
  PROVE  /\ r[1] \in Nat /\ r[2] \in Nat /\ r[1] <= r[2] /\ r[2] < LastMinute
         /\ IterHours(r[1], r[2]) \subseteq Hours
<1>1. r \in Minutes \X Minutes /\ r[1] <= r[2] /\ r[2] < LastMinute
  BY RangesAssumption
<1>2. r[1] \in Nat /\ r[2] \in Nat
  BY <1>1, HoursFinite
<1>3. r[1]..r[2] \subseteq Minutes
  BY <1>1, <1>2, HoursFinite DEF Minutes
<1> QED
  BY <1>1, <1>2, <1>3 DEF IterHours, Hours

LEMMA IssuesTyped ==
  ASSUME NEW r \in Ranges
  PROVE  /\ Issues(r) \subseteq IterHours(r[1], r[2]) /\ Issues(r) \subseteq Hours
         /\ IsFiniteSet(Issues(r)) /\ Cardinality(Issues(r)) \in Nat
<1>1. Issues(r) \subseteq IterHours(r[1], r[2]) /\ Issues(r) \subseteq Hours
  BY RangeTyped DEF Issues
<1>2. IsFiniteSet(Issues(r))
  BY <1>1, HoursFinite, FS_Subset
<1> QED
  BY <1>1, <1>2, FS_CardinalityType

(* A day is the block of DayLen minutes that it numbers.                   *)
LEMMA DayIsBlock ==
  ASSUME NEW m \in Nat
  PROVE  /\ DayOf(m) \in Nat
         /\ DayLen * DayOf(m) <= m /\ m < DayLen * DayOf(m) + DayLen
         /\ \A d \in Nat : DayLen * d <= m /\ m < DayLen * d + DayLen => DayOf(m) = d
<1> DEFINE a == m \div DayLen
<1>1. DayLen \in Nat \ {0}
  BY DayLenAssumption
<1>2. a \in Nat /\ DayLen * a <= m /\ m < DayLen * a + DayLen
  BY <1>1
<1> HIDE DEF a
<1>3. ASSUME NEW d \in Nat, DayLen * d <= m, m < DayLen * d + DayLen PROVE a = d
  <2>1. DayLen * a < DayLen * (d + 1) /\ DayLen * d < DayLen * (a + 1)
    <3>1. DayLen * (d + 1) = DayLen * d + DayLen /\ DayLen * (a + 1) = DayLen * a + DayLen
      BY <1>1, <1>2
    <3>2. DayLen * d \in Nat /\ DayLen * a \in Nat
      BY <1>1, <1>2
    <3> QED BY <1>1, <1>2, <1>3, <3>1, <3>2
  <2>2. a < d + 1 /\ d < a + 1
    BY <1>1, <1>2, <2>1
  <2> QED BY <1>2, <2>2
<1> QED
  BY <1>2, <1>3 DEF DayOf, a

(* Later minutes are not of earlier days.                                  *)
LEMMA DayMonotone ==
  ASSUME NEW m \in Nat, NEW n \in Nat, m <= n
  PROVE  DayOf(m) <= DayOf(n)
<1> DEFINE a == DayOf(m)
           b == DayOf(n)
<1>1. DayLen \in Nat \ {0} /\ a \in Nat /\ b \in Nat
  BY DayLenAssumption, DayIsBlock
<1>2. DayLen * a <= m /\ n < DayLen * b + DayLen
  BY DayIsBlock
<1> HIDE DEF a, b
<1>3. DayLen * a < DayLen * (b + 1)
  <2>1. DayLen * (b + 1) = DayLen * b + DayLen /\ DayLen * b \in Nat /\ DayLen * a \in Nat
    BY <1>1
  <2> QED BY <1>1, <1>2, <2>1
<1>4. a < b + 1
  BY <1>1, <1>3
<1> QED
  BY <1>1, <1>4 DEF a, b

(* The days of a window are days of the model.                             *)
LEMMA DayTyped ==
  ASSUME NEW m \in Minutes
  PROVE  DayOf(m) \in Days
<1>1. m \in Nat /\ LastMinute \in Nat /\ m <= LastMinute
  BY HoursFinite DEF Minutes
<1>2. DayOf(m) \in Nat /\ DayOf(LastMinute) \in Nat /\ DayOf(m) <= DayOf(LastMinute)
  BY <1>1, DayIsBlock, DayMonotone
<1> QED
  BY <1>2 DEF Days

(* An hour does not span two days.                                         *)
LEMMA HourWithinDay ==
  ASSUME NEW m \in Nat
  PROVE  DayOf(m) = DayOf(HourStart(m))
<1> DEFINE h == HourStart(m)
           d == DayOf(h)
           k == m \div HourLen
           q == DayLen \div HourLen
<1>1. /\ HourLen \in Nat \ {0} /\ DayLen \in Nat \ {0}
      /\ k \in Nat /\ q \in Nat /\ h = HourLen * k /\ DayLen = HourLen * q
  BY HourLenAssumption, DayLenAssumption DEF HourStart
<1>2. h \in Nat /\ h <= m /\ m < h + HourLen
  BY HourStartBounds
<1>3. d \in Nat /\ DayLen * d <= h /\ h < DayLen * d + DayLen
  BY <1>2, DayIsBlock
<1> HIDE DEF h, d, k, q
<1>4. DayLen * d + DayLen = HourLen * (q * d + q) /\ q * d + q \in Nat
  <2>1. q * d \in Nat
    BY <1>1, <1>3
  <2>2. HourLen * (q * d + q) = HourLen * (q * d) + HourLen * q
    BY <1>1, <2>1
  <2>3. HourLen * (q * d) = (HourLen * q) * d
    BY <1>1, <1>3
  <2> QED BY <1>1, <2>1, <2>2, <2>3
<1>5. k < q * d + q
  <2> DEFINE z == q * d + q
  <2>1. z \in Nat /\ HourLen * k < HourLen * z
    BY <1>1, <1>3, <1>4
  <2> HIDE DEF z
  <2>2. k < z
    BY <1>1, <2>1
  <2> QED BY <2>2 DEF z
<1>6. h + HourLen <= DayLen * d + DayLen
  <2> DEFINE z == q * d + q
  <2>1. z \in Nat /\ k + 1 <= z
    BY <1>1, <1>4, <1>5
  <2> HIDE DEF z
  <2>2. HourLen * (k + 1) <= HourLen * z
    BY <1>1, <2>1
  <2>3. HourLen * (k + 1) = h + HourLen
    BY <1>1
  <2> QED BY <1>4, <2>2, <2>3 DEF z
<1>7. DayLen * d <= m /\ m < DayLen * d + DayLen
  <2>1. DayLen * d \in Nat
    BY <1>1, <1>3
  <2> QED BY <1>1, <1>2, <1>3, <1>6, <2>1
<1>8. DayOf(m) = d
  BY <1>3, <1>7, DayIsBlock
<1> QED
  BY <1>8 DEF d, h

LEMMA WindowTyped ==
  ASSUME TypeOK
  PROVE  /\ From \in Minutes /\ To + 1 \in Minutes
         /\ FirstDay(From) \in Days /\ LastDay(To) \in Days
         /\ args.range \in Ranges
<1>1. args.range \in Ranges /\ hour \in Minutes /\ hour \in Nat
  BY HoursFinite DEF TypeOK, Arguments
<1>2. /\ args.range[1] \in Nat /\ args.range[2] \in Nat
      /\ args.range[1] <= args.range[2] /\ args.range[2] < LastMinute
  BY <1>1, RangeTyped
<1>3. From \in Minutes
  BY <1>1, <1>2, HoursFinite DEF From, Minutes
<1>4. To + 1 \in Minutes
  BY <1>1, <1>2, HoursFinite, HourLenAssumption DEF To, WindowEnd, Minutes
<1> QED
  BY <1>1, <1>3, <1>4, DayTyped DEF FirstDay, LastDay

-----------------------------------------------------------------------------
(* The issue in hand, until its partition is written.                      *)
InHand == IF pc \in {"band", "load", "download", "fetch", "write"}
          THEN {hour} ELSE {}

(* The hours that may yet be counted, or are still invalid.                *)
Due == Issues(args.range) \union todo \union InHand

(* What holds while a backfill runs.                                       *)
Counted ==
  /\ pc \notin {"idle", "next", "reported"} => hour \notin todo
  /\ pc \notin {"idle", "reported"} =>
       Cardinality(Due) + repaired + (IF pc = "ledger" THEN 1 ELSE 0) <= found
  /\ pc = "idle" => repaired = 0
  /\ RemainingNeverUnder

RepairInv == TypeOK /\ Counted

LEMMA DueFinite ==
  ASSUME TypeOK
  PROVE  /\ Due \subseteq Hours /\ IsFiniteSet(Due) /\ Cardinality(Due) \in Nat
         /\ Cardinality(Issues(args.range)) <= Cardinality(Due)
         /\ Cardinality(Issues(args.range)) \in Nat
<1>1. args.range \in Ranges /\ todo \subseteq Hours /\ InHand \subseteq Hours
  BY DEF TypeOK, Arguments, InHand
<1>2. Due \subseteq Hours
  BY <1>1, IssuesTyped DEF Due
<1>3. IsFiniteSet(Due)
  BY <1>2, HoursFinite, FS_Subset
<1>4. Issues(args.range) \subseteq Due
  BY DEF Due
<1> QED
  BY <1>1, <1>2, <1>3, <1>4, FS_Subset, FS_CardinalityType, IssuesTyped

(* The locals that Leave and Forget set have their types.                  *)
LEMMA FreshTyped ==
  /\ FirstArguments \in Arguments /\ 0 \in Hours /\ <<1, 0>> \in Objects
  /\ NothingGot \in [Streams -> SUBSET Minutes]
<1>1. FirstArguments \in Arguments
  <2>1. Arguments # {}
    <3>1. PICK r \in Ranges, n \in SliceSizes : TRUE
      BY RangesAssumption
    <3>2. [range |-> r, visionOnly |-> FALSE, force |-> FALSE, slice |-> n] \in Arguments
      BY <3>1 DEF Arguments
    <3> QED BY <3>2
  <2> QED
    BY <2>1 DEF FirstArguments
<1>2. 0 \in Days
  <2>1. 0 \in Minutes /\ DayOf(0) = 0
    BY HoursFinite, DayLenAssumption DEF DayOf, Minutes
  <2> QED BY <2>1, DayTyped
<1>3. 1 \in Streams
  BY LoadsAssumption DEF Streams
<1> QED
  BY <1>1, <1>2, <1>3, HoursFinite DEF Objects, NothingGot

-----------------------------------------------------------------------------
LEMMA RepairInit == Init => RepairInv
<1> SUFFICES ASSUME Init PROVE RepairInv
  OBVIOUS
<1>3. TypeOK
  <2>1. VisionTypeOK
    BY DEF Init, VisionInit, VisionTypeOK
  <2>2. files \in [Hours -> Partitions]
    BY DEF Init, NoPartition, Partitions, Shapes
  <2>3. args \in Arguments /\ hour \in Hours /\ at \in Objects
    BY FreshTyped DEF Init, Fresh
  <2>4. got \in [Streams -> SUBSET Minutes]
    BY FreshTyped DEF Init, Fresh
  <2>5. /\ pc \in Labels /\ todo \subseteq Hours /\ hurt \subseteq Hours
        /\ cold \in BOOLEAN
    BY DEF Init, Fresh, Labels
  <2>6. found \in Nat /\ repaired \in Nat /\ remaining \in Nat
        /\ crashes \in 0..MaxCrashes /\ damages \in 0..MaxDamages
    BY BoundsAssumption DEF Init, Fresh
  <2> QED
    BY <2>1, <2>2, <2>3, <2>4, <2>5, <2>6 DEF TypeOK
<1>4. Counted
  BY DEF Init, Fresh, Counted, RemainingNeverUnder
<1> QED
  BY <1>3, <1>4 DEF RepairInv

-----------------------------------------------------------------------------
(* The type invariant, action by action.                                   *)
LEMMA TypeStep == RepairInv /\ [Next]_vars => TypeOK'
<1> SUFFICES ASSUME RepairInv, [Next]_vars PROVE TypeOK'
  OBVIOUS
<1> USE FreshTyped
<1>0. TypeOK /\ VisionTypeOK
  BY DEF RepairInv, TypeOK
<1>1. CASE UNCHANGED vars
  BY <1>0, <1>1 DEF TypeOK, VisionTypeOK, vars, jobVars, visionVars
<1>2. ASSUME NEW a \in Arguments, Start(a) PROVE TypeOK'
  <2> DEFINE issues == IF a.force THEN IterHours(a.range[1], a.range[2])
                       ELSE Issues(a.range)
  <2>1. a.range \in Ranges
    BY DEF Arguments
  <2>2. issues \subseteq Hours
    BY <2>1, RangeTyped, IssuesTyped
  <2>3. Cardinality(issues) \in Nat
    <3> HIDE DEF issues
    <3> QED BY <2>2, HoursFinite, FS_Subset, FS_CardinalityType
  <2>4. FirstOf(a.slice, issues) \subseteq issues
    BY DEF FirstOf
  <2>5. found' = Cardinality(issues)
        /\ todo' = IF a.slice > 0 THEN FirstOf(a.slice, issues) ELSE issues
    BY <1>2 DEF Start
  <2>6. found' \in Nat /\ todo' \subseteq Hours
    <3> HIDE DEF issues
    <3> QED BY <2>2, <2>3, <2>4, <2>5
  <2> HIDE DEF issues
  <2> QED
    BY <1>0, <1>2, <2>6 DEF Start, TypeOK, VisionTypeOK, visionVars, Labels
<1>3. CASE NextIssue
  BY <1>0, <1>3 DEF NextIssue, NextHour, TypeOK, VisionTypeOK, visionVars, Labels
<1>4. CASE RequestFails
  BY <1>0, <1>4 DEF RequestFails, Leave, ForgetTurn, TypeOK, VisionTypeOK,
     visionVars, Labels
<1>5. CASE Probe
  <2>1. at' \in Objects
    BY <1>0, <1>5, WindowTyped, LoadsAssumption DEF Probe, Objects, Streams
  <2> QED
    BY <1>0, <1>5, <2>1 DEF Probe, TypeOK, VisionTypeOK, visionVars, Labels
(* The loader's step to the next object, with rows of the window.          *)
<1>6. ASSUME NEW rows \in SUBSET Minutes, Collect(rows), VisionTypeOK'
      PROVE  TypeOK'
  <2>1. got' \in [Streams -> SUBSET Minutes]
    BY <1>0, <1>6 DEF Collect, TypeOK, Objects
  <2>2. at' \in Objects /\ pc' \in Labels
    <3>1. at[1] \in Nat /\ at[2] \in Nat /\ at = <<at[1], at[2]>>
          /\ at[1] \in Streams /\ at[2] \in Days
      BY <1>0 DEF TypeOK, Objects, Streams, Days
    <3>2. FirstDay(From) \in Days /\ LastDay(To) \in Days
      BY <1>0, WindowTyped
    <3>3. at[2] < LastDay(To) => at[2] + 1 \in Days
      <4>1. DayOf(LastMinute) \in Nat
        BY HoursFinite, DayLenAssumption DEF DayOf
      <4> QED
        BY <3>1, <3>2, <4>1 DEF Days
    <3>4. at[1] < Loads => at[1] + 1 \in Streams
      BY <3>1, LoadsAssumption DEF Streams
    <3> QED
      BY <1>0, <1>6, <3>1, <3>2, <3>3, <3>4 DEF Collect, Onward, Objects, Labels, TypeOK
  <2> QED
    BY <1>0, <1>6, <2>1, <2>2 DEF Collect, TypeOK
<1>7. Rows(at, From, To) \subseteq Minutes
  BY DEF Rows
<1>8. CASE LoadCached
  BY <1>0, <1>6, <1>7, <1>8 DEF LoadCached, VisionTypeOK, visionVars
<1>9. CASE LoadPart
  BY <1>0, <1>9 DEF LoadPart, Leave, ForgetTurn, TypeOK, VisionTypeOK, visionVars, Labels
<1>10. CASE LoadMissing
  BY <1>0, <1>6, <1>10 DEF LoadMissing, TakenForMissing, VisionTypeOK, visionVars
<1>11. CASE Download
  BY <1>0, <1>11 DEF Download, BeginDownload, jobVars, TypeOK, VisionTypeOK, Labels
<1>12. CASE Downloaded
  <2>1. VisionTypeOK'
    BY <1>0, <1>12 DEF Downloaded, CompleteDownload, VisionTypeOK
  <2> QED
    BY <1>6, <1>7, <1>12, <2>1 DEF Downloaded
<1>13. CASE Fetch
  <2>1. got' \in [Streams -> SUBSET Minutes]
    BY <1>0, <1>13 DEF Fetch, TypeOK
  <2> QED
    BY <1>0, <1>13, <2>1 DEF Fetch, TypeOK, VisionTypeOK, visionVars, Labels
<1>14. CASE Write
  <2> DEFINE whole == { m \in Expected : \A s \in Hard : m \in got[s] }
  <2>1. whole \subseteq Minutes
    <3>1. args.range \in Ranges
      BY <1>0, WindowTyped
    <3>2. args.range[1]..args.range[2] \subseteq Minutes
      BY <3>1, RangeTyped, HoursFinite DEF Minutes
    <3> QED
      BY <3>2 DEF Expected, Window
  <2>2. CASE Mergeable(files[hour]) /\ Gate(whole)
    <3>1. files' = [files EXCEPT ![hour].rows = (@ \ Expected) \union whole]
          /\ pc' = "ledger" /\ UNCHANGED <<jobVars, visionVars, crashes, damages>>
      BY <1>14, <2>2 DEF Write
    <3>2. files' \in [Hours -> Partitions]
      <4> HIDE DEF whole
      <4>1. files \in [Hours -> Partitions] /\ hour \in Hours
        BY <1>0 DEF TypeOK
      <4>2. files[hour].rows \subseteq Minutes
        BY <4>1 DEF Partitions
      <4> QED
        BY <2>1, <3>1, <4>1, <4>2 DEF Partitions
    <3> QED
      BY <1>0, <3>1, <3>2 DEF TypeOK, VisionTypeOK, jobVars, visionVars, Labels
  <2>3. CASE ~(Mergeable(files[hour]) /\ Gate(whole))
    <3>1. Leave /\ UNCHANGED <<files, hurt, visionVars, crashes, damages>>
      BY <1>14, <2>3 DEF Write
    <3> QED
      BY <1>0, <3>1 DEF Leave, ForgetTurn, TypeOK, VisionTypeOK, visionVars, Labels
  <2> QED
    BY <2>2, <2>3
<1>15. CASE Record
  <2>1. pc' \in Labels /\ repaired' \in Nat /\ hour' = 0 /\ cold' = FALSE
        /\ at' = <<1, 0>> /\ got' = NothingGot
    BY <1>0, <1>15 DEF Record, Leave, ForgetTurn, TypeOK, Labels
  <2>2. UNCHANGED <<visionVars, files, args, found, todo, remaining, hurt, crashes, damages>>
    BY <1>15 DEF Record, Leave, visionVars
  <2> QED
    BY <1>0, <2>1, <2>2 DEF TypeOK, VisionTypeOK, visionVars
<1>16. CASE Report
  <2>1. remaining' \in Nat
    <3>1. Cardinality(Issues(args.range)) \in Nat
      BY <1>0, DueFinite
    <3>2. found - repaired \in Nat
      <4>1. pc = "next" /\ Cardinality(Due) + repaired + 0 <= found
        BY <1>16 DEF Report, RepairInv, Counted
      <4>2. Cardinality(Due) \in Nat /\ repaired \in Nat /\ found \in Nat
        BY <1>0, DueFinite DEF TypeOK
      <4> QED
        BY <4>1, <4>2
    <3> QED
      BY <1>16, <3>1, <3>2 DEF Report, Remaining
  <2> QED
    BY <1>0, <1>16, <2>1 DEF Report, TypeOK, VisionTypeOK, visionVars, Labels
<1>17. CASE Return
  BY <1>0, <1>17 DEF Return, Forget, ForgetTurn, TypeOK, VisionTypeOK, visionVars, Labels
<1>18. ASSUME NEW f \in Objects, Publish(f),
              UNCHANGED <<files, pc, jobVars, crashes, damages>>
       PROVE  TypeOK'
  BY <1>0, <1>18 DEF Publish, jobVars, TypeOK, VisionTypeOK
<1>19. ASSUME NEW h \in Hours, NEW shape \in Shapes,
              NEW rows \in SUBSET files[h].rows, Damage(h, shape, rows)
       PROVE  TypeOK'
  <2>1. files' \in [Hours -> Partitions]
    BY <1>0, <1>19 DEF Damage, TypeOK, Partitions
  <2>2. damages' \in 0..MaxDamages
    BY <1>0, <1>19, BoundsAssumption DEF Damage, TypeOK
  <2> QED
    BY <1>0, <1>19, <2>1, <2>2 DEF Damage, jobVars, TypeOK, VisionTypeOK, visionVars
<1>20. CASE Crash
  <2>1. crashes' \in 0..MaxCrashes
    BY <1>0, <1>20, BoundsAssumption DEF Crash, TypeOK
  <2> QED
    BY <1>0, <1>20, <2>1 DEF Crash, Forget, ForgetTurn, TypeOK, VisionTypeOK, visionVars, Labels
<1> QED
  BY <1>1, <1>2, <1>3, <1>4, <1>5, <1>8, <1>9, <1>10, <1>11, <1>12, <1>13,
     <1>14, <1>15, <1>16, <1>17, <1>18, <1>19, <1>20 DEF Next, Work, Outside

(* A step that leaves the files alone, forgets no argument and adds no hour  *)
(* to those due.                                                             *)
LEMMA FewerDue ==
  ASSUME RepairInv, Due' \subseteq Due
  PROVE  /\ Cardinality(Due') <= Cardinality(Due)
         /\ Cardinality(Due') \in Nat /\ Cardinality(Due) \in Nat
<1>1. Due \subseteq Hours /\ IsFiniteSet(Due)
  BY DueFinite DEF RepairInv
<1> DEFINE D == Due
           E == Due'
<1>2. IsFiniteSet(D) /\ E \subseteq D
  BY <1>1
<1>3. Cardinality(E) <= Cardinality(D) /\ Cardinality(E) \in Nat /\ Cardinality(D) \in Nat
  <2> HIDE DEF D, E
  <2> QED BY <1>2, FS_Subset, FS_CardinalityType
<1> QED
  BY <1>3

(* The gate lets a partition pass that the audit calls valid.              *)
LEMMA WrittenIsValid ==
  ASSUME TypeOK, NEW whole, Mergeable(files[hour]), Gate(whole), args' = args,
         files' = [files EXCEPT ![hour].rows = (@ \ Expected) \union whole]
  PROVE  Issues(args.range)' \subseteq Issues(args.range) \ {hour}
<1>1. files \in [Hours -> Partitions] /\ hour \in Hours
  BY DEF TypeOK
<1>2. files'[hour] = [shape |-> files[hour].shape,
                      rows  |-> (files[hour].rows \ Expected) \union whole]
  BY <1>1 DEF Partitions
<1>3. AuditValid(files'[hour], Window(args.range[1], args.range[2], hour))
  BY <1>2 DEF AuditValid, Mergeable, Gate, Expected
<1>4. \A h \in Hours \ {hour} : files'[h] = files[h]
  BY <1>1
<1>5. IterHours(args.range[1], args.range[2]) \subseteq Hours
  BY RangeTyped DEF TypeOK, Arguments
<1> QED
  BY <1>3, <1>4, <1>5 DEF Issues

LEMMA CountStep == RepairInv /\ [Next]_vars => Counted'
<1> SUFFICES ASSUME RepairInv, [Next]_vars PROVE Counted'
  OBVIOUS
<1>0. /\ TypeOK /\ Counted
      /\ repaired \in Nat /\ found \in Nat /\ remaining \in Nat
  BY DEF RepairInv, TypeOK
(* While the loop goes on, it is enough that no hour gets due.              *)
<1> DEFINE Working(label) ==
      label \in {"next", "band", "load", "download", "fetch", "write"}
<1>1. ASSUME Working(pc), Working(pc'), Due' \subseteq Due,
             UNCHANGED <<repaired, found>>, pc' # "next" => hour' \notin todo'
      PROVE  Counted'
  <2>1. Cardinality(Due) + repaired + 0 <= found
    BY <1>0, <1>1 DEF Counted
  <2>2. Cardinality(Due') + repaired' + 0 <= found'
    BY <1>0, <1>1, <2>1, FewerDue
  <2> QED
    BY <1>1, <2>2 DEF Counted, RemainingNeverUnder
<1>2. ASSUME Working(pc), Leave, UNCHANGED files PROVE Counted'
  <2>1. Due' \subseteq Due
    BY <1>2 DEF Leave, Due, InHand, Issues
  <2> QED
    BY <1>1, <1>2, <2>1 DEF Leave
<1>3. ASSUME pc \in {"band", "load", "download", "fetch"},
             pc' \in {"load", "download", "fetch", "write"},
             UNCHANGED <<files, args, found, todo, hour, repaired>>
      PROVE  Counted'
  <2>1. Due' \subseteq Due
    BY <1>3 DEF Due, InHand, Issues
  <2>2. hour' \notin todo'
    BY <1>0, <1>3 DEF Counted
  <2> QED
    BY <1>1, <1>3, <2>1, <2>2
<1>4. ASSUME NEW rows, Collect(rows), pc \in {"load", "download"} PROVE Counted'
  BY <1>3, <1>4 DEF Collect, Onward
<1>5. CASE UNCHANGED vars
  BY <1>0, <1>5 DEF Counted, Due, InHand, Issues, RemainingNeverUnder, vars, jobVars
<1>6. ASSUME NEW a \in Arguments, Start(a) PROVE Counted'
  <2> DEFINE issues == IF a.force THEN IterHours(a.range[1], a.range[2])
                       ELSE Issues(a.range)
  <2>1. /\ a.range \in Ranges /\ pc' = "next" /\ args' = a /\ files' = files
        /\ repaired' = repaired /\ repaired = 0
    BY <1>0, <1>6 DEF Arguments, Start, Counted
  <2>2. /\ found' = Cardinality(issues)
        /\ todo' = IF a.slice > 0 THEN FirstOf(a.slice, issues) ELSE issues
    BY <1>6 DEF Start
  <2>3. Issues(a.range) \subseteq issues /\ issues \subseteq Hours
    BY <2>1, RangeTyped, IssuesTyped
  <2>4. todo' \subseteq issues
    BY <2>2 DEF FirstOf
  <2>5. Due' = Issues(a.range) \union todo'
    BY <2>1 DEF Due, InHand, Issues
  <2> HIDE DEF issues
  <2>6. Due' \subseteq issues
    BY <2>3, <2>4, <2>5
  <2>7. IsFiniteSet(issues) /\ Cardinality(issues) \in Nat
    BY <2>3, HoursFinite, FS_Subset, FS_CardinalityType
  <2> DEFINE D == Due'
  <2>8. Cardinality(D) <= Cardinality(issues) /\ Cardinality(D) \in Nat
    <3>1. D \subseteq issues
      BY <2>6
    <3> HIDE DEF D
    <3> QED BY <2>7, <3>1, FS_Subset, FS_CardinalityType
  <2>9. Cardinality(Due') + repaired' + 0 <= found'
    BY <2>1, <2>2, <2>7, <2>8
  <2> QED
    BY <2>1, <2>9 DEF Counted, RemainingNeverUnder
<1>7. CASE NextIssue
  <2>1. PICK h \in todo : /\ hour' = h /\ todo' = todo \ {h} /\ pc = "next"
                         /\ pc' \in {"band", "fetch"}
                         /\ UNCHANGED <<files, args, found, repaired>>
    BY <1>7 DEF NextIssue
  <2>2. Due' \subseteq Due
    BY <2>1 DEF Due, InHand, Issues
  <2> QED
    BY <1>1, <2>1, <2>2
<1>8. CASE RequestFails
  BY <1>2, <1>8 DEF RequestFails
<1>9. CASE Probe
  BY <1>3, <1>9 DEF Probe
<1>10. CASE LoadCached
  BY <1>4, <1>10 DEF LoadCached
<1>11. CASE LoadPart
  BY <1>2, <1>11 DEF LoadPart
<1>12. CASE LoadMissing
  BY <1>4, <1>12 DEF LoadMissing
<1>13. CASE Download
  BY <1>3, <1>13 DEF Download, jobVars
<1>14. CASE Downloaded
  BY <1>4, <1>14 DEF Downloaded
<1>15. CASE Fetch
  BY <1>3, <1>15 DEF Fetch
(* The hour that is written is not due any more, and is counted next.       *)
<1>16. CASE Write
  <2> DEFINE whole == { m \in Expected : \A s \in Hard : m \in got[s] }
  <2>1. CASE Mergeable(files[hour]) /\ Gate(whole)
    <3>1. /\ files' = [files EXCEPT ![hour].rows = (@ \ Expected) \union whole]
          /\ pc = "write" /\ pc' = "ledger" /\ UNCHANGED jobVars
      BY <1>16, <2>1 DEF Write
    <3>2. args' = args /\ todo' = todo /\ hour' = hour /\ found' = found
          /\ repaired' = repaired
      BY <3>1 DEF jobVars
    <3>3. Issues(args.range)' \subseteq Issues(args.range) \ {hour}
      <4> HIDE DEF whole
      <4> QED BY <1>0, <2>1, <3>1, <3>2, WrittenIsValid
    <3>4. hour \notin todo
      BY <1>0, <3>1 DEF Counted
    <3>5. Due' \subseteq Due \ {hour} /\ hour \in Due
      BY <3>1, <3>2, <3>3, <3>4 DEF Due, InHand
    <3>6. Due \subseteq Hours /\ IsFiniteSet(Due) /\ Cardinality(Due) \in Nat
      BY <1>0, DueFinite
    <3> DEFINE D == Due
               E == Due'
    <3>7. Cardinality(E) <= Cardinality(D) - 1 /\ Cardinality(E) \in Nat
      <4>1. E \subseteq D \ {hour} /\ hour \in D /\ IsFiniteSet(D)
        BY <3>5, <3>6
      <4> HIDE DEF D, E
      <4>2. IsFiniteSet(D \ {hour}) /\ Cardinality(D \ {hour}) = Cardinality(D) - 1
        BY <4>1, FS_RemoveElement
      <4> QED
        BY <4>1, <4>2, FS_Subset, FS_CardinalityType
    <3>8. Cardinality(Due) + repaired + 0 <= found
      BY <1>0, <3>1 DEF Counted
    <3>9. Cardinality(Due') + repaired' + 1 <= found'
      BY <1>0, <3>2, <3>6, <3>7, <3>8
    <3> QED
      BY <3>1, <3>2, <3>4, <3>9 DEF Counted, RemainingNeverUnder
  <2>2. CASE ~(Mergeable(files[hour]) /\ Gate(whole))
    BY <1>2, <1>16, <2>2 DEF Write
  <2> QED
    BY <2>1, <2>2
<1>17. CASE Record
  <2>1. pc = "ledger" /\ pc' = "next" /\ UNCHANGED <<args, todo, files, found>>
        /\ repaired' \in {repaired, repaired + 1}
    BY <1>17 DEF Record, Leave
  <2>2. Due' \subseteq Due
    BY <2>1 DEF Due, InHand, Issues
  <2>3. Cardinality(Due) + repaired + 1 <= found
    BY <1>0, <2>1 DEF Counted
  <2>4. Cardinality(Due') + repaired' + 0 <= found'
    BY <1>0, <2>1, <2>2, <2>3, FewerDue
  <2> QED
    BY <2>1, <2>4 DEF Counted, RemainingNeverUnder
<1>18. CASE Report
  <2>1. /\ pc = "next" /\ pc' = "reported" /\ remaining' = Remaining
        /\ UNCHANGED <<files, args>>
    BY <1>18 DEF Report
  <2>2. Cardinality(Due) + repaired + 0 <= found
    BY <1>0, <2>1 DEF Counted
  <2>3. remaining' >= Cardinality(Issues(args.range))
    BY <1>0, <2>1, <2>2, DueFinite DEF Remaining
  <2>4. Issues(args.range)' = Issues(args.range)
    BY <2>1 DEF Issues
  <2> QED
    BY <2>1, <2>3, <2>4 DEF Counted, RemainingNeverUnder
<1>19. CASE Return
  BY <1>19 DEF Return, Forget, Counted, RemainingNeverUnder
<1>20. CASE Crash
  BY <1>20 DEF Crash, Forget, Counted, RemainingNeverUnder
<1>21. ASSUME NEW h \in Hours, NEW shape \in Shapes,
              NEW rows \in SUBSET files[h].rows, Damage(h, shape, rows)
       PROVE  Counted'
  BY <1>0, <1>21 DEF Damage, jobVars, Counted, RemainingNeverUnder
<1>22. ASSUME NEW f \in Objects, Publish(f),
              UNCHANGED <<files, pc, jobVars, crashes, damages>>
       PROVE  Counted'
  BY <1>0, <1>22 DEF Counted, Due, InHand, Issues, RemainingNeverUnder, jobVars
<1> HIDE DEF Working
<1> QED
  BY <1>5, <1>6, <1>7, <1>8, <1>9, <1>10, <1>11, <1>12, <1>13, <1>14, <1>15,
     <1>16, <1>17, <1>18, <1>19, <1>20, <1>21, <1>22 DEF Next, Work, Outside

LEMMA RepairHolds == Spec => []RepairInv
<1>1. RepairInv /\ [Next]_vars => RepairInv'
  BY TypeStep, CountStep DEF RepairInv
<1> QED
  BY <1>1, RepairInit, PTL DEF Spec

-----------------------------------------------------------------------------
(* Every variable of the backfill keeps its type; issues_remaining, which  *)
(* is a difference, never gets negative.                                   *)
THEOREM RepairTypeCorrect == Spec => []TypeOK
  BY RepairHolds, PTL DEF RepairInv

(* RemainingNeverUnder: the count that is reported is an upper bound of    *)
(* the invalid hours, sliced, forced or not.                               *)
THEOREM RemainingIsUpperBound == Spec => []RemainingNeverUnder
<1>1. RepairInv => RemainingNeverUnder
  BY DEF RepairInv, Counted
<1> QED
  BY <1>1, RepairHolds, PTL

(* NothingMadeWorse: a repair replaces rows only where it has all columns  *)
(* of all the minutes it was asked for.                                    *)
THEOREM RepairsTakeNothing == Spec => NothingMadeWorse
<1> DEFINE Kept == damages' = damages =>
             \A h \in Hours : /\ files[h].rows \subseteq files'[h].rows
                              /\ files[h].shape = files'[h].shape
<1>1. RepairInv /\ [Next]_vars => [Kept]_vars
  <2> SUFFICES ASSUME RepairInv, [Next]_vars PROVE Kept
    OBVIOUS
  <2>1. files \in [Hours -> Partitions] /\ hour \in Hours /\ damages \in Nat
    BY BoundsAssumption DEF RepairInv, TypeOK
  <2>2. CASE files' = files
    BY <2>2
  <2>3. CASE Write
    <3> DEFINE whole == { m \in Expected : \A s \in Hard : m \in got[s] }
    <3>1. \/ files' = files
          \/ /\ files' = [files EXCEPT ![hour].rows = (@ \ Expected) \union whole]
             /\ Expected \subseteq whole
      BY <2>3 DEF Write, Gate
    <3> HIDE DEF whole
    <3>2. CASE /\ files' = [files EXCEPT ![hour].rows = (@ \ Expected) \union whole]
               /\ Expected \subseteq whole
      <4>1. /\ files'[hour].rows = (files[hour].rows \ Expected) \union whole
            /\ files'[hour].shape = files[hour].shape
        BY <2>1, <3>2 DEF Partitions
      <4>2. \A h \in Hours \ {hour} : files'[h] = files[h]
        BY <2>1, <3>2
      <4> QED
        BY <3>2, <4>1, <4>2
    <3> QED
      BY <2>2, <3>1, <3>2
  <2>4. ASSUME NEW h \in Hours, NEW shape \in Shapes,
               NEW rows \in SUBSET files[h].rows, Damage(h, shape, rows)
        PROVE  Kept
    BY <2>1, <2>4 DEF Damage
  <2>5. files' = files \/ Write
        \/ \E h \in Hours, shape \in Shapes :
              \E rows \in SUBSET files[h].rows : Damage(h, shape, rows)
    BY DEF Next, Work, Outside, vars, jobVars, Start, NextIssue, RequestFails, Probe,
       LoadCached, LoadPart, LoadMissing, Download, Downloaded, Collect, Fetch,
       Record, Report, Return, Crash
  <2> HIDE DEF Kept
  <2> QED
    BY <2>2, <2>3, <2>4, <2>5
<1> QED
  BY <1>1, RepairHolds, PTL DEF Spec, NothingMadeWorse

-----------------------------------------------------------------------------
(* The hours of a range, and the minutes a backfill handles in one.        *)
LEMMA HourOfRange ==
  ASSUME NEW r \in Ranges, NEW h \in IterHours(r[1], r[2])
  PROVE  LET end == WindowEnd(r[2], h)
         IN /\ h \in Hours /\ h \in Nat /\ end \in Nat /\ end + 1 \in Minutes
            /\ h <= end /\ end + 1 <= h + HourLen /\ r[1] <= end
            /\ DayOf(end) = DayOf(h)
            /\ \A m \in Window(r[1], r[2], h) :
                 /\ m \in Minutes /\ r[1] <= m /\ h <= m /\ m <= end
                 /\ DayOf(m) = DayOf(h)
<1> DEFINE end == WindowEnd(r[2], h)
<1>1. /\ r[1] \in Nat /\ r[2] \in Nat /\ r[1] <= r[2] /\ r[2] < LastMinute
      /\ h \in Hours /\ h \in Nat /\ LastMinute \in Nat /\ HourLen \in Nat \ {0}
  BY RangeTyped, HoursFinite, HourLenAssumption
<1>2. PICK n \in r[1]..r[2] : h = HourStart(n)
  BY DEF IterHours
<1>3. n \in Nat /\ h <= n /\ n < h + HourLen
  BY <1>1, <1>2, HourStartBounds
<1>4. /\ end \in Nat /\ end + 1 \in Minutes /\ h <= end /\ r[1] <= end
      /\ end + 1 <= h + HourLen
  BY <1>1, <1>2, <1>3 DEF WindowEnd, Minutes
<1>5. DayOf(end) = DayOf(h)
  <2>1. HourStart(end) = h
    BY <1>1, <1>2, <1>3, <1>4, HourIsBlock
  <2> QED BY <1>4, <2>1, HourWithinDay
<1>6. ASSUME NEW m \in Window(r[1], r[2], h)
      PROVE  /\ m \in Minutes /\ r[1] <= m /\ h <= m /\ m <= end
             /\ DayOf(m) = DayOf(h)
  <2>1. m \in r[1]..r[2] /\ HourStart(m) = h /\ m \in Nat
    BY <1>1, <1>6 DEF Window
  <2>2. h <= m /\ m < h + HourLen
    BY <2>1, HourStartBounds
  <2>3. DayOf(m) = DayOf(h)
    BY <2>1, HourWithinDay
  <2> QED
    BY <1>1, <2>1, <2>2, <2>3 DEF WindowEnd, Minutes
<1> HIDE DEF end
<1> QED
  BY <1>1, <1>4, <1>5, <1>6 DEF end

(* When the minute after an hour is of another day, the hours after it are *)
(* of later days.                                                          *)
LEMMA LaterHourLaterDay ==
  ASSUME NEW r \in Ranges, NEW h \in IterHours(r[1], r[2]), NEW g \in Hours,
         h < g, DayOf(WindowEnd(r[2], h) + 1) # DayOf(h)
  PROVE  DayOf(h) < DayOf(g)
<1> DEFINE end == WindowEnd(r[2], h)
<1>1. h \in Nat /\ end \in Nat /\ h <= end /\ end + 1 <= h + HourLen
  BY HourOfRange
<1>2. PICK n \in r[1]..r[2] : h = HourStart(n)
  BY DEF IterHours
<1>3. PICK m \in Minutes : g = HourStart(m)
  BY DEF Hours
<1>4. n \in Int /\ m \in Int /\ g \in Nat
  BY <1>2, <1>3, RangeTyped, HoursFinite
<1>5. h + HourLen <= g
  BY <1>2, <1>3, <1>4, HoursApart
<1>6. end + 1 <= g
  BY <1>1, <1>4, <1>5, HourLenAssumption
<1>7. DayOf(h) <= DayOf(end + 1) /\ DayOf(end + 1) <= DayOf(g)
  BY <1>1, <1>4, <1>6, DayMonotone
<1>8. DayOf(h) \in Nat /\ DayOf(end + 1) \in Nat /\ DayOf(g) \in Nat
  BY <1>1, <1>4, DayIsBlock
<1> QED
  BY <1>7, <1>8

-----------------------------------------------------------------------------
(* Why an hour that was handled is still invalid.  The loader takes the    *)
(* objects of the window one by one; what it has passed is collected, a    *)
(* hole, or was taken for missing and is not cached to this point.  The    *)
(* hours come in ascending order, so that no later hour fetches a day that *)
(* was missing for an earlier one.                                         *)

InTurn == pc \in {"band", "load", "download", "fetch", "write"}

CachedIsPublished == \A f \in Objects : cache[f] # "none" => f \in published

HoursOfRange ==
  /\ todo \subseteq IterHours(args.range[1], args.range[2])
  /\ InTurn => hour \in IterHours(args.range[1], args.range[2])
  /\ pc = "reported" => todo = {}

(* The invalid hours the backfill is through with.                         *)
Left == Issues(args.range) \ (todo \union InHand)

Ascending ==
  pc # "idle" /\ args.slice = 0 =>
    /\ InTurn => \A h \in todo : hour < h
    /\ \A g \in Left : \A h \in todo \union InHand : g < h

(* The loader is past a day of a stream.                                   *)
Passed(s, d) ==
  \/ pc \in {"load", "download"} /\ (s < at[1] \/ (s = at[1] /\ d < at[2]))
  \/ pc = "fetch" /\ cold

Collected ==
  /\ pc \in {"idle", "next", "band"} => got = NothingGot
  /\ pc = "fetch" /\ ~cold => got = NothingGot
  /\ pc \in {"band", "load", "download"} => cold
  /\ pc \in {"load", "download"} =>
       FirstDay(From) <= at[2] /\ at[2] <= LastDay(To)
  /\ pc \in {"load", "download", "fetch"} =>
       \A s \in Streams : \A m \in Minutes :
         /\ m \in got[s] => /\ From <= m /\ m <= To + 1
                            /\ cache[<<s, DayOf(m)>>] # "none"
         /\ /\ From <= m /\ m <= To + 1 /\ Passed(s, DayOf(m))
            /\ cache[<<s, DayOf(m)>>] # "none"
            => m \in got[s] \/ <<s, m>> \in Holes

(* The row of a minute of the hour is not there for a reason that stays.   *)
Lacking(s, m, h) ==
  \/ <<s, m>> \in Holes /\ <<s, DayOf(m)>> \in published
  \/ NextDayHides(h, WindowEnd(args.range[2], h), s)

GotOrLacking ==
  pc = "write" /\ ~args.visionOnly =>
    \A s \in Hard : \A m \in Expected : m \in got[s] \/ Lacking(s, m, hour)

(* A part of a file that no download is about to complete.                 *)
PartLeft(f) == cache[f] = "part" /\ ~(pc = "download" /\ f = at)

(* Blocked, by what no later step of the backfill changes.                 *)
Barred(h) ==
  \/ ~Mergeable(files[h])
  \/ \E f \in Objects :
       /\ PartLeft(f) /\ DayOf(h) <= f[2]
       /\ f[2] <= DayOf(WindowEnd(args.range[2], h) + 1)
  \/ \E s \in Hard : \E m \in Window(args.range[1], args.range[2], h) :
       Lacking(s, m, h)

Explained ==
  pc # "idle" /\ args.slice = 0 /\ ~args.visionOnly =>
    \A h \in Left : h \in hurt \/ Barred(h)

ExplainedInv ==
  /\ CachedIsPublished /\ HoursOfRange /\ Ascending
  /\ Collected /\ GotOrLacking /\ Explained

LEMMA ExplainedInit == Init => ExplainedInv
<1> SUFFICES ASSUME Init PROVE ExplainedInv
  OBVIOUS
<1>1. CachedIsPublished
  BY DEF Init, VisionInit, CachedIsPublished
<1>2. pc = "idle" /\ todo = {} /\ got = NothingGot
  BY DEF Init, Fresh
<1> QED
  BY <1>1, <1>2 DEF ExplainedInv, HoursOfRange, InTurn, Ascending, Collected,
     GotOrLacking, Explained

(* The name of an object in the cache is never free again, and a part of a *)
(* file is completed only by the download that began it.                   *)
LEMMA CacheStep ==
  ASSUME TypeOK, [Next]_vars, NEW f \in Objects
  PROVE  /\ published \subseteq published'
         /\ cache'[f] = cache[f] \/ (pc \in {"load", "download"} /\ f = at)
         /\ cache[f] # "none" => cache'[f] # "none"
         /\ PartLeft(f) => PartLeft(f)'
<1>0. cache \in [Objects -> {"none", "part", "whole"}]
  BY DEF TypeOK, VisionTypeOK
<1>1. CASE UNCHANGED vars
  BY <1>1 DEF vars, visionVars, jobVars, PartLeft
<1>2. CASE Download
  BY <1>0, <1>2 DEF Download, BeginDownload, jobVars, PartLeft
<1>3. CASE Downloaded
  BY <1>0, <1>3 DEF Downloaded, CompleteDownload, Collect, Onward, PartLeft
<1>4. ASSUME NEW g \in Objects, Publish(g),
             UNCHANGED <<files, pc, jobVars, crashes, damages>>
      PROVE  /\ published \subseteq published' /\ cache' = cache
             /\ PartLeft(f) => PartLeft(f)'
  BY <1>4 DEF Publish, jobVars, PartLeft
<1>5. ASSUME UNCHANGED visionVars, pc' # "download"
      PROVE  /\ published \subseteq published' /\ cache' = cache
             /\ PartLeft(f) => PartLeft(f)'
  BY <1>5 DEF visionVars, PartLeft
<1>6. ASSUME Next, ~Download, ~Downloaded,
             ~\E g \in Objects : Publish(g)
                /\ UNCHANGED <<files, pc, jobVars, crashes, damages>>
      PROVE  UNCHANGED visionVars /\ pc' # "download"
  BY <1>6 DEF Next, Work, Outside, Start, NextIssue, RequestFails, Leave, Probe,
     LoadCached, LoadPart, LoadMissing, TakenForMissing, Collect, Onward, Fetch,
     Write, Record, Report, Return, Crash, Damage
<1> QED
  BY <1>1, <1>2, <1>3, <1>4, <1>5, <1>6

LEMMA CachedStep ==
  ASSUME TypeOK, CachedIsPublished, [Next]_vars
  PROVE  CachedIsPublished'
<1> SUFFICES ASSUME NEW f \in Objects, cache'[f] # "none" PROVE f \in published'
  BY DEF CachedIsPublished
<1>0. cache \in [Objects -> {"none", "part", "whole"}]
  BY DEF TypeOK, VisionTypeOK
<1>1. published \subseteq published'
  BY CacheStep
<1>2. CASE cache[f] # "none"
  BY <1>1, <1>2 DEF CachedIsPublished
<1>3. CASE cache[f] = "none"
  <2>1. f \in published
    <3>1. cache' # cache
      BY <1>3
    <3>2. Download \/ Downloaded
      BY <3>1 DEF Next, Work, Outside, Start, NextIssue, RequestFails, Probe,
         LoadCached, LoadPart, LoadMissing, TakenForMissing, Fetch,
         Write, Record, Report, Return, Crash, Damage, Publish, visionVars, vars
    <3> QED
      BY <1>0, <1>3, <3>2 DEF Download, BeginDownload, Downloaded, CompleteDownload
  <2> QED BY <1>1, <2>1
<1> QED
  BY <1>2, <1>3

(* While a backfill runs, no partition gets invalid or changes its shape.  *)
LEMMA NoNewIssue ==
  ASSUME TypeOK, [Next]_vars, pc # "idle", args' = args
  PROVE  /\ Issues(args.range)' \subseteq Issues(args.range)
         /\ \A h \in Hours : Mergeable(files'[h]) <=> Mergeable(files[h])
         /\ pc = "write" /\ pc' = "ledger" => hour \notin Issues(args.range)'
<1>0. files \in [Hours -> Partitions] /\ hour \in Hours
  BY DEF TypeOK
<1>1. CASE files' = files /\ ~(pc = "write" /\ pc' = "ledger")
  BY <1>1 DEF Issues
<1>2. CASE Write
  <2> DEFINE whole == { m \in Expected : \A s \in Hard : m \in got[s] }
  <2>1. CASE Mergeable(files[hour]) /\ Gate(whole)
    <3>1. files' = [files EXCEPT ![hour].rows = (@ \ Expected) \union whole]
      BY <1>2, <2>1 DEF Write
    <3>2. Issues(args.range)' \subseteq Issues(args.range) \ {hour}
      <4> HIDE DEF whole
      <4> QED BY <2>1, <3>1, WrittenIsValid
    <3>3. \A h \in Hours : files'[h].shape = files[h].shape
      <4> HIDE DEF whole
      <4> QED BY <1>0, <3>1 DEF Partitions
    <3> QED
      BY <3>2, <3>3 DEF Mergeable
  <2>2. CASE ~(Mergeable(files[hour]) /\ Gate(whole))
    <3>1. files' = files /\ pc' = "next"
      BY <1>2, <2>2 DEF Write, Leave
    <3> QED BY <1>1, <3>1
  <2> QED BY <2>1, <2>2
<1>3. ASSUME ~Write PROVE files' = files /\ ~(pc = "write" /\ pc' = "ledger")
  BY <1>3 DEF Next, Work, Outside, Start, NextIssue, RequestFails, Leave, Probe,
     LoadCached, LoadPart, LoadMissing, Collect, Onward, Fetch, Download, Downloaded,
     Record, Report, Return, Crash, Damage, Publish, vars, jobVars
<1> QED
  BY <1>1, <1>2, <1>3

(* What a step does to the place of the backfill in its work: it goes on   *)
(* with the hour in hand, takes the next one, ends a turn, or does nothing *)
(* of the kind.                                                            *)
GoesOn ==
  /\ InTurn /\ InTurn' /\ UNCHANGED <<args, todo, hour, files, hurt>>

TurnEnds ==
  /\ InTurn /\ pc' \in {"next", "ledger"} /\ UNCHANGED <<args, todo>>
  /\ hurt \subseteq hurt'

Still ==
  /\ pc' = pc /\ UNCHANGED <<args, todo, hour, files, hurt>>

Closes ==
  /\ \/ pc = "ledger" /\ pc' = "next"
     \/ pc = "next" /\ pc' = "reported" /\ todo = {}
  /\ UNCHANGED <<args, todo, files, hurt>>

NotRunning ==
  pc' = "idle" /\ (Forget \/ (pc = "idle" /\ UNCHANGED jobVars))

LEMMA StepKinds ==
  ASSUME [Next]_vars
  PROVE  \/ \E a \in Arguments : Start(a)
         \/ NextIssue \/ GoesOn \/ TurnEnds \/ Still \/ Closes
         \/ NotRunning
<1>1. CASE UNCHANGED vars
  BY <1>1 DEF Still, vars, jobVars
<1>2. CASE Probe \/ LoadCached \/ LoadMissing \/ Download \/ Downloaded \/ Fetch
  BY <1>2 DEF GoesOn, InTurn, Probe, LoadCached, LoadMissing, Download, Downloaded,
     Collect, Onward, Fetch, jobVars
<1>3. CASE RequestFails \/ LoadPart
  BY <1>3 DEF TurnEnds, InTurn, RequestFails, LoadPart, Leave
<1>4. CASE Write
  BY <1>4 DEF TurnEnds, InTurn, Write, Leave, jobVars
<1>5. CASE Record \/ Report
  BY <1>5 DEF Closes, Record, Leave, Report
<1>6. CASE Return \/ Crash
  BY <1>6 DEF NotRunning, Return, Crash
<1>7. CASE Outside
  BY <1>6, <1>7 DEF Outside, Still, NotRunning, Damage, jobVars
<1> QED
  BY <1>1, <1>2, <1>3, <1>4, <1>5, <1>6, <1>7 DEF Next, Work

LEMMA HoursStep ==
  ASSUME TypeOK, HoursOfRange, [Next]_vars
  PROVE  HoursOfRange'
<1>1. ASSUME NEW a \in Arguments, Start(a) PROVE HoursOfRange'
  <2> DEFINE issues == IF a.force THEN IterHours(a.range[1], a.range[2])
                       ELSE Issues(a.range)
  <2>1. todo' \subseteq issues /\ args' = a /\ pc' = "next"
    BY <1>1 DEF Start, FirstOf
  <2>2. issues \subseteq IterHours(a.range[1], a.range[2])
    BY DEF Issues
  <2> QED
    BY <2>1, <2>2 DEF HoursOfRange, InTurn
<1>2. CASE NextIssue
  BY <1>2 DEF NextIssue, HoursOfRange, InTurn
<1>3. CASE GoesOn \/ TurnEnds \/ Still \/ Closes
  BY <1>3 DEF GoesOn, TurnEnds, Still, Closes, HoursOfRange, InTurn
<1>4. CASE NotRunning
  BY <1>4 DEF NotRunning, Forget, jobVars, HoursOfRange, InTurn
<1> QED
  BY <1>1, <1>2, <1>3, <1>4, StepKinds

LEMMA AscendingStep ==
  ASSUME TypeOK, HoursOfRange, Ascending, [Next]_vars
  PROVE  Ascending'
<1>0. /\ todo \subseteq Hours /\ hour \in Hours /\ Hours \subseteq Nat
      /\ args.range \in Ranges
  BY HoursFinite DEF TypeOK, Arguments
<1>1. ASSUME NEW a \in Arguments, Start(a) PROVE Ascending'
  <2>1. CASE a.slice = 0
    <3>1. args' = a /\ pc' = "next" /\ files' = files
          /\ todo' = IF a.force THEN IterHours(a.range[1], a.range[2])
                     ELSE Issues(a.range)
      BY <1>1, <2>1 DEF Start
    <3>2. Issues(args.range)' = Issues(a.range)
      BY <3>1 DEF Issues
    <3>3. Issues(a.range) \subseteq todo'
      BY <3>1 DEF Issues
    <3> QED
      BY <3>1, <3>2, <3>3 DEF Ascending, Left, InTurn
  <2>2. CASE a.slice # 0
    BY <1>1, <2>2 DEF Start, Ascending
  <2> QED BY <2>1, <2>2
<1>2. CASE NextIssue
  <2>1. PICK h \in todo : /\ NextHour(h, todo) /\ hour' = h /\ todo' = todo \ {h}
                         /\ pc = "next" /\ InTurn' /\ UNCHANGED <<args, files>>
    BY <1>2 DEF NextIssue, InTurn
  <2>2. Issues(args.range)' = Issues(args.range)
    BY <2>1 DEF Issues
  <2>3. InHand = {} /\ InHand' = {h}
    BY <2>1 DEF InHand, InTurn
  <2>4. Left' = Left
    BY <2>1, <2>2, <2>3 DEF Left
  <2>5. \A g \in todo \ {h} : h < g
    BY <1>0, <2>1 DEF NextHour
  <2> QED
    BY <2>1, <2>3, <2>4, <2>5 DEF Ascending
<1>3. CASE GoesOn \/ Still
  <2>1. Issues(args.range)' = Issues(args.range) /\ InHand' = InHand
        /\ InTurn' = InTurn
    BY <1>3 DEF GoesOn, Still, Issues, InHand, InTurn
  <2> QED
    BY <1>3, <2>1 DEF GoesOn, Still, Ascending, Left, InTurn
<1>4. CASE TurnEnds
  <2>1. /\ InTurn /\ ~InTurn' /\ UNCHANGED <<args, todo>> /\ pc # "idle"
        /\ InHand = {hour} /\ InHand' = {}
    BY <1>4 DEF TurnEnds, InTurn, InHand
  <2>2. Issues(args.range)' \subseteq Issues(args.range)
    BY <2>1, NoNewIssue
  <2>3. Left' \subseteq Left \union {hour}
    BY <2>1, <2>2 DEF Left
  <2> QED
    BY <2>1, <2>3 DEF Ascending
<1>5. CASE Closes
  <2>1. Issues(args.range)' = Issues(args.range) /\ InHand' = InHand
        /\ ~InTurn' /\ UNCHANGED <<args, todo>> /\ pc # "idle"
    BY <1>5 DEF Closes, Issues, InHand, InTurn
  <2> QED
    BY <2>1 DEF Ascending, Left
<1>6. CASE NotRunning
  BY <1>6 DEF NotRunning, Ascending
<1> QED
  BY <1>1, <1>2, <1>3, <1>4, <1>5, <1>6, StepKinds

(* The days of the window in hand.                                         *)
LEMMA DaysInHand ==
  ASSUME TypeOK, HoursOfRange, InTurn
  PROVE  /\ From \in Nat /\ To + 1 \in Nat /\ From <= To + 1
         /\ FirstDay(From) \in Nat /\ LastDay(To) \in Nat
         /\ FirstDay(From) <= LastDay(To) /\ DayOf(hour) <= FirstDay(From)
         /\ \A m \in Minutes : From <= m /\ m <= To + 1 =>
              /\ DayOf(m) \in Nat
              /\ FirstDay(From) <= DayOf(m) /\ DayOf(m) <= LastDay(To)
<1>1. args.range \in Ranges /\ hour \in IterHours(args.range[1], args.range[2])
  BY DEF TypeOK, Arguments, HoursOfRange
<1>2. /\ From \in Nat /\ To + 1 \in Nat /\ From <= To + 1 /\ hour <= From
      /\ hour \in Nat
  BY <1>1, HourOfRange, RangeTyped, HoursFinite DEF From, To
<1>3. /\ DayOf(From) \in Nat /\ DayOf(To + 1) \in Nat /\ DayOf(From) <= DayOf(To + 1)
      /\ DayOf(hour) <= DayOf(From)
  BY <1>2, DayIsBlock, DayMonotone
<1>4. ASSUME NEW m \in Minutes, From <= m, m <= To + 1
      PROVE  /\ DayOf(m) \in Nat
             /\ DayOf(From) <= DayOf(m) /\ DayOf(m) <= DayOf(To + 1)
  BY <1>2, <1>4, HoursFinite, DayIsBlock, DayMonotone
<1> QED
  BY <1>2, <1>3, <1>4 DEF FirstDay, LastDay

(* The loader is through with an object: it has its rows, or took it for   *)
(* missing.                                                                *)
LEMMA CollectStep ==
  ASSUME TypeOK, HoursOfRange, Collected, pc \in {"load", "download"},
         NEW rows \in SUBSET Minutes, Collect(rows),
         \A f \in Objects \ {at} : cache'[f] = cache[f],
         rows # {} => cache'[at] # "none",
         \A m \in rows : From <= m /\ m <= To + 1 /\ DayOf(m) = at[2],
         cache'[at] # "none" =>
           \A m \in Minutes : From <= m /\ m <= To + 1 /\ DayOf(m) = at[2] =>
             m \in rows \/ <<at[1], m>> \in Holes,
         cache[at] # "none" => cache'[at] # "none"
  PROVE  Collected'
<1>0. /\ at \in Objects /\ at[1] \in 1..Loads /\ at[2] \in Nat /\ at = <<at[1], at[2]>>
      /\ Loads \in Nat
      /\ got \in [Streams -> SUBSET Minutes] /\ Streams = 1..Loads
  BY LoadsAssumption DEF TypeOK, Objects, Streams, Days
<1>1. InTurn /\ cold
  BY DEF InTurn, Collected
<1>2. /\ FirstDay(From) \in Nat /\ LastDay(To) \in Nat
      /\ FirstDay(From) <= LastDay(To)
      /\ \A m \in Minutes : From <= m /\ m <= To + 1 =>
            /\ DayOf(m) \in Nat
            /\ FirstDay(From) <= DayOf(m) /\ DayOf(m) <= LastDay(To)
  BY <1>1, DaysInHand
<1>3. FirstDay(From) <= at[2] /\ at[2] <= LastDay(To)
  BY DEF Collected
<1>4. /\ got' = [got EXCEPT ![at[1]] = @ \union rows]
      /\ UNCHANGED <<args, hour, cold>> /\ From' = From /\ To' = To
  BY DEF Collect, From, To
<1>5. \/ /\ at[2] < LastDay(To) /\ at' = <<at[1], at[2] + 1>> /\ pc' = "load"
      \/ /\ ~(at[2] < LastDay(To)) /\ at[1] < Loads
         /\ at' = <<at[1] + 1, FirstDay(From)>> /\ pc' = "load"
      \/ /\ ~(at[2] < LastDay(To)) /\ ~(at[1] < Loads) /\ at' = at /\ pc' = "fetch"
  BY DEF Collect, Onward
<1>6. pc' = "load" => FirstDay(From) <= at'[2] /\ at'[2] <= LastDay(To)
  BY <1>0, <1>2, <1>3, <1>5
<1>7. ASSUME NEW s \in Streams, NEW d \in Nat, FirstDay(From) <= d, d <= LastDay(To),
             Passed(s, d)'
      PROVE  Passed(s, d) \/ (s = at[1] /\ d = at[2])
  BY <1>0, <1>2, <1>3, <1>5, <1>7 DEF Passed
<1>8. ASSUME NEW s \in Streams, NEW m \in Minutes, m \in got'[s]
      PROVE  From <= m /\ m <= To + 1 /\ cache'[<<s, DayOf(m)>>] # "none"
  <2>1. m \in got[s] \/ (s = at[1] /\ m \in rows)
    BY <1>0, <1>4, <1>8
  <2>2. CASE m \in got[s]
    <3>1. From <= m /\ m <= To + 1 /\ cache[<<s, DayOf(m)>>] # "none"
      BY <2>2 DEF Collected
    <3>2. <<s, DayOf(m)>> \in Objects
      BY DayTyped DEF Objects
    <3> QED BY <3>1, <3>2
  <2>3. CASE s = at[1] /\ m \in rows
    BY <1>0, <2>3
  <2> QED BY <2>1, <2>2, <2>3
<1>9. ASSUME NEW s \in Streams, NEW m \in Minutes, From <= m, m <= To + 1,
             Passed(s, DayOf(m))', cache'[<<s, DayOf(m)>>] # "none"
      PROVE  m \in got'[s] \/ <<s, m>> \in Holes
  <2>1. Passed(s, DayOf(m)) \/ (s = at[1] /\ DayOf(m) = at[2])
    BY <1>2, <1>7, <1>9
  <2>2. CASE s = at[1] /\ DayOf(m) = at[2]
    <3>1. m \in rows \/ <<s, m>> \in Holes
      BY <1>0, <1>9, <2>2
    <3> QED BY <1>0, <1>4, <2>2, <3>1
  <2>3. CASE Passed(s, DayOf(m)) /\ <<s, DayOf(m)>> # at
    <3>1. <<s, DayOf(m)>> \in Objects \ {at}
      BY <2>3, DayTyped DEF Objects
    <3>2. m \in got[s] \/ <<s, m>> \in Holes
      BY <1>9, <2>3, <3>1 DEF Collected
    <3> QED BY <1>0, <1>4, <3>2
  <2> QED BY <1>0, <2>1, <2>2, <2>3
<1> QED
  BY <1>1, <1>4, <1>5, <1>6, <1>8, <1>9 DEF Collected

LEMMA CollectedStep ==
  ASSUME TypeOK, HoursOfRange, Collected, [Next]_vars
  PROVE  Collected'
<1>0. /\ cache \in [Objects -> {"none", "part", "whole"}] /\ at \in Objects
      /\ at[1] \in 1..Loads /\ at[2] \in Days /\ at = <<at[1], at[2]>>
  BY DEF TypeOK, VisionTypeOK, Objects, Streams
<1>a. ASSUME got' = NothingGot, pc' \notin {"band", "load", "download"}, pc' # "fetch" \/ ~cold'
      PROVE  Collected'
  <2>1. \A s \in Streams : got'[s] = {}
    BY <1>a DEF NothingGot
  <2> QED BY <1>a, <2>1 DEF Collected, Passed
<1>b. ASSUME pc' \in {"write", "ledger", "reported"} PROVE Collected'
  BY <1>b DEF Collected
<1>1. CASE UNCHANGED vars
  BY <1>1 DEF Collected, Passed, From, To, vars, visionVars, jobVars
<1>2. ASSUME NEW a \in Arguments, Start(a) PROVE Collected'
  BY <1>2, <1>a DEF Start, Collected
<1>3. CASE NextIssue
  BY <1>3, <1>a DEF NextIssue, Collected
<1>4. CASE RequestFails
  BY <1>4, <1>a DEF RequestFails, Leave, ForgetTurn
<1>5. CASE Probe
  <2>1. /\ at' = <<1, FirstDay(From)>> /\ pc' = "load" /\ got' = NothingGot /\ cold'
        /\ UNCHANGED <<visionVars, args, hour>> /\ From' = From /\ To' = To
    BY <1>5 DEF Probe, Collected, From, To
  <2>2. /\ FirstDay(From) \in Nat /\ LastDay(To) \in Nat
        /\ FirstDay(From) <= LastDay(To)
        /\ \A m \in Minutes : From <= m /\ m <= To + 1 =>
              DayOf(m) \in Nat /\ FirstDay(From) <= DayOf(m)
    BY <1>5, DaysInHand DEF Probe, InTurn
  <2>3. \A s \in Streams : got'[s] = {}
    BY <2>1 DEF NothingGot
  <2>4. \A s \in Streams : \A m \in Minutes :
          From <= m /\ m <= To + 1 => ~Passed(s, DayOf(m))'
    BY <2>1, <2>2 DEF Passed, Streams
  <2> QED
    BY <2>1, <2>2, <2>3, <2>4 DEF Collected
<1>6. CASE LoadCached
  BY <1>0, <1>6, CollectStep DEF LoadCached, Rows, visionVars
<1>7. CASE LoadPart
  BY <1>7, <1>a DEF LoadPart, Leave, ForgetTurn
<1>8. CASE LoadMissing
  BY <1>0, <1>8, CollectStep DEF LoadMissing, TakenForMissing, visionVars
<1>9. CASE Download
  <2>1. /\ pc = "load" /\ pc' = "download" /\ cache' = [cache EXCEPT ![at] = "part"]
        /\ UNCHANGED jobVars /\ cache[at] = "none"
        /\ From' = From /\ To' = To
    BY <1>9 DEF Download, BeginDownload, jobVars, From, To
  <2>2. ASSUME NEW s \in Streams, NEW m \in Minutes
        PROVE  /\ cache[<<s, DayOf(m)>>] # "none" => cache'[<<s, DayOf(m)>>] # "none"
               /\ Passed(s, DayOf(m))' => Passed(s, DayOf(m))
               /\ Passed(s, DayOf(m)) => cache'[<<s, DayOf(m)>>] = cache[<<s, DayOf(m)>>]
    <3>1. <<s, DayOf(m)>> \in Objects /\ s \in Int /\ DayOf(m) \in Int
      BY DayTyped DEF Objects, Streams, Days
    <3>2. Passed(s, DayOf(m)) => <<s, DayOf(m)>> # at
      BY <1>0, <2>1, <3>1 DEF Passed, Days
    <3> QED BY <1>0, <2>1, <3>1, <3>2 DEF Passed, jobVars
  <2>3. FirstDay(From) <= at[2] /\ at[2] <= LastDay(To) /\ cold
    BY <2>1 DEF Collected
  <2>4. /\ From' = From /\ To' = To /\ at' = at /\ got' = got /\ cold' = cold
    BY <2>1 DEF jobVars
  <2>5. ASSUME NEW s \in Streams, NEW m \in Minutes
        PROVE  /\ m \in got[s] => /\ From <= m /\ m <= To + 1
                                  /\ cache[<<s, DayOf(m)>>] # "none"
               /\ /\ From <= m /\ m <= To + 1 /\ Passed(s, DayOf(m))
                  /\ cache[<<s, DayOf(m)>>] # "none"
                  => m \in got[s] \/ <<s, m>> \in Holes
    BY <2>1 DEF Collected
  <2> QED
    BY <2>1, <2>2, <2>3, <2>4, <2>5 DEF Collected
<1>10. CASE Downloaded
  <2>1. /\ pc = "download" /\ cache' = [cache EXCEPT ![at] = "whole"]
        /\ Collect(Rows(at, From, To))
    BY <1>10 DEF Downloaded, CompleteDownload
  <2> QED
    BY <1>0, <2>1, CollectStep DEF Rows
<1>11. CASE Fetch
  BY <1>11, <1>b DEF Fetch
<1>12. CASE Write
  BY <1>12, <1>a, <1>b DEF Write, Leave, ForgetTurn
<1>13. CASE Record
  BY <1>13, <1>a DEF Record, Leave, ForgetTurn
<1>14. CASE Report
  BY <1>14, <1>b DEF Report
<1>15. CASE Return \/ Crash
  BY <1>15, <1>a DEF Return, Crash, Forget, ForgetTurn
<1>16. ASSUME NEW f \in Objects, Publish(f),
              UNCHANGED <<files, pc, jobVars, crashes, damages>>
       PROVE  Collected'
  BY <1>16 DEF Publish, Collected, Passed, From, To, jobVars
<1>17. ASSUME NEW h \in Hours, NEW shape \in Shapes,
              NEW rows \in SUBSET files[h].rows, Damage(h, shape, rows)
       PROVE  Collected'
  BY <1>17, <1>a DEF Damage, Collected, jobVars
<1> QED
  BY <1>1, <1>2, <1>3, <1>4, <1>5, <1>6, <1>7, <1>8, <1>9, <1>10, <1>11, <1>12,
     <1>13, <1>14, <1>15, <1>16, <1>17 DEF Next, Work, Outside

(* A row that Vision lacked and REST was not asked for is lacking: REST is *)
(* asked for all of a stream or for nothing of it.                         *)
LEMMA FetchLacks ==
  ASSUME TypeOK, CachedIsPublished, HoursOfRange, Collected, Fetch,
         ~args.visionOnly, NEW s \in Hard, NEW m \in Expected
  PROVE  m \in got'[s] \/ Lacking(s, m, hour)
<1>0. /\ pc = "fetch" /\ InTurn /\ s \in Streams
      /\ args.range \in Ranges /\ hour \in IterHours(args.range[1], args.range[2])
  BY HardAssumption DEF Fetch, InTurn, TypeOK, Arguments, HoursOfRange
<1>1. /\ m \in Minutes /\ From <= m /\ m <= To /\ DayOf(m) = DayOf(hour)
      /\ To \in Nat /\ hour \in Nat /\ m \in Nat /\ hour <= To
      /\ To + 1 <= hour + HourLen /\ DayOf(To) = DayOf(hour)
  BY <1>0, HourOfRange, HoursFinite DEF Expected, From, To
<1>2. CASE got[s] = {}
  BY <1>0, <1>1, <1>2 DEF Fetch
<1>3. ASSUME NEW n \in got[s], m \notin got[s]
      PROVE  Lacking(s, m, hour)
  <2>1. cold
    BY <1>0, <1>3 DEF Collected, NothingGot
  <2>2. n \in Minutes /\ From <= n /\ n <= To + 1 /\ cache[<<s, DayOf(n)>>] # "none"
    BY <1>0, <1>3 DEF Collected, TypeOK
  <2>3. <<s, DayOf(n)>> \in published /\ <<s, DayOf(m)>> \in Objects
    BY <1>0, <1>1, <2>2, DayTyped DEF CachedIsPublished, Objects
  <2>4. CASE cache[<<s, DayOf(m)>>] # "none"
    <3>1. <<s, m>> \in Holes
      BY <1>0, <1>1, <1>3, <2>1, <2>4 DEF Collected, Passed
    <3> QED BY <2>3, <2>4, <3>1 DEF CachedIsPublished, Lacking
  <2>5. CASE cache[<<s, DayOf(m)>>] = "none"
    <3>1. DayOf(n) # DayOf(hour)
      BY <1>1, <2>2, <2>5
    <3>2. n = To + 1
      <4>1. ASSUME n <= To PROVE FALSE
        <5>1. n \in Nat /\ hour <= n
          <6>1. hour <= From
            BY <1>0, <1>1, RangeTyped DEF From
          <6>2. n \in Nat /\ From \in Nat
            BY <1>0, <2>2, DaysInHand, HoursFinite
          <6> QED BY <1>1, <2>2, <6>1, <6>2
        <5>2. DayOf(n) <= DayOf(To) /\ DayOf(hour) <= DayOf(n)
          BY <1>1, <4>1, <5>1, DayMonotone
        <5>3. DayOf(n) \in Nat /\ DayOf(hour) \in Nat
          BY <1>1, <5>1, DayIsBlock
        <5> QED BY <1>1, <3>1, <5>2, <5>3
      <4>2. n \in Nat
        BY <2>2, HoursFinite
      <4> QED BY <1>1, <2>2, <4>1, <4>2
    <3>3. NextDayHides(hour, WindowEnd(args.range[2], hour), s)
      BY <1>1, <2>3, <2>5, <3>1, <3>2 DEF NextDayHides, To
    <3> QED BY <3>3 DEF Lacking
  <2> QED BY <2>4, <2>5
<1>4. CASE got[s] # {}
  <2>1. got'[s] = got[s]
    BY <1>0, <1>4 DEF Fetch
  <2> QED BY <1>3, <1>4, <2>1
<1> QED
  BY <1>2, <1>4

LEMMA GotOrLackingStep ==
  ASSUME TypeOK, CachedIsPublished, HoursOfRange, Collected, GotOrLacking, [Next]_vars
  PROVE  GotOrLacking'
<1>1. CASE UNCHANGED vars
  BY <1>1 DEF GotOrLacking, Lacking, NextDayHides, Expected, vars, visionVars, jobVars
<1>2. CASE Fetch
  <2> SUFFICES ASSUME ~args.visionOnly, NEW s \in Hard, NEW m \in Expected
               PROVE  m \in got'[s] \/ Lacking(s, m, hour)'
    BY <1>2 DEF GotOrLacking, Expected, Fetch
  <2>1. m \in got'[s] \/ Lacking(s, m, hour)
    BY <1>2, FetchLacks
  <2> QED
    BY <1>2, <2>1 DEF Fetch, Lacking, NextDayHides, visionVars
<1>3. ASSUME NEW f \in Objects, Publish(f),
             UNCHANGED <<files, pc, jobVars, crashes, damages>>
      PROVE  GotOrLacking'
  BY <1>3 DEF Publish, GotOrLacking, Lacking, NextDayHides, Expected, jobVars
<1>4. ASSUME pc' # "write" PROVE GotOrLacking'
  BY <1>4 DEF GotOrLacking
<1> QED
  BY <1>1, <1>2, <1>3, <1>4 DEF Next, Work, Outside, Start, NextIssue, RequestFails,
     Leave, Probe, LoadCached, LoadPart, LoadMissing, Collect, Onward, Download,
     Downloaded, Write, Record, Report, Return, Crash, Damage

(* What bars an hour that is done with stays while the backfill runs.      *)
LEMMA BarredStays ==
  ASSUME TypeOK, HoursOfRange, Ascending, Collected, [Next]_vars,
         pc # "idle", args.slice = 0, args' = args, NEW h \in Left, Barred(h)
  PROVE  Barred(h)'
<1>0. /\ args.range \in Ranges /\ h \in IterHours(args.range[1], args.range[2])
      /\ h \in Hours /\ hour \in Hours
  BY RangeTyped DEF Left, Issues, TypeOK, Arguments
<1>1. CASE ~Mergeable(files[h])
  BY <1>0, <1>1, NoNewIssue DEF Barred
<1>2. ASSUME NEW f \in Objects, PartLeft(f), DayOf(h) <= f[2],
             f[2] <= DayOf(WindowEnd(args.range[2], h) + 1)
      PROVE  Barred(h)'
  BY <1>2, CacheStep DEF Barred
<1>3. published \subseteq published'
  <2>1. <<1, 0>> \in Objects
    BY FreshTyped
  <2> QED BY <2>1, CacheStep
<1>4. ASSUME NEW s \in Hard, NEW m \in Window(args.range[1], args.range[2], h),
             Lacking(s, m, h)
      PROVE  Lacking(s, m, h)'
  <2>1. CASE <<s, m>> \in Holes /\ <<s, DayOf(m)>> \in published
    BY <1>3, <2>1 DEF Lacking
  <2>2. CASE NextDayHides(h, WindowEnd(args.range[2], h), s)
    <3> DEFINE f == <<s, DayOf(h)>>
    <3>1. f \in Objects
      BY <1>0, HoursFinite, HardAssumption, DayTyped DEF Objects
    <3>2. ASSUME pc \in {"load", "download"} PROVE f # at
      <4>1. InTurn /\ hour \in InHand
        BY <3>2 DEF InTurn, InHand
      <4>2. h < hour
        BY <4>1 DEF Ascending
      <4>3. DayOf(h) < DayOf(hour)
        BY <1>0, <2>2, <4>2, LaterHourLaterDay DEF NextDayHides
      <4>4. DayOf(hour) <= FirstDay(From) /\ FirstDay(From) <= at[2]
            /\ FirstDay(From) \in Nat
        BY <3>2, <4>1, DaysInHand DEF Collected
      <4>5. DayOf(h) \in Nat /\ DayOf(hour) \in Nat /\ at[2] \in Nat
        <5>1. h \in Nat /\ hour \in Nat
          BY <1>0, HoursFinite
        <5> QED BY <5>1, DayIsBlock DEF TypeOK, Objects, Days
      <4>6. DayOf(h) # at[2]
        BY <4>3, <4>4, <4>5
      <4> QED BY <4>6
    <3>3. cache'[f] = cache[f]
      BY <3>1, <3>2, CacheStep
    <3>4. NextDayHides(h, WindowEnd(args.range[2], h), s)'
      BY <1>3, <2>2, <3>3 DEF NextDayHides
    <3> QED BY <3>4 DEF Lacking
  <2> QED BY <1>4, <2>1, <2>2 DEF Lacking
<1>5. ASSUME NEW s \in Hard, NEW m \in Window(args.range[1], args.range[2], h),
             Lacking(s, m, h)
      PROVE  Barred(h)'
  BY <1>4, <1>5 DEF Barred
<1> QED
  BY <1>1, <1>2, <1>5 DEF Barred

(* A turn that ends leaves its hour valid, or for a reason.                *)
LEMMA TurnExplained ==
  ASSUME TypeOK, HoursOfRange, Collected, GotOrLacking, [Next]_vars,
         ~args.visionOnly, InTurn, pc' \in {"next", "ledger"},
         NEW h, h = hour, h \in Issues(args.range)'
  PROVE  h \in hurt' \/ Barred(h)'
<1>0. /\ args.range \in Ranges /\ hour \in IterHours(args.range[1], args.range[2])
      /\ at \in Objects
  BY DEF TypeOK, Arguments, HoursOfRange
<1>1. CASE RequestFails
  BY <1>1 DEF RequestFails
<1>2. CASE LoadPart
  <2>1. /\ cache[at] = "part" /\ pc = "load" /\ pc' = "next" /\ args' = args
        /\ cache' = cache
    BY <1>2 DEF LoadPart, Leave, visionVars
  <2>2. FirstDay(From) <= at[2] /\ at[2] <= DayOf(WindowEnd(args.range[2], hour) + 1)
    BY <2>1 DEF Collected, LastDay, To
  <2>3. DayOf(hour) <= at[2]
    <3>1. DayOf(hour) <= FirstDay(From) /\ FirstDay(From) \in Nat
      BY DaysInHand
    <3>2. DayOf(hour) \in Nat /\ at[2] \in Nat
      BY <1>0, HourOfRange, DayIsBlock DEF Objects, Days
    <3> QED BY <2>2, <3>1, <3>2
  <2>4. PartLeft(at) /\ cache'[at] = "part" /\ pc' # "download"
    BY <2>1 DEF PartLeft
  <2>5. \E f \in Objects :
          /\ PartLeft(f)' /\ DayOf(h) <= f[2]
          /\ f[2] <= DayOf(WindowEnd(args.range[2], h) + 1)
    <3> DEFINE f == at
    <3>1. /\ f \in Objects /\ DayOf(h) <= f[2]
          /\ f[2] <= DayOf(WindowEnd(args.range[2], h) + 1)
      BY <1>0, <2>2, <2>3
    <3>2. \A g \in Objects : g = at => PartLeft(g)'
      BY <2>4 DEF PartLeft
    <3> QED BY <3>1, <3>2
  <2>6. Barred(h)'
    BY <2>1, <2>5 DEF Barred
  <2> QED BY <2>6
<1>3. CASE Write
  <2> DEFINE whole == { m \in Expected : \A s \in Hard : m \in got[s] }
  <2>1. CASE Mergeable(files[hour]) /\ Gate(whole)
    <3>1. pc = "write" /\ pc' = "ledger" /\ args' = args /\ pc # "idle"
      BY <1>3, <2>1 DEF Write, jobVars
    <3> QED BY <3>1, NoNewIssue
  <2>2. CASE ~(Mergeable(files[hour]) /\ Gate(whole))
    <3>1. pc = "write" /\ args' = args /\ UNCHANGED <<files, visionVars>>
      BY <1>3, <2>2 DEF Write, Leave
    <3>2. CASE ~Mergeable(files[hour])
      BY <3>1, <3>2 DEF Barred
    <3>3. CASE Mergeable(files[hour])
      <4>1. PICK m \in Expected, s \in Hard : m \notin got[s]
        BY <2>2, <3>3 DEF Gate
      <4>2. Lacking(s, m, hour)
        BY <3>1, <4>1 DEF GotOrLacking
      <4> QED
        BY <3>1, <4>1, <4>2 DEF Barred, Lacking, NextDayHides, Expected, visionVars
    <3> QED BY <3>2, <3>3
  <2> QED BY <2>1, <2>2
<1> QED
  BY <1>1, <1>2, <1>3 DEF InTurn, Next, Work, Outside, Start, NextIssue, Probe,
     LoadCached, LoadMissing, Collect, Onward, Download, Downloaded, Fetch,
     Record, Report, Return, Crash, Damage, vars, jobVars

LEMMA ExplainedStep ==
  ASSUME TypeOK, ExplainedInv, [Next]_vars
  PROVE  Explained'
<1>0. /\ HoursOfRange /\ Ascending /\ Collected /\ GotOrLacking /\ Explained
  BY DEF ExplainedInv
(* It is enough that the hours that are newly done with are explained.     *)
<1>1. ASSUME pc # "idle", pc' # "idle", args' = args, hurt \subseteq hurt',
             \A h \in Left' \ Left : ~args.visionOnly => h \in hurt' \/ Barred(h)'
      PROVE  Explained'
  <2> SUFFICES ASSUME args.slice = 0, ~args.visionOnly, NEW h \in Left'
               PROVE  h \in hurt' \/ Barred(h)'
    BY <1>1 DEF Explained
  <2>1. CASE h \in Left
    <3>1. h \in hurt \/ Barred(h)
      BY <1>0, <1>1, <2>1 DEF Explained
    <3> QED BY <1>0, <1>1, <2>1, <3>1, BarredStays
  <2> QED BY <1>1, <2>1
<1>2. ASSUME pc # "idle", pc' # "idle", UNCHANGED args, hurt \subseteq hurt',
             todo \union InHand \subseteq (todo \union InHand)'
      PROVE  Explained'
  <2>1. Left' \subseteq Left
    BY <1>2, NoNewIssue DEF Left
  <2> QED BY <1>1, <1>2, <2>1
<1>3. ASSUME NEW a \in Arguments, Start(a) PROVE Explained'
  <2>1. CASE a.slice = 0
    <3>1. args' = a /\ files' = files
          /\ todo' = IF a.force THEN IterHours(a.range[1], a.range[2])
                     ELSE Issues(a.range)
      BY <1>3, <2>1 DEF Start
    <3>2. Left' = {}
      BY <3>1 DEF Left, Issues
    <3> QED BY <3>2 DEF Explained
  <2>2. CASE a.slice # 0
    BY <1>3, <2>2 DEF Start, Explained
  <2> QED BY <2>1, <2>2
<1>4. CASE NextIssue
  <2>1. PICK h \in todo : /\ hour' = h /\ todo' = todo \ {h} /\ pc = "next"
                         /\ pc' \in {"band", "fetch"} /\ UNCHANGED <<args, hurt>>
    BY <1>4 DEF NextIssue
  <2> QED BY <1>2, <2>1 DEF InHand
<1>5. CASE GoesOn
  BY <1>2, <1>5 DEF GoesOn, InHand, InTurn
<1>6. CASE Closes
  BY <1>2, <1>6 DEF Closes, InHand
<1>7. CASE Still
  <2>1. CASE pc # "idle"
    BY <1>2, <1>7, <2>1 DEF Still, InHand
  <2>2. CASE pc = "idle"
    BY <1>7, <2>2 DEF Still, Explained
  <2> QED BY <2>1, <2>2
<1>8. CASE TurnEnds
  <2>1. /\ InTurn /\ pc' \in {"next", "ledger"} /\ UNCHANGED <<args, todo>>
        /\ hurt \subseteq hurt' /\ pc # "idle" /\ pc' # "idle" /\ InHand = {hour}
    BY <1>8 DEF TurnEnds, InHand, InTurn
  <2>2. ASSUME NEW h \in Left' \ Left, ~args.visionOnly
        PROVE  h \in hurt' \/ Barred(h)'
    <3>1. h \in Issues(args.range)' /\ h = hour
      BY <2>1, NoNewIssue DEF Left
    <3> QED BY <1>0, <2>1, <2>2, <3>1, TurnExplained
  <2> QED BY <1>1, <2>1, <2>2
<1>9. CASE NotRunning
  BY <1>9 DEF NotRunning, Explained
<1> QED
  BY <1>3, <1>4, <1>5, <1>6, <1>7, <1>8, <1>9, StepKinds

LEMMA ExplainedHolds == Spec => []ExplainedInv
<1>1. TypeOK /\ ExplainedInv /\ [Next]_vars => ExplainedInv'
  BY CachedStep, HoursStep, AscendingStep, CollectedStep, GotOrLackingStep,
     ExplainedStep DEF ExplainedInv
<1>2. RepairInv => TypeOK
  BY DEF RepairInv
<1> QED
  BY <1>1, <1>2, ExplainedInit, RepairHolds, PTL DEF Spec

(* What bars an hour blocks it.                                            *)
LEMMA BarredIsBlocked ==
  ASSUME TypeOK, NEW h \in Issues(args.range), Barred(h)
  PROVE  Blocked(h, args.range)
<1>0. /\ DayOf(h) \in Nat /\ DayOf(WindowEnd(args.range[2], h) + 1) \in Nat
      /\ \A f \in Objects : f[2] \in Nat
  <2>1. args.range \in Ranges /\ h \in IterHours(args.range[1], args.range[2])
    BY DEF TypeOK, Arguments, Issues
  <2> QED BY <2>1, HourOfRange, DayIsBlock DEF Objects, Days
<1>1. CASE ~Mergeable(files[h])
  BY <1>1 DEF Blocked
<1>2. ASSUME NEW f \in Objects, PartLeft(f), DayOf(h) <= f[2],
             f[2] <= DayOf(WindowEnd(args.range[2], h) + 1)
      PROVE  Blocked(h, args.range)
  BY <1>0, <1>2 DEF Blocked, PartLeft
<1>3. ASSUME NEW s \in Hard, NEW m \in Window(args.range[1], args.range[2], h),
             Lacking(s, m, h)
      PROVE  Blocked(h, args.range)
  BY <1>3 DEF Blocked, Lacking
<1> QED
  BY <1>1, <1>2, <1>3 DEF Barred

(* LeftInvalidExplained: a backfill of all issues with REST passes over an *)
(* hour only for a reason the operator can be shown, for any number of     *)
(* streams and any layout of hours in days: its request failed, or it is   *)
(* blocked (run_consistency_backfill, _collect_and_transform).             *)
THEOREM LeftIsExplained == Spec => []LeftInvalidExplained
<1>1. TypeOK /\ ExplainedInv => LeftInvalidExplained
  <2> SUFFICES ASSUME TypeOK, ExplainedInv, pc = "reported", args.slice = 0,
                      ~args.visionOnly, NEW h \in Issues(args.range)
               PROVE  h \in hurt \/ Blocked(h, args.range)
    BY DEF LeftInvalidExplained
  <2>1. h \in Left
    BY DEF Left, InHand, HoursOfRange, ExplainedInv
  <2>2. h \in hurt \/ Barred(h)
    BY <2>1 DEF Explained, ExplainedInv
  <2> QED BY <2>2, BarredIsBlocked
<1> QED
  BY <1>1, ExplainedHolds, RepairTypeCorrect, PTL
=============================================================================
