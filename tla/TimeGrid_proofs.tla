-------------------------- MODULE TimeGrid_proofs --------------------------
(***************************************************************************)
(* Facts about the hour grid that the proofs about the pipeline rest on.   *)
(***************************************************************************)
EXTENDS TimeGrid, TLAPS

(* A minute lies in the hour it is floored to (floor_to_hour).             *)
LEMMA HourStartBounds ==
  ASSUME NEW m \in Int
  PROVE  /\ HourStart(m) \in Int
         /\ HourStart(m) <= m
         /\ m < HourStart(m) + HourLen
         /\ m \in Nat => HourStart(m) \in Nat
  BY HourLenAssumption DEF HourStart

(* Flooring keeps the order of minutes (floor_to_hour).                    *)
LEMMA HourStartMonotone ==
  ASSUME NEW m \in Int, NEW n \in Int, m <= n
  PROVE  HourStart(m) <= HourStart(n)
  BY HourLenAssumption DEF HourStart

(* An hour is the block of HourLen minutes that begins at its start, so    *)
(* flooring sends the whole block to it (floor_to_hour).                   *)
LEMMA HourIsBlock ==
  ASSUME NEW m \in Int, NEW n \in Int,
         HourStart(n) <= m, m < HourStart(n) + HourLen
  PROVE  HourStart(m) = HourStart(n)
<1> DEFINE q == m \div HourLen
           r == n \div HourLen
<1>1. /\ q \in Int /\ r \in Int
      /\ HourStart(m) = HourLen * q
      /\ HourStart(n) = HourLen * r
  BY HourLenAssumption DEF HourStart
<1>2. HourStart(m) <= m /\ m < HourStart(m) + HourLen
  BY HourStartBounds
<1> HIDE DEF q, r
<1>3. HourLen * q < HourLen * (r + 1) /\ HourLen * r < HourLen * (q + 1)
  BY <1>1, <1>2, HourLenAssumption
<1>4. q < r + 1 /\ r < q + 1
  BY <1>1, <1>3, HourLenAssumption
<1> QED
  BY <1>1, <1>4

(* Two hours that differ are HourLen minutes apart at least: the next one  *)
(* begins where the one before ends or later (iter_hours).                 *)
LEMMA HoursApart ==
  ASSUME NEW m \in Int, NEW n \in Int, HourStart(m) < HourStart(n)
  PROVE  HourStart(m) + HourLen <= HourStart(n)
<1> DEFINE g == HourStart(m)
           h == HourStart(n)
<1>1. g \in Int /\ h \in Int /\ h < h + HourLen
  BY HourStartBounds, HourLenAssumption
<1>2. HourStart(h) = h
  BY <1>1, HourIsBlock
<1>3. ASSUME h < g + HourLen PROVE HourStart(h) = g
  BY <1>1, <1>3, HourIsBlock
<1> QED
  BY <1>1, <1>2, <1>3, HourLenAssumption

(* The two ways the code names the minutes of an hour in a run over        *)
(* start..end agree: those that floor to it, and those between             *)
(* max(start, hour) and min(end, hour + 59) (run_until_target).            *)
LEMMA WindowIsInterval ==
  ASSUME NEW start \in Int, NEW end \in Int, NEW n \in Int
  PROVE  LET h == HourStart(n)
         IN Window(start, end, h) =
              { m \in start..end : h <= m /\ m <= WindowEnd(end, h) }
<1> DEFINE h == HourStart(n)
<1>1. h \in Int
  BY HourStartBounds
<1>2. ASSUME NEW m \in start..end
      PROVE  HourStart(m) = h <=> (h <= m /\ m <= WindowEnd(end, h))
  <2>1. m \in Int
    OBVIOUS
  <2>2. HourStart(m) = h => (h <= m /\ m <= WindowEnd(end, h))
    BY <1>1, <2>1, HourStartBounds, HourLenAssumption DEF WindowEnd
  <2>3. ASSUME h <= m, m <= WindowEnd(end, h)
        PROVE  HourStart(m) = h
    <3>1. m < h + HourLen
      BY <1>1, <2>1, <2>3, HourLenAssumption DEF WindowEnd
    <3> QED
      BY <2>1, <2>3, <3>1, HourIsBlock
  <2> QED
    BY <2>2, <2>3
<1> QED
  BY <1>2 DEF Window

(* When a run that has done the minutes up to w comes to its next hour,    *)
(* that hour is the one of w + 1; once the hour is done, what is left are  *)
(* the hours of the minutes after its window (the loop of                  *)
(* run_until_target).                                                      *)
LEMMA LoopStep ==
  ASSUME NEW w \in Int, NEW end \in Int, w < end,
         NEW h, NextHour(h, IterHours(w + 1, end))
  PROVE  LET e == WindowEnd(end, h)
         IN /\ h = HourStart(w + 1)
            /\ e \in Int /\ w < e /\ e <= end
            /\ \A m \in Int : w < m /\ m <= e => HourStart(m) = h
            /\ IterHours(w + 1, end) \ {h} = IterHours(e + 1, end)
            /\ IterHours(e + 1, end) = {} <=> e = end
<1> DEFINE e == WindowEnd(end, h)
<1>1. w + 1 \in Int /\ w + 1 \in w + 1..end
  OBVIOUS
<1>2. HourStart(w + 1) \in IterHours(w + 1, end)
  BY <1>1 DEF IterHours
<1>3. PICK n \in w + 1..end : h = HourStart(n)
  BY DEF NextHour, IterHours
<1>4. h \in Int
  BY <1>3, HourStartBounds
<1>5. h = HourStart(w + 1)
  <2>1. h <= HourStart(w + 1)
    BY <1>2 DEF NextHour
  <2>2. HourStart(w + 1) <= h
    BY <1>1, <1>3, HourStartMonotone
  <2> QED
    BY <1>1, <1>4, <2>1, <2>2, HourStartBounds
<1>6. h <= w + 1 /\ w + 1 < h + HourLen
  BY <1>1, <1>5, HourStartBounds
<1>7. e \in Int /\ w < e /\ e <= end
  BY <1>4, <1>6, HourLenAssumption DEF WindowEnd
<1>8. ASSUME NEW m \in Int, w < m, m <= e
      PROVE  HourStart(m) = h
  <2>1. h <= m /\ m < h + HourLen
    BY <1>4, <1>6, <1>8, HourLenAssumption DEF WindowEnd
  <2> QED
    BY <1>1, <1>5, <2>1, HourIsBlock
<1>9. ASSUME NEW m \in Int, e < m, m <= end
      PROVE  HourStart(m) # h
  <2>1. h + HourLen <= m
    BY <1>4, <1>9, HourLenAssumption DEF WindowEnd
  <2> QED
    BY <1>4, <2>1, HourStartBounds, HourLenAssumption
<1>10. IterHours(w + 1, end) \ {h} = IterHours(e + 1, end)
  <2>1. ASSUME NEW g \in IterHours(w + 1, end) \ {h}
        PROVE  g \in IterHours(e + 1, end)
    <3>1. PICK m \in w + 1..end : g = HourStart(m)
      BY <2>1 DEF IterHours
    <3>2. e < m
      BY <1>7, <1>8, <3>1, <2>1
    <3>3. m \in e + 1..end
      BY <1>7, <3>1, <3>2
    <3> QED
      BY <3>1, <3>3 DEF IterHours
  <2>2. ASSUME NEW g \in IterHours(e + 1, end)
        PROVE  g \in IterHours(w + 1, end) \ {h}
    <3>1. PICK m \in e + 1..end : g = HourStart(m)
      BY <2>2 DEF IterHours
    <3>2. m \in w + 1..end
      BY <1>7, <3>1
    <3>3. g # h
      BY <1>7, <1>9, <3>1
    <3> QED
      BY <3>1, <3>2, <3>3 DEF IterHours
  <2> QED
    BY <2>1, <2>2
<1>11. IterHours(e + 1, end) = {} <=> e = end
  <2>1. ASSUME e = end PROVE IterHours(e + 1, end) = {}
    BY <1>7, <2>1 DEF IterHours
  <2>2. ASSUME e # end PROVE IterHours(e + 1, end) # {}
    <3>1. e + 1 \in e + 1..end
      BY <1>7, <2>2
    <3> QED
      BY <3>1 DEF IterHours
  <2> QED
    BY <2>1, <2>2
<1> HIDE DEF e
<1> QED
  BY <1>5, <1>7, <1>8, <1>10, <1>11 DEF e
=============================================================================
