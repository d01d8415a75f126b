------------------------ MODULE LiveMinutes_proofs -------------------------
(***************************************************************************)
(* Proofs about LiveMinutes, for any events, any clock and any retention,  *)
(* and about MinuteFeatures, for any payloads and any number of events.    *)
(* The committed rows need one thing of the settings: that the safety lag  *)
(* is longer than an event may be late.                                    *)
(***************************************************************************)
EXTENDS LiveMinutes, MinuteFeatures, Induction

(* What a handler has left to do.                                          *)
DepthSteps == { <<"beat", "depth", "latency", "book">>,
                <<"depth", "latency", "book">>, <<"latency", "book">>,
                <<"book">> }

(* An event that is handled is in memory, but for a liquidation before its *)
(* heartbeat, which is in no table then either.                            *)
Handled ==
  \/ cur = None /\ todo = <<>>
  \/ cur \in Depths /\ todo \in DepthSteps /\ cur \in mem
  \/ cur \in Liqs /\ todo = <<"beat", "liq">> /\ cur \notin rows["liq"]
  \/ cur \in Liqs /\ todo = <<"liq">> /\ cur \in mem

(* The tables have events of their family that were heard.                 *)
Tabled == \A f \in Families : rows[f] \subseteq StreamOf(f) \intersect Heard

TypeInv ==
  /\ LiveTypeOK
  /\ Handled
  /\ cur # None => cur \in Heard
  /\ Tabled

(* The handler's steps, one after the other.                               *)
LEMMA StepsInOrder ==
  /\ Head(<<"beat", "depth", "latency", "book">>) = "beat"
  /\ Tail(<<"beat", "depth", "latency", "book">>) = <<"depth", "latency", "book">>
  /\ Head(<<"depth", "latency", "book">>) = "depth"
  /\ Tail(<<"depth", "latency", "book">>) = <<"latency", "book">>
  /\ Head(<<"latency", "book">>) = "latency"
  /\ Tail(<<"latency", "book">>) = <<"book">>
  /\ Head(<<"book">>) = "book"
  /\ Tail(<<"book">>) = <<>>
  /\ Head(<<"beat", "liq">>) = "beat"
  /\ Tail(<<"beat", "liq">>) = <<"liq">>
  /\ Head(<<"liq">>) = "liq"
  /\ Tail(<<"liq">>) = <<>>
  /\ Len(<<"beat", "depth", "latency", "book">>) = 4
  /\ Len(<<"depth", "latency", "book">>) = 3
  /\ Len(<<"latency", "book">>) = 2
  /\ Len(<<"book">>) = 1
  /\ Len(<<"beat", "liq">>) = 2
  /\ Len(<<"liq">>) = 1
  /\ <<"book">> # <<>> /\ <<"latency", "book">> # <<>>
  /\ <<"depth", "latency", "book">> # <<>> /\ <<"liq">> # <<>>
  /\ <<"beat", "depth", "latency", "book">> # <<>> /\ <<"beat", "liq">> # <<>>
  OBVIOUS

(* The handler goes on: what is next, and whose handler it is.             *)
LEMMA HandlerGoesOn ==
  ASSUME Handled, todo # <<>>, StepDone
  PROVE  \/ /\ cur \in Depths /\ cur \in mem
            /\ \/ Head(todo) = "beat" /\ cur' = cur
                  /\ todo' = <<"depth", "latency", "book">>
               \/ Head(todo) = "depth" /\ cur' = cur
                  /\ todo' = <<"latency", "book">>
               \/ Head(todo) = "latency" /\ cur' = cur /\ todo' = <<"book">>
               \/ Head(todo) = "book" /\ cur' = None /\ todo' = <<>>
         \/ /\ cur \in Liqs
            /\ \/ Head(todo) = "beat" /\ cur' = cur /\ todo' = <<"liq">>
               \/ /\ Head(todo) = "liq" /\ cur' = None /\ todo' = <<>>
                  /\ cur \in mem
<1>1. CASE cur \in Depths /\ todo \in DepthSteps /\ cur \in mem
  <2>1. \/ todo = <<"beat", "depth", "latency", "book">>
        \/ todo = <<"depth", "latency", "book">>
        \/ todo = <<"latency", "book">>
        \/ todo = <<"book">>
    BY <1>1 DEF DepthSteps
  <2>2. CASE todo = <<"beat", "depth", "latency", "book">>
    BY <1>1, <2>2, StepsInOrder DEF StepDone
  <2>3. CASE todo = <<"depth", "latency", "book">>
    BY <1>1, <2>3, StepsInOrder DEF StepDone
  <2>4. CASE todo = <<"latency", "book">>
    BY <1>1, <2>4, StepsInOrder DEF StepDone
  <2>5. CASE todo = <<"book">>
    BY <1>1, <2>5, StepsInOrder DEF StepDone
  <2> QED
    BY <2>1, <2>2, <2>3, <2>4, <2>5
<1>2. CASE cur \in Liqs /\ todo = <<"beat", "liq">> /\ cur \notin rows["liq"]
  BY <1>2, StepsInOrder DEF StepDone
<1>3. CASE cur \in Liqs /\ todo = <<"liq">> /\ cur \in mem
  BY <1>3, StepsInOrder DEF StepDone
<1> QED
  BY <1>1, <1>2, <1>3 DEF Handled

(* What a handler has left to do is a sequence of steps.                   *)
LEMMA StepsTyped ==
  /\ DepthSteps \subseteq Seq(Families \union {"beat", "book"})
  /\ { <<>>, <<"beat", "liq">>, <<"liq">> }
       \subseteq Seq(Families \union {"beat", "book"})
<1> DEFINE S == Families \union {"beat", "book"}
<1>1. {"beat", "book", "depth", "latency", "liq"} \subseteq S
  BY DEF Families
<1> HIDE DEF S
<1>2. <<"beat", "depth", "latency", "book">> \in Seq(S)
  BY <1>1
<1>3. <<"depth", "latency", "book">> \in Seq(S)
  BY <1>1
<1>4. <<"latency", "book">> \in Seq(S) /\ <<"book">> \in Seq(S)
  BY <1>1
<1>5. <<>> \in Seq(S) /\ <<"beat", "liq">> \in Seq(S) /\ <<"liq">> \in Seq(S)
  BY <1>1
<1> QED
  BY <1>2, <1>3, <1>4, <1>5 DEF DepthSteps, S

(* A snapshot and its merge are live columns.                              *)
LEMMA SnapshotTyped ==
  ASSUME TypeInv, NEW m \in ClockMinutes
  PROVE  MergeLive(row[m], Snapshot(m)) \in LiveRow
<1>1. /\ Collected(m, "depth") \in SUBSET Depths
      /\ Collected(m, "latency") \in SUBSET Depths
      /\ Collected(m, "liq") \in SUBSET Liqs
  BY DEF Collected, Of, StreamOf, TypeInv, Tabled, Families
<1>2. Snapshot(m).degraded \in BOOLEAN \union {None}
  BY DEF Snapshot, DegradedInMemory
<1>3. row[m] \in LiveRow
  BY DEF TypeInv, LiveTypeOK
<1>4. Snapshot(m) \in LiveRow
  BY <1>1, <1>2 DEF Snapshot, LiveRow
<1> QED
  BY <1>3, <1>4 DEF MergeLive, LiveRow

LEMMA TypeInvInit == Init => TypeInv
<1> SUFFICES ASSUME Init PROVE TypeInv
  OBVIOUS
<1>1. Handled /\ Tabled
  BY DEF Init, Handled, Tabled, StreamOf
<1>2. [m \in ClockMinutes |-> NoData] \in [ClockMinutes -> LiveRow]
  BY DEF NoData, LiveRow
<1> QED
  BY <1>1, <1>2, StepsTyped, TimesAssumption
  DEF Init, TypeInv, LiveTypeOK, ClockMinutes

(* Every step preserves the types and the order of the handlers' steps.    *)
LEMMA TypeInvStep == TypeInv /\ [Next]_vars => TypeInv'
<1> SUFFICES ASSUME TypeInv, [Next]_vars PROVE TypeInv'
  OBVIOUS
<1>h. /\ None \notin Events /\ Depths \intersect Liqs = {}
      /\ Events = Depths \union Liqs
  BY StreamsAssumption DEF Events
<1>t. LiveTypeOK /\ Handled /\ Tabled /\ (cur # None => cur \in Heard)
  BY DEF TypeInv
<1>0. ASSUME Handled', Heard \subseteq Heard',
             cur' # None => cur' \in Heard', Tabled',
             clock' \in ClockMinutes,
             minuteOf' \in [Events -> ClockMinutes \union {None}],
             mem' \subseteq Events, good' \subseteq Depths,
             broke' \subseteq Depths,
             row' \in [ClockMinutes -> LiveRow], mark' \in -1..LastMinute,
             restarts' \in 0..MaxRestarts, era' \in [Events -> 0..MaxRestarts],
             gone' \subseteq Events, rows' \in [Families -> SUBSET Events]
      PROVE  TypeInv'
  <2>1. /\ cur' \in Events \union {None}
        /\ todo' \in Seq(Families \union {"beat", "book"})
    BY <1>0, StepsTyped DEF Handled, Events
  <2> QED
    BY <1>0, <2>1 DEF TypeInv, LiveTypeOK
<1>1. CASE Tick
  <2>1. clock' \in ClockMinutes
    BY <1>1, <1>t, TimesAssumption DEF Tick, LiveTypeOK, ClockMinutes
  <2>2. Handled' /\ Tabled' /\ Heard' = Heard
    BY <1>1, <1>t DEF Tick, handler, Handled, Tabled, Heard
  <2> QED
    BY <1>1, <1>t, <1>0, <2>1, <2>2
    DEF Tick, handler, depthBook, history, LiveTypeOK
<1>2. ASSUME NEW e \in Events, Receive(e) PROVE TypeInv'
  <2>1. PICK m \in ClockMinutes : minuteOf' = [minuteOf EXCEPT ![e] = m]
    BY <1>2 DEF Receive
  <2>2. m # None
    BY TimesAssumption DEF ClockMinutes
  <2>3. Heard' = Heard \union {e} /\ e \notin Heard
    BY <1>2, <1>t, <2>1, <2>2 DEF Receive, Heard, LiveTypeOK
  <2>4. Handled'
    <3>1. CASE e \in Depths
      BY <1>2, <3>1 DEF Receive, Handled, DepthSteps
    <3>2. CASE e \in Liqs
      BY <1>2, <1>h, <1>t, <2>3, <3>2
      DEF Receive, Handled, Tabled, Families
    <3> QED
      BY <3>1, <3>2, <1>h
  <2>5. Tabled'
    BY <1>2, <1>t, <2>3 DEF Receive, Tabled
  <2> QED
    BY <1>2, <1>t, <1>0, <2>1, <2>3, <2>4, <2>5
    DEF Receive, depthBook, LiveTypeOK
<1>3. CASE Beat
  <2>1. todo # <<>> /\ Head(todo) = "beat" /\ StepDone
    BY <1>3 DEF Beat, At
  <2>2. Handled' /\ cur' = cur /\ cur \in Events
    BY <1>3, <1>t, <1>h, <2>1, HandlerGoesOn DEF Beat, Handled, DepthSteps
  <2> QED
    BY <1>3, <1>t, <1>0, <2>2
    DEF Beat, depthBook, history, LiveTypeOK, Tabled, Heard
<1>4. CASE Book
  <2>1. todo # <<>> /\ Head(todo) = "book" /\ StepDone
    BY <1>4 DEF Book, At
  <2>2. cur \in Depths /\ cur' = None /\ todo' = <<>>
    BY <1>t, <2>1, HandlerGoesOn
  <2>3. Handled' /\ good' \subseteq Depths /\ broke' \subseteq Depths
    BY <1>4, <1>t, <2>2 DEF Book, Handled, depthBook, LiveTypeOK
  <2> QED
    BY <1>4, <1>t, <1>0, <2>2, <2>3
    DEF Book, history, LiveTypeOK, Tabled, Heard
<1>5. CASE StoreFails
  <2>1. Handled' /\ gone' \subseteq Events
    BY <1>5, <1>t DEF StoreFails, Handled, LostNow, Heard, LiveTypeOK
  <2> QED
    BY <1>5, <1>t, <1>0, <2>1
    DEF StoreFails, depthBook, LiveTypeOK, Tabled, Heard
<1>6. ASSUME NEW f \in Families, AppendRow(f) PROVE TypeInv'
  <2>1. todo # <<>> /\ Head(todo) = f /\ StepDone
    BY <1>6 DEF AppendRow, At
  <2>2. /\ cur \in StreamOf(f) /\ cur \in Heard /\ cur \in mem
        /\ Handled'
    BY <1>6, <1>t, <1>h, <2>1, HandlerGoesOn
    DEF AppendRow, Handled, DepthSteps, Families, StreamOf
  <2> QED
    BY <1>6, <1>t, <1>0, <2>1, <2>2
    DEF AppendRow, depthBook, history, LiveTypeOK, Tabled, Heard, StepDone
<1>7. CASE Restart
  <2>1. Handled' /\ gone' \subseteq Events
    BY <1>7, <1>t DEF Restart, Handled, LostNow, Heard, LiveTypeOK
  <2> QED
    BY <1>7, <1>t, <1>0, <2>1, TimesAssumption
    DEF Restart, depthBook, LiveTypeOK, Tabled, Heard
<1>8. CASE Cleanup
  <2>1. gone' \subseteq Events
    BY <1>8, <1>t DEF Cleanup, LostNow, Heard, LiveTypeOK
  <2>2. /\ rows' \in [Families -> SUBSET Events]
        /\ \A f \in Families : rows'[f] \subseteq rows[f]
    BY <1>8, <1>t DEF Cleanup, LiveTypeOK
  <2>3. Handled' /\ Tabled'
    BY <1>8, <1>t, <2>2
    DEF Cleanup, handler, Handled, Tabled, Heard, Families
  <2> QED
    BY <1>8, <1>t, <1>0, <2>1, <2>2, <2>3
    DEF Cleanup, handler, depthBook, LiveTypeOK, Heard
<1>9. CASE WriteMinute
  <2>1. mark + 1 \in ClockMinutes /\ mark' \in -1..LastMinute
    BY <1>9, <1>t, TimesAssumption
    DEF WriteMinute, LiveTypeOK, ClockMinutes
  <2>2. row' \in [ClockMinutes -> LiveRow]
    BY <1>9, <1>t, <2>1, SnapshotTyped DEF WriteMinute, LiveTypeOK
  <2> QED
    BY <1>9, <1>t, <1>0, <2>1, <2>2
    DEF WriteMinute, handler, depthBook, history, LiveTypeOK, Handled, Tabled,
        Heard
<1>10. CASE UNCHANGED vars
  BY <1>10, <1>t, <1>0
  DEF vars, handler, depthBook, history, LiveTypeOK, Handled, Tabled, Heard
<1> QED
  BY <1>1, <1>2, <1>3, <1>4, <1>5, <1>6, <1>7, <1>8, <1>9, <1>10 DEF Next

(* Every value keeps its type (the whole module).                          *)
THEOREM LiveTypeCorrect == Spec => []LiveTypeOK
<1>1. TypeInv => LiveTypeOK
  BY DEF TypeInv
<1> QED
  BY <1>1, TypeInvInit, TypeInvStep, PTL DEF Spec

-----------------------------------------------------------------------------
(* An event that is not lost, of a minute that is not committed, and whose *)
(* handler has ended, is in memory or in every table of its families; in   *)
(* memory if it came in this run of the process.                           *)
Open(e) == e \in Heard /\ e \notin gone /\ e # cur /\ minuteOf[e] > mark

Tables(e) == \A f \in Families : e \in StreamOf(f) => e \in rows[f]

Held    == \A e \in Events : Open(e) => e \in mem \/ Tables(e)
Current == \A e \in Events : Open(e) /\ era[e] = restarts => e \in mem

(* Memory has events of this run only.                                     *)
Remembered ==
  /\ \A e \in mem : e \in Heard /\ era[e] = restarts
  /\ cur # None => era[cur] = restarts
  /\ \A e \in Events : era[e] <= restarts

(* CommittedMinuteComplete without a look at the handler.                  *)
Done ==
  \A m \in ClockMinutes, f \in Families :
    m <= mark /\ Uncut(m, f) => Of(m, StreamOf(f)) \ gone \subseteq row[m][f]

MarkLags == mark = -1 \/ mark + SafetyLag <= clock

CommitInv ==
  TypeInv /\ Held /\ Current /\ Remembered /\ Done /\ MarkLags

LEMMA CommitInvInit == Init => CommitInv
<1> SUFFICES ASSUME Init PROVE CommitInv
  OBVIOUS
<1>1. TypeInv
  BY TypeInvInit
<1>2. Heard = {}
  BY DEF Init, Heard
<1>3. Held /\ Current
  BY <1>2 DEF Held, Current, Open
<1>4. Remembered
  BY DEF Init, Remembered
<1>5. Done /\ MarkLags
  BY DEF Init, Done, MarkLags, ClockMinutes
<1> QED
  BY <1>1, <1>3, <1>4, <1>5 DEF CommitInv

(* What is committed stays, as long as nothing is written or heard.        *)
LEMMA DoneStays ==
  ASSUME Done, UNCHANGED <<minuteOf, era, mark, row>>, gone \subseteq gone'
  PROVE  Done'
<1> SUFFICES ASSUME NEW m \in ClockMinutes, NEW f \in Families,
                    m <= mark, Uncut(m, f)'
             PROVE  Of(m, StreamOf(f))' \ gone' \subseteq row[m][f]
  BY DEF Done
<1>1. Uncut(m, f) /\ Of(m, StreamOf(f))' = Of(m, StreamOf(f))
  BY DEF Uncut, Of, StreamOf
<1> QED
  BY <1>1 DEF Done

(* A step that may lose events says which.                                 *)
LEMMA LossIsBooked ==
  ASSUME gone' = gone \union LostNow, UNCHANGED <<minuteOf, mark>>
  PROVE  \A e \in Events :
           e \in Heard /\ e \notin gone' /\ minuteOf[e] > mark =>
             e \in mem' \/ Tables(e)'
<1> SUFFICES ASSUME NEW e \in Heard, e \notin gone', minuteOf[e] > mark,
                    e \notin mem'
             PROVE  Tables(e)'
  OBVIOUS
<1>1. e \notin LostNow
  OBVIOUS
<1>2. \A f \in Families : e \in StreamOf(f) => e \in rows'[f]
  BY <1>1 DEF LostNow
<1> QED
  BY <1>2 DEF Tables, StreamOf

(* Every step preserves CommitInv.                                         *)
LEMMA CommitInvStep ==
  ASSUME Delay < SafetyLag
  PROVE  CommitInv /\ [Next]_vars => CommitInv'
<1> SUFFICES ASSUME CommitInv, [Next]_vars PROVE CommitInv'
  OBVIOUS
<1>h. /\ None \notin Events /\ Depths \intersect Liqs = {}
      /\ Events = Depths \union Liqs
  BY StreamsAssumption DEF Events
<1>t. LiveTypeOK /\ Handled /\ Tabled /\ (cur # None => cur \in Heard)
  BY DEF CommitInv, TypeInv
<1>i. Held /\ Current /\ Remembered /\ Done /\ MarkLags
  BY DEF CommitInv
<1>0. TypeInv'
  BY TypeInvStep DEF CommitInv
<1>1. CASE Tick
  <2>1. Held' /\ Current'
    BY <1>1, <1>i DEF Tick, handler, history, Held, Current, Open, Tables, Heard
  <2>2. Remembered' /\ MarkLags'
    BY <1>1, <1>i, <1>t, TimesAssumption
    DEF Tick, handler, history, Remembered, MarkLags, Heard, LiveTypeOK,
        ClockMinutes
  <2>3. Done'
    BY <1>1, <1>i, DoneStays DEF Tick, history
  <2> QED
    BY <1>0, <2>1, <2>2, <2>3 DEF CommitInv
<1>2. ASSUME NEW e \in Events, Receive(e) PROVE CommitInv'
  <2>1. PICK m \in ClockMinutes : /\ m <= clock /\ clock <= m + Delay
                                  /\ minuteOf' = [minuteOf EXCEPT ![e] = m]
    BY <1>2 DEF Receive
  <2>2. m # None /\ m \in Nat /\ clock \in Nat /\ mark \in Int /\ mark < m
    BY <1>i, <1>t, <2>1, TimesAssumption
    DEF ClockMinutes, LiveTypeOK, MarkLags
  <2>3. /\ Heard' = Heard \union {e} /\ e \notin Heard /\ cur = None
        /\ cur' = e /\ mem \subseteq mem' /\ mem' \subseteq mem \union {e}
        /\ UNCHANGED <<rows, mark, row, restarts, gone>>
        /\ era' = [era EXCEPT ![e] = restarts]
    BY <1>2, <1>t, <2>1, <2>2 DEF Receive, Heard, LiveTypeOK, depthBook
  <2>4. ASSUME NEW d \in Events, Open(d)'
        PROVE  Open(d) /\ era'[d] = era[d]
    BY <2>1, <2>3, <2>4, <1>t, <1>h DEF Open, Heard, LiveTypeOK
  <2>5. Held' /\ Current'
    BY <1>i, <2>3, <2>4 DEF Held, Current, Tables
  <2>6. Remembered' /\ MarkLags'
    BY <1>2, <1>i, <1>t, <2>3, TimesAssumption
    DEF Receive, Remembered, MarkLags, LiveTypeOK
  <2>7. Done'
    <3> SUFFICES ASSUME NEW k \in ClockMinutes, NEW f \in Families,
                        k <= mark, Uncut(k, f)'
                 PROVE  Of(k, StreamOf(f))' \ gone \subseteq row[k][f]
      BY <2>3 DEF Done
    <3>1. Of(k, StreamOf(f))' = Of(k, StreamOf(f))
      <4>1. k # m
        BY <2>2 DEF ClockMinutes
      <4>2. minuteOf[e] # k
        BY <1>t, <2>3, TimesAssumption DEF Heard, ClockMinutes
      <4>3. \A d \in Events : minuteOf'[d] = k <=> minuteOf[d] = k
        BY <1>t, <2>1, <4>1, <4>2 DEF LiveTypeOK
      <4>4. StreamOf(f) \subseteq Events
        BY <1>h DEF StreamOf
      <4> QED
        BY <4>3, <4>4 DEF Of, StreamOf
    <3>2. e \notin Of(k, StreamOf(f))
      BY <1>t, <2>3, TimesAssumption DEF Of, Heard, ClockMinutes
    <3>3. Uncut(k, f)
      BY <1>t, <2>3, <3>1, <3>2, <1>h DEF Uncut, Of, StreamOf, LiveTypeOK
    <3> QED
      BY <1>i, <3>1, <3>3 DEF Done
  <2> QED
    BY <1>0, <2>5, <2>6, <2>7 DEF CommitInv
<1>3. CASE Beat
  <2>1. todo # <<>> /\ Head(todo) = "beat" /\ StepDone
    BY <1>3 DEF Beat, At
  <2>2. cur' = cur /\ cur \in Heard /\ cur # None
    BY <1>t, <1>h, <2>1, HandlerGoesOn
  <2>3. Held' /\ Current'
    BY <1>3, <1>i, <2>2
    DEF Beat, depthBook, history, Held, Current, Open, Tables, Heard
  <2>4. Remembered' /\ MarkLags' /\ Done'
    BY <1>3, <1>i, <2>2, DoneStays
    DEF Beat, history, Remembered, MarkLags, Heard
  <2> QED
    BY <1>0, <2>3, <2>4 DEF CommitInv
<1>4. CASE Book
  <2>1. todo # <<>> /\ Head(todo) = "book" /\ StepDone
    BY <1>4 DEF Book, At
  <2>2. cur \in mem /\ cur' = None
    BY <1>t, <2>1, HandlerGoesOn
  <2>3. Held' /\ Current'
    BY <1>4, <1>i, <2>2
    DEF Book, history, Held, Current, Open, Tables, Heard
  <2>4. Remembered' /\ MarkLags' /\ Done'
    BY <1>4, <1>i, <2>2, DoneStays
    DEF Book, history, Remembered, MarkLags, Heard
  <2> QED
    BY <1>0, <2>3, <2>4 DEF CommitInv
<1>5. CASE StoreFails
  <2>1. /\ UNCHANGED <<clock, minuteOf, mem, rows, row, mark, restarts, era>>
        /\ cur' = None /\ gone' = gone \union LostNow
    BY <1>5 DEF StoreFails
  <2>2. Heard' = Heard
    BY <2>1 DEF Heard
  <2>3. Held'
    BY <2>1, <2>2, LossIsBooked DEF Held, Open
  <2>4. Current'
    <3> SUFFICES ASSUME NEW e \in Events, Open(e)', era[e] = restarts
                 PROVE  e \in mem
      BY <2>1 DEF Current
    <3>1. CASE e # cur
      BY <1>i, <2>1, <2>2, <3>1 DEF Current, Open
    <3>2. CASE e = cur
      <4>1. e \in mem \/ (e \in Liqs /\ e \notin rows["liq"])
        BY <1>t, <1>h, <3>2 DEF Handled
      <4>2. e \in mem \/ Tables(e)'
        BY <2>1, <2>2, LossIsBooked DEF Open
      <4> QED
        BY <2>1, <4>1, <4>2 DEF Tables, StreamOf, Families
    <3> QED
      BY <3>1, <3>2
  <2>5. Remembered' /\ MarkLags' /\ Done'
    BY <1>i, <2>1, <2>2, DoneStays DEF Remembered, MarkLags
  <2> QED
    BY <1>0, <2>3, <2>4, <2>5 DEF CommitInv
<1>6. ASSUME NEW f \in Families, AppendRow(f) PROVE CommitInv'
  <2>1. todo # <<>> /\ Head(todo) = f /\ StepDone
    BY <1>6 DEF AppendRow, At
  <2>2. cur \in mem /\ (cur' = cur \/ cur' = None) /\ cur \in Heard
    BY <1>t, <1>h, <2>1, HandlerGoesOn
    DEF Handled, DepthSteps, Families
  <2>3. /\ UNCHANGED <<clock, minuteOf, mem, row, mark, restarts, era, gone>>
        /\ rows' = [rows EXCEPT ![f] = @ \union {cur}]
    BY <1>6 DEF AppendRow, history
  <2>4. \A g \in Families : rows[g] \subseteq rows'[g]
    BY <1>t, <2>3 DEF LiveTypeOK
  <2>5. Held' /\ Current'
    BY <1>i, <2>2, <2>3, <2>4
    DEF Held, Current, Open, Tables, Heard, StreamOf
  <2>6. Remembered' /\ MarkLags' /\ Done'
    BY <1>i, <2>2, <2>3, DoneStays DEF Remembered, MarkLags, Heard
  <2> QED
    BY <1>0, <2>5, <2>6 DEF CommitInv
<1>7. CASE Restart
  <2>1. /\ UNCHANGED <<clock, minuteOf, rows, row, mark, era>>
        /\ cur' = None /\ gone' = gone \union LostNow /\ mem' = {}
        /\ restarts' = restarts + 1
    BY <1>7 DEF Restart
  <2>2. Heard' = Heard
    BY <2>1 DEF Heard
  <2>3. Held'
    BY <2>1, <2>2, LossIsBooked DEF Held, Open
  <2>4. Current' /\ Remembered'
    BY <1>i, <1>t, <2>1, TimesAssumption
    DEF Current, Remembered, LiveTypeOK
  <2>5. MarkLags' /\ Done'
    BY <1>i, <2>1, DoneStays DEF MarkLags
  <2> QED
    BY <1>0, <2>3, <2>4, <2>5 DEF CommitInv
<1>8. CASE Cleanup
  <2>1. /\ UNCHANGED <<clock, minuteOf, cur, mem, row, mark, restarts, era>>
        /\ gone' = gone \union LostNow
    BY <1>8 DEF Cleanup, handler
  <2>2. Heard' = Heard
    BY <2>1 DEF Heard
  <2>3. Held'
    BY <2>1, <2>2, LossIsBooked DEF Held, Open
  <2>4. Current' /\ Remembered'
    BY <1>i, <2>1, <2>2 DEF Current, Remembered, Open
  <2>5. MarkLags' /\ Done'
    BY <1>i, <2>1, DoneStays DEF MarkLags
  <2> QED
    BY <1>0, <2>3, <2>4, <2>5 DEF CommitInv
<1>9. CASE WriteMinute
  <2> DEFINE n == mark + 1
  <2>1. /\ cur = None /\ n + SafetyLag <= clock
        /\ row' = [row EXCEPT ![n] = MergeLive(row[n], Snapshot(n))]
        /\ mark' \in {mark, n}
        /\ UNCHANGED <<clock, minuteOf, cur, mem, rows, restarts, era, gone>>
    BY <1>9 DEF WriteMinute, handler, history
  <2>2. n \in ClockMinutes /\ mark \in Int /\ mark < n
    BY <1>t, <2>1, TimesAssumption DEF LiveTypeOK, ClockMinutes
  <2>3. \A e \in Events : Open(e)' => Open(e)
    BY <1>t, <2>1, <2>2, TimesAssumption DEF Open, Heard, LiveTypeOK, ClockMinutes
  <2>4. Held' /\ Current'
    BY <1>i, <2>1, <2>3 DEF Held, Current, Tables, StreamOf
  <2>5. Remembered' /\ MarkLags'
    BY <1>i, <2>1 DEF Remembered, MarkLags, Heard
  <2>6. Done'
    <3> SUFFICES ASSUME NEW m \in ClockMinutes, NEW f \in Families,
                        m <= mark', Uncut(m, f)'
                 PROVE  Of(m, StreamOf(f))' \ gone' \subseteq row'[m][f]
      BY DEF Done
    <3>1. Uncut(m, f) /\ Of(m, StreamOf(f))' = Of(m, StreamOf(f))
      BY <2>1 DEF Uncut, Of, StreamOf
    <3>2. CASE m <= mark
      <4>1. m # n
        BY <2>2, <3>2 DEF ClockMinutes
      <4> QED
        BY <1>i, <1>t, <2>1, <3>1, <3>2, <4>1 DEF Done, LiveTypeOK
    <3>3. CASE m = n
      <4>1. row'[m][f] = IF Collected(m, f) # {} THEN Collected(m, f)
                         ELSE row[m][f]
        BY <1>t, <2>1, <2>2, <3>3
        DEF LiveTypeOK, MergeLive, Snapshot, Families
      <4>2. ASSUME NEW e \in Of(m, StreamOf(f)), e \notin gone
            PROVE  e \in Collected(m, f)
        <5>1. /\ e \in Events /\ e \in Heard /\ e \in StreamOf(f)
              /\ minuteOf[e] = m /\ Open(e)
          BY <1>h, <2>1, <2>2, <3>3, <4>2, TimesAssumption
          DEF Of, StreamOf, Heard, Open, ClockMinutes
        <5>2. CASE Of(m, mem \intersect StreamOf(f)) # {}
          <6>1. PICK d \in Of(m, mem \intersect StreamOf(f)) : TRUE
            BY <5>2
          <6>2. d \in Of(m, StreamOf(f)) /\ era[d] = restarts
            BY <1>i, <6>1 DEF Of, Remembered
          <6>3. era[e] = restarts
            BY <3>1, <4>2, <6>2 DEF Uncut
          <6>4. e \in mem
            BY <1>i, <5>1, <6>3 DEF Current
          <6> QED
            BY <5>1, <5>2, <6>4 DEF Collected, Of
        <5>3. CASE Of(m, mem \intersect StreamOf(f)) = {}
          <6>1. e \notin mem
            BY <5>1, <5>3 DEF Of
          <6>2. e \in rows[f]
            BY <1>i, <5>1, <6>1 DEF Held, Tables
          <6> QED
            BY <5>1, <5>3, <6>2 DEF Collected, Of
        <5> QED
          BY <5>2, <5>3
      <4> QED
        BY <2>1, <3>1, <4>1, <4>2
    <3> QED
      BY <2>1, <2>2, <3>2, <3>3 DEF ClockMinutes
  <2> QED
    BY <1>0, <2>4, <2>5, <2>6 DEF CommitInv
<1>10. CASE UNCHANGED vars
  <2>1. Held' /\ Current' /\ Remembered' /\ MarkLags'
    BY <1>10, <1>i
    DEF vars, handler, history, Held, Current, Remembered, MarkLags, Open,
        Tables, Heard, StreamOf
  <2>2. Done'
    BY <1>10, <1>i, DoneStays DEF vars, history
  <2> QED
    BY <1>0, <2>1, <2>2 DEF CommitInv
<1> QED
  BY <1>1, <1>2, <1>3, <1>4, <1>5, <1>6, <1>7, <1>8, <1>9, <1>10 DEF Next

(* A committed minute has all its events that were not lost before, if the *)
(* safety lag is longer than an event may be late: through restarts, late  *)
(* events, failing transactions and retention (snapshot_for_minute).       *)
THEOREM CommittedMinutesAreComplete ==
  ASSUME Delay < SafetyLag
  PROVE  Spec => []CommittedMinuteComplete
<1>1. CommitInv => CommittedMinuteComplete
  BY DEF CommitInv, Done, CommittedMinuteComplete
<1>2. CommitInv /\ [Next]_vars => CommitInv'
  BY CommitInvStep
<1> QED
  BY <1>1, <1>2, CommitInvInit, PTL DEF Spec

-----------------------------------------------------------------------------
(* The columns of a minute, in memory and in SQLite (MinuteFeatures).      *)

(* A bag of members of a set.                                              *)
Rows(b, S) ==
  /\ IsFiniteSet(DOMAIN b) /\ DOMAIN b \subseteq S
  /\ b = [y \in DOMAIN b |-> b[y]]
  /\ \A y \in DOMAIN b : b[y] \in Nat \ {0}

LEMMA NoRows ==
  ASSUME NEW S
  PROVE  /\ Rows(<<>>, S) /\ DOMAIN <<>> = {}
         /\ \A b : Rows(b, S) /\ DOMAIN b = {} => b = <<>>
<1>1. DOMAIN <<>> = {} /\ <<>> = [y \in {} |-> <<>>[y]]
  OBVIOUS
<1>2. ASSUME NEW b, Rows(b, S), DOMAIN b = {} PROVE b = <<>>
  BY <1>2 DEF Rows
<1>3. Rows(<<>>, S)
  BY <1>1, FS_EmptySet DEF Rows
<1> QED
  BY <1>1, <1>2, <1>3

(* What BagAdd does.                                                       *)
Added(S, b, x) ==
  /\ Rows(BagAdd(b, x), S)
  /\ DOMAIN BagAdd(b, x) = DOMAIN b \union {x}
  /\ BagAdd(b, x)[x] = IF x \in DOMAIN b THEN b[x] + 1 ELSE 1
  /\ \A y \in DOMAIN b : y # x => BagAdd(b, x)[y] = b[y]

LEMMA AddedRow ==
  ASSUME NEW S, NEW b, Rows(b, S), NEW x \in S
  PROVE  Added(S, b, x)
<1> DEFINE a == BagAdd(b, x)
<1>1. CASE x \in DOMAIN b
  <2>1. a = [e \in DOMAIN b |-> IF e = x THEN b[e] + 1 ELSE b[e]]
    BY <1>1 DEF BagAdd
  <2>2. DOMAIN b \union {x} = DOMAIN b
    BY <1>1
  <2> HIDE DEF a
  <2>3. \A y \in DOMAIN a : a[y] \in Nat \ {0}
    BY <2>1 DEF Rows
  <2>4. Rows(a, S)
    BY <2>1, <2>3 DEF Rows
  <2> QED
    BY <1>1, <2>1, <2>2, <2>4 DEF a, Added
<1>2. CASE x \notin DOMAIN b
  <2>1. a = [e \in DOMAIN b \union {x} |-> IF e = x THEN 1 ELSE b[e]]
    BY <1>2 DEF BagAdd
  <2>2. IsFiniteSet(DOMAIN b \union {x})
    BY FS_AddElement DEF Rows
  <2> HIDE DEF a
  <2>3. \A y \in DOMAIN a : a[y] \in Nat \ {0}
    BY <2>1 DEF Rows
  <2>4. Rows(a, S)
    BY <2>1, <2>2, <2>3 DEF Rows
  <2> QED
    BY <1>2, <2>1, <2>4 DEF a, Added
<1> QED
  BY <1>1, <1>2

(* The rows within a set.                                                  *)
Among(b, Q) == Restrict(b, { y \in DOMAIN b : y \in Q })

LEMMA AmongRows ==
  ASSUME NEW S, NEW b, Rows(b, S), NEW Q
  PROVE  Rows(Among(b, Q), S) /\ DOMAIN Among(b, Q) = DOMAIN b \intersect Q
         /\ \A y \in DOMAIN b \intersect Q : Among(b, Q)[y] = b[y]
<1>1. IsFiniteSet(DOMAIN b \intersect Q)
  BY FS_Subset DEF Rows
<1>2. Among(b, Q) = [y \in DOMAIN b \intersect Q |-> b[y]]
  BY DEF Among, Restrict
<1> QED
  BY <1>1, <1>2 DEF Rows

LEMMA AmongAdded ==
  ASSUME NEW S, NEW b, Rows(b, S), NEW x \in S, NEW Q
  PROVE  Among(BagAdd(b, x), Q) = IF x \in Q THEN BagAdd(Among(b, Q), x) ELSE Among(b, Q)
<1> DEFINE a == BagAdd(b, x)
           r == Among(b, Q)
<1>1. /\ DOMAIN a = DOMAIN b \union {x}
      /\ a[x] = IF x \in DOMAIN b THEN b[x] + 1 ELSE 1
      /\ \A y \in DOMAIN b : y # x => a[y] = b[y]
      /\ Rows(r, S) /\ DOMAIN r = DOMAIN b \intersect Q
      /\ \A y \in DOMAIN b \intersect Q : r[y] = b[y]
  <2>1. /\ DOMAIN a = DOMAIN b \union {x}
        /\ a[x] = IF x \in DOMAIN b THEN b[x] + 1 ELSE 1
        /\ \A y \in DOMAIN b : y # x => a[y] = b[y]
    <3>1. Added(S, b, x)
      BY AddedRow
    <3> QED BY <3>1 DEF Added
  <2>2. /\ Rows(r, S) /\ DOMAIN r = DOMAIN b \intersect Q
        /\ \A y \in DOMAIN b \intersect Q : r[y] = b[y]
    BY AmongRows
  <2> HIDE DEF a, r
  <2> QED BY <2>1, <2>2
<1>2. Among(a, Q) = [y \in DOMAIN a \intersect Q |-> a[y]]
  BY DEF Among, Restrict
<1>3. CASE x \in Q
  <2>1. /\ DOMAIN BagAdd(r, x) = DOMAIN r \union {x}
        /\ BagAdd(r, x)[x] = IF x \in DOMAIN r THEN r[x] + 1 ELSE 1
        /\ \A y \in DOMAIN r : y # x => BagAdd(r, x)[y] = r[y]
        /\ BagAdd(r, x) = [y \in DOMAIN BagAdd(r, x) |-> BagAdd(r, x)[y]]
    <3> HIDE DEF r, a
    <3>1. /\ DOMAIN BagAdd(r, x) = DOMAIN r \union {x}
          /\ BagAdd(r, x)[x] = IF x \in DOMAIN r THEN r[x] + 1 ELSE 1
          /\ \A y \in DOMAIN r : y # x => BagAdd(r, x)[y] = r[y]
          /\ Rows(BagAdd(r, x), S)
      <4>1. Added(S, r, x)
        BY <1>1, AddedRow
      <4> QED BY <4>1 DEF Added
    <3> QED BY <3>1 DEF Rows
  <2> HIDE DEF a, r
  <2>2. DOMAIN a \intersect Q = DOMAIN r \union {x}
    BY <1>1, <1>3
  <2>3. \A y \in DOMAIN r \union {x} : a[y] = BagAdd(r, x)[y]
    BY <1>1, <1>3, <2>1
  <2>4. Among(a, Q) = BagAdd(r, x)
    BY <1>2, <2>1, <2>2, <2>3
  <2> QED
    BY <1>3, <2>4 DEF a, r
<1>4. CASE x \notin Q
  <2> HIDE DEF a, r
  <2>1. DOMAIN a \intersect Q = DOMAIN r
    BY <1>1, <1>4
  <2>2. r = [y \in DOMAIN r |-> r[y]]
    BY <1>1 DEF Rows
  <2>3. Among(a, Q) = r
    BY <1>1, <1>2, <1>4, <2>1, <2>2
  <2> QED
    BY <1>4, <2>3 DEF a, r
<1> QED
  BY <1>3, <1>4

-----------------------------------------------------------------------------
(* Total, of the values of a function.                                     *)
Weigh(b, f) == SumFunction([y \in DOMAIN b |-> b[y] * f[y]])

LEMMA WeighType ==
  ASSUME NEW S, NEW b, Rows(b, S), NEW f
  PROVE  /\ (\A y \in DOMAIN b : f[y] \in Int) => Weigh(b, f) \in Int
         /\ (\A y \in DOMAIN b : f[y] \in Nat) => Weigh(b, f) \in Nat
         /\ DOMAIN b = {} => Weigh(b, f) = 0
<1> DEFINE g == [y \in DOMAIN b |-> b[y] * f[y]]
<1>1. Weigh(b, f) = SumFunctionOnSet(g, DOMAIN b)
  BY DEF Weigh, SumFunction
<1>2. IsFiniteSet(DOMAIN b) /\ \A y \in DOMAIN b : b[y] \in Nat
  BY DEF Rows
<1>3. ASSUME \A y \in DOMAIN b : f[y] \in Int PROVE Weigh(b, f) \in Int
  <2>1. \A y \in DOMAIN b : g[y] \in Int
    BY <1>2, <1>3
  <2> HIDE DEF g
  <2> QED BY <1>1, <1>2, <2>1, SumType
<1>4. ASSUME \A y \in DOMAIN b : f[y] \in Nat PROVE Weigh(b, f) \in Nat
  <2>1. \A y \in DOMAIN b : g[y] \in Nat
    BY <1>2, <1>4
  <2> HIDE DEF g
  <2> QED BY <1>1, <1>2, <2>1, SumIsNat
<1>5. DOMAIN b = {} => Weigh(b, f) = 0
  BY <1>1, SumOfNothing
<1> QED
  BY <1>3, <1>4, <1>5

LEMMA WeighAdded ==
  ASSUME NEW S, NEW b, Rows(b, S), NEW x \in S, NEW f, \A y \in S : f[y] \in Int
  PROVE  Weigh(BagAdd(b, x), f) = Weigh(b, f) + f[x]
<1> DEFINE a == BagAdd(b, x)
           D == DOMAIN b
<1>1. /\ Rows(a, S) /\ DOMAIN a = D \union {x}
      /\ a[x] = IF x \in D THEN b[x] + 1 ELSE 1
      /\ \A y \in D : y # x => a[y] = b[y]
  <2>1. Added(S, b, x)
    BY AddedRow
  <2> QED BY <2>1 DEF Added
<1> DEFINE g == [y \in D |-> b[y] * f[y]]
           h == [y \in D \union {x} |-> a[y] * f[y]]
<1>2. /\ IsFiniteSet(D) /\ D \subseteq S /\ \A y \in D : b[y] \in Int
      /\ \A y \in D \union {x} : a[y] \in Int
  BY <1>1 DEF Rows
<1>3. /\ Weigh(b, f) = SumFunctionOnSet(g, D)
      /\ Weigh(a, f) = SumFunctionOnSet(h, D \union {x})
  BY <1>1 DEF Weigh, SumFunction
<1>4. (\A y \in D : g[y] \in Int) /\ (\A y \in D \union {x} : h[y] \in Int)
  BY <1>2
<1>5. /\ \A y \in D : y # x => h[y] = g[y]
      /\ f[x] \in Int
  BY <1>1
<1>6. CASE x \in D
  <2>1. h[x] - g[x] = f[x]
    <3>1. h[x] = (b[x] + 1) * f[x] /\ g[x] = b[x] * f[x] /\ b[x] \in Int
      BY <1>1, <1>2, <1>6
    <3> HIDE DEF h, g
    <3> QED BY <1>5, <3>1
  <2>2. D \union {x} = D
    BY <1>6
  <2> HIDE DEF g, h, D
  <2>3. SumFunctionOnSet(h, D) = SumFunctionOnSet(g, D) + (h[x] - g[x])
    BY <1>2, <1>4, <1>5, <1>6, <2>2, SumChanges
  <2> QED
    BY <1>3, <2>1, <2>2, <2>3
<1>7. CASE x \notin D
  <2>1. h[x] = f[x]
    <3>1. h[x] = 1 * f[x]
      BY <1>1, <1>7
    <3> HIDE DEF h
    <3> QED BY <1>5, <3>1
  <2>2. \A y \in D : h[y] = g[y]
    BY <1>5, <1>7
  <2> HIDE DEF g, h, D
  <2>3. SumFunctionOnSet(h, D \union {x}) = SumFunctionOnSet(h, D) + h[x]
    BY <1>2, <1>4, <1>7, SumGrows
  <2>4. SumFunctionOnSet(h, D) = SumFunctionOnSet(g, D)
    BY <1>2, <2>2, SumAgrees
  <2> QED
    BY <1>3, <2>1, <2>3, <2>4
<1> QED
  BY <1>6, <1>7

-----------------------------------------------------------------------------
(* Values, for a function.                                                 *)
ValuesOf(b, f) ==
  [v \in { f[y] : y \in DOMAIN b } |->
     SumFunctionOnSet(b, { y \in DOMAIN b : f[y] = v })]

LEMMA ValuesAdded ==
  ASSUME NEW S, NEW b, Rows(b, S), NEW x \in S, NEW f
  PROVE  ValuesOf(BagAdd(b, x), f) = BagAdd(ValuesOf(b, f), f[x])
<1> DEFINE a == BagAdd(b, x)
           D == DOMAIN b
           of(v) == { y \in D : f[y] = v }
           ofA(v) == { y \in D \union {x} : f[y] = v }
           V == ValuesOf(b, f)
<1>1. /\ Rows(a, S) /\ DOMAIN a = D \union {x}
      /\ a[x] = IF x \in D THEN b[x] + 1 ELSE 1
      /\ \A y \in D : y # x => a[y] = b[y]
  <2>1. Added(S, b, x)
    BY AddedRow
  <2> QED BY <2>1 DEF Added
<1>2. /\ IsFiniteSet(D) /\ \A y \in D : b[y] \in Int
      /\ \A y \in D \union {x} : a[y] \in Int
  BY <1>1 DEF Rows
<1>3. /\ DOMAIN V = { f[y] : y \in D }
      /\ \A v \in DOMAIN V : V[v] = SumFunctionOnSet(b, of(v))
  BY DEF ValuesOf
<1>4. ASSUME NEW v, v # f[x]
      PROVE  SumFunctionOnSet(a, ofA(v)) = SumFunctionOnSet(b, of(v))
  <2>1. ofA(v) = of(v) /\ IsFiniteSet(of(v)) /\ \A y \in of(v) : a[y] = b[y]
    BY <1>1, <1>2, <1>4, FS_Subset
  <2> HIDE DEF a, of, ofA
  <2> QED BY <2>1, SumAgrees
<1>5. SumFunctionOnSet(a, ofA(f[x])) = SumFunctionOnSet(b, of(f[x])) + 1
  <2> DEFINE U == of(f[x])
  <2>1. IsFiniteSet(U) /\ U \subseteq D
    BY <1>2, FS_Subset
  <2>2. SumFunctionOnSet(b, U) \in Int
    <3> HIDE DEF U
    <3> QED BY <1>2, <2>1, SumType
  <2>3. CASE x \in D
    <3>1. ofA(f[x]) = U /\ x \in U /\ (D \union {x}) = D
      BY <2>3
    <3>2. (\A y \in U : b[y] \in Int /\ a[y] \in Int) /\ (\A y \in U \ {x} : b[y] = a[y])
      BY <1>1, <1>2, <2>1
    <3>3. a[x] - b[x] = 1
      BY <1>1, <1>2, <2>3
    <3> HIDE DEF U, a, ofA, D
    <3>4. SumFunctionOnSet(a, U) = SumFunctionOnSet(b, U) + (a[x] - b[x])
      BY <2>1, <3>1, <3>2, SumChanges
    <3>5. SumFunctionOnSet(a, ofA(f[x])) = SumFunctionOnSet(b, U) + 1
      BY <3>1, <3>3, <3>4
    <3> QED BY <3>5 DEF U
  <2>4. CASE x \notin D
    <3>1. ofA(f[x]) = U \union {x} /\ x \notin U
      BY <2>4
    <3>2. (\A y \in U \union {x} : a[y] \in Int) /\ (\A y \in U : a[y] = b[y]) /\ a[x] = 1
      BY <1>1, <1>2, <2>1, <2>4
    <3> HIDE DEF U, a, ofA, D
    <3>3. SumFunctionOnSet(a, U \union {x}) = SumFunctionOnSet(a, U) + a[x]
      BY <2>1, <3>1, <3>2, SumGrows
    <3>4. SumFunctionOnSet(a, U) = SumFunctionOnSet(b, U)
      BY <2>1, <3>2, SumAgrees
    <3>5. SumFunctionOnSet(a, ofA(f[x])) = SumFunctionOnSet(b, U) + 1
      BY <3>1, <3>2, <3>3, <3>4
    <3> QED BY <3>5 DEF U
  <2> QED BY <2>3, <2>4
<1>6. ValuesOf(a, f) = [v \in { f[y] : y \in D \union {x} } |-> SumFunctionOnSet(a, ofA(v))]
  BY <1>1 DEF ValuesOf
<1>7. CASE f[x] \in DOMAIN V
  <2>1. { f[y] : y \in D \union {x} } = DOMAIN V
    BY <1>3, <1>7
  <2>2. BagAdd(V, f[x]) = [v \in DOMAIN V |-> IF v = f[x] THEN V[v] + 1 ELSE V[v]]
    BY <1>7 DEF BagAdd
  <2>3. \A v \in DOMAIN V : SumFunctionOnSet(a, ofA(v)) = IF v = f[x] THEN V[v] + 1 ELSE V[v]
    <3> HIDE DEF a, V, ofA, of, D
    <3> QED BY <1>3, <1>4, <1>5
  <2> HIDE DEF a, V, ofA, D
  <2>4. ValuesOf(a, f) = BagAdd(V, f[x])
    BY <1>6, <2>1, <2>2, <2>3
  <2> QED BY <2>4 DEF a, V
<1>8. CASE f[x] \notin DOMAIN V
  <2>1. { f[y] : y \in D \union {x} } = DOMAIN V \union {f[x]} /\ of(f[x]) = {}
    BY <1>3, <1>8
  <2>2. BagAdd(V, f[x]) = [v \in DOMAIN V \union {f[x]} |-> IF v = f[x] THEN 1 ELSE V[v]]
    BY <1>8 DEF BagAdd
  <2>3. \A v \in DOMAIN V \union {f[x]} :
           SumFunctionOnSet(a, ofA(v)) = IF v = f[x] THEN 1 ELSE V[v]
    <3>1. SumFunctionOnSet(b, of(f[x])) = 0
      BY <2>1, SumOfNothing
    <3> HIDE DEF a, V, ofA, of, D
    <3> QED BY <1>3, <1>4, <1>5, <3>1
  <2> HIDE DEF a, V, ofA, D
  <2>4. ValuesOf(a, f) = BagAdd(V, f[x])
    BY <1>6, <2>1, <2>2, <2>3
  <2> QED BY <2>4 DEF a, V
<1> QED
  BY <1>7, <1>8

-----------------------------------------------------------------------------
(* The extremes that the bucket keeps are those of all events so far.      *)
LEMMA LargestSoFar ==
  ASSUME NEW S \in SUBSET Int, IsFiniteSet(S), NEW x \in Int
  PROVE  /\ MaxOrMissing(S \union {x}) = Larger(MaxOrMissing(S), x)
         /\ MaxOrMissing(S \union {x}) \in Int
<1>1. ASSUME NEW T \in SUBSET Int, NEW g \in T, \A k \in T : g >= k
      PROVE  MaxOrMissing(T) = g
  <2>1. ASSUME NEW h \in T, \A k \in T : h >= k PROVE h = g
    <3>1. h >= g /\ g >= h /\ h \in Int /\ g \in Int
      BY <1>1, <2>1
    <3> QED BY <3>1
  <2>2. Max(T) = g
    BY <1>1, <2>1 DEF Max
  <2> QED BY <2>2 DEF MaxOrMissing
<1>2. CASE S = {}
  <2>1. MaxOrMissing({x}) = x
    BY <1>1
  <2> QED
    BY <1>2, <2>1 DEF MaxOrMissing, Larger
<1>3. CASE S # {}
  <2>1. PICK g \in S : \A k \in S : g >= k
    BY <1>3, FiniteExtremes
  <2>2. MaxOrMissing(S) = g /\ g \in Int /\ g # Missing
    BY <1>1, <2>1, LimitsAssumption
  <2> DEFINE h == IF g <= x THEN x ELSE g
  <2>3. h \in S \union {x} /\ h \in Int /\ \A k \in S \union {x} : h >= k
    <3>1. \A k \in S : g >= k /\ k \in Int
      BY <2>1
    <3> QED BY <2>2, <3>1
  <2>4. Max({g, x}) = h
    BY <2>2, OfTwo DEF Max
  <2> HIDE DEF h
  <2>5. MaxOrMissing(S \union {x}) = h
    BY <1>1, <2>3
  <2> QED
    BY <2>2, <2>3, <2>4, <2>5 DEF Larger
<1> QED
  BY <1>2, <1>3

LEMMA SmallestSoFar ==
  ASSUME NEW S \in SUBSET Int, IsFiniteSet(S), NEW x \in Int
  PROVE  /\ MinOrMissing(S \union {x}) = Smaller(MinOrMissing(S), x)
         /\ MinOrMissing(S \union {x}) \in Int
<1>1. ASSUME NEW T \in SUBSET Int, NEW g \in T, \A k \in T : g <= k
      PROVE  MinOrMissing(T) = g
  <2>1. ASSUME NEW h \in T, \A k \in T : h <= k PROVE h = g
    <3>1. h <= g /\ g <= h /\ h \in Int /\ g \in Int
      BY <1>1, <2>1
    <3> QED BY <3>1
  <2>2. Min(T) = g
    BY <1>1, <2>1 DEF Min
  <2> QED BY <2>2 DEF MinOrMissing
<1>2. CASE S = {}
  <2>1. MinOrMissing({x}) = x
    BY <1>1
  <2> QED
    BY <1>2, <2>1 DEF MinOrMissing, Smaller
<1>3. CASE S # {}
  <2>1. PICK g \in S : \A k \in S : g <= k
    BY <1>3, FiniteExtremes
  <2>2. MinOrMissing(S) = g /\ g \in Int /\ g # Missing
    BY <1>1, <2>1, LimitsAssumption
  <2> DEFINE h == IF g <= x THEN g ELSE x
  <2>3. h \in S \union {x} /\ h \in Int /\ \A k \in S \union {x} : h <= k
    <3>1. \A k \in S : g <= k /\ k \in Int
      BY <2>1
    <3> QED BY <2>2, <3>1
  <2>4. Min({g, x}) = h
    BY <2>2, OfTwo DEF Min
  <2> HIDE DEF h
  <2>5. MinOrMissing(S \union {x}) = h
    BY <1>1, <2>3
  <2> QED
    BY <2>2, <2>3, <2>4, <2>5 DEF Smaller
<1> QED
  BY <1>2, <1>3

-----------------------------------------------------------------------------
(* The bucket that the rows of a minute account for.                       *)
TakenDepths == { p \in DepthPayloads : TakesDepth(p) }
TakenLiqs   == { o \in LiqPayloads : TakesLiq(o) }

EventTimes(b)    == { p.E : p \in DOMAIN b }
TransactTimes(b) == { p.T : p \in DOMAIN b }
ArrivalTimes(b)  == { p.A : p \in DOMAIN b }
FirstIds(b)      == { p.U : p \in DOMAIN b }
FinalIds(b)      == { p.u : p \in DOMAIN b }
AnySlow(b)       == \E p \in DOMAIN b : Slow(p)
AllTold(b)       == \A o \in DOMAIN b : o.l # Missing

BucketOf(d, q, orig, executed) ==
  [event_time      |-> MaxOrMissing(EventTimes(d)),
   transact_time   |-> MaxOrMissing(TransactTimes(Timed(d))),
   arrival_time    |-> MaxOrMissing(ArrivalTimes(d)),
   engine          |-> EngineLatencies(Timed(d)),
   network         |-> NetworkLatencies(Timed(d)),
   bad             |-> AnySlow(Timed(d)),
   depth_events    |-> Count(d),
   update_id_start |-> MinOrMissing(FirstIds(d)),
   update_id_end   |-> MaxOrMissing(FinalIds(d)),
   long_vol        |-> Turnover(OfSide(q, "SELL")),
   short_vol       |-> Turnover(OfSide(q, "BUY")),
   long_count      |-> Count(OfSide(q, "SELL")),
   short_count     |-> Count(OfSide(q, "BUY")),
   qty             |-> Quantity(q),
   weighted        |-> Turnover(q),
   supported       |-> AllTold(q),
   orig            |-> orig,
   executed        |-> executed]

(* The running totals of the bucket are those of its rows; orig and        *)
(* executed stop with the first order that does not say what was filled.   *)
FeaturesInv ==
  /\ Rows(depthRows, TakenDepths) /\ Count(depthRows) <= MaxDepths
  /\ Rows(liqRows, TakenLiqs) /\ Count(liqRows) <= MaxLiqs
  /\ Count(OfSide(liqRows, "SELL")) + Count(OfSide(liqRows, "BUY")) = Count(liqRows)
  /\ bucket = BucketOf(depthRows, liqRows, bucket.orig, bucket.executed)
  /\ bucket.supported =>
       /\ bucket.orig \in Int /\ bucket.executed \in Int
       /\ bucket.orig = Quantity(liqRows)
       /\ bucket.orig - bucket.executed = Total(liqRows, UnfilledOf)

(* The fields of what is taken are numbers.                                *)
LEMMA TakenFields ==
  /\ \A p \in TakenDepths :
       /\ p \in DepthPayloads /\ {p.E, p.A, p.U, p.u} \subseteq Int
       /\ p.T # Missing => p.T \in Int
  /\ \A o \in TakenLiqs :
       /\ o \in LiqPayloads /\ o.S \in {"BUY", "SELL"}
       /\ PriceOf(o) \in Int /\ o.q \in Int /\ o.q > 0
       /\ o.l # Missing => o.l \in Int
<1>1. ASSUME NEW p \in TakenDepths
      PROVE  /\ p \in DepthPayloads /\ {p.E, p.A, p.U, p.u} \subseteq Int
             /\ p.T # Missing => p.T \in Int
  BY PayloadsAssumption DEF TakenDepths, TakesDepth
<1>2. ASSUME NEW o \in TakenLiqs
      PROVE  /\ o \in LiqPayloads /\ o.S \in {"BUY", "SELL"}
             /\ PriceOf(o) \in Int /\ o.q \in Int /\ o.q > 0
             /\ o.l # Missing => o.l \in Int
  BY PayloadsAssumption DEF TakenLiqs, TakesLiq, PriceOf
<1> QED
  BY <1>1, <1>2

LEMMA CountAdded ==
  ASSUME NEW S, NEW b, Rows(b, S)
  PROVE  /\ Count(b) \in Nat /\ (Count(b) = 0 <=> b = <<>>)
         /\ \A x \in S : Count(BagAdd(b, x)) = Count(b) + 1
<1> DEFINE one == [y \in S |-> 1]
<1>1. ASSUME NEW a, Rows(a, S) PROVE Count(a) = Weigh(a, one)
  <2>1. a = [y \in DOMAIN a |-> a[y] * one[y]]
    BY <1>1 DEF Rows
  <2> HIDE DEF one
  <2> QED BY <2>1 DEF Count, Weigh
<1>2. Count(b) \in Nat
  <2>1. \A y \in DOMAIN b : one[y] \in Nat
    BY DEF Rows
  <2> HIDE DEF one
  <2> QED BY <1>1, <2>1, WeighType
<1>3. ASSUME NEW x \in S PROVE Count(BagAdd(b, x)) = Count(b) + 1
  <2>1. Rows(BagAdd(b, x), S)
    <3>1. Added(S, b, x)
      BY AddedRow
    <3> QED BY <3>1 DEF Added
  <2>2. (\A y \in S : one[y] \in Int) /\ one[x] = 1
    OBVIOUS
  <2> HIDE DEF one
  <2>3. Weigh(BagAdd(b, x), one) = Weigh(b, one) + one[x]
    BY <2>2, WeighAdded
  <2>4. Count(BagAdd(b, x)) = Weigh(BagAdd(b, x), one) /\ Count(b) = Weigh(b, one)
    BY <1>1, <2>1
  <2> QED BY <2>2, <2>3, <2>4
<1>4. DOMAIN b = {} => Count(b) = 0
  BY <1>1, WeighType
<1>5. ASSUME NEW x \in DOMAIN b PROVE Count(b) # 0
  <2>1. IsFiniteSet(DOMAIN b) /\ \A y \in DOMAIN b : b[y] \in Nat \ {0}
    BY DEF Rows
  <2>2. SumFunctionOnSet(b, DOMAIN b) = b[x] + SumFunctionOnSet(b, DOMAIN b \ {x})
    BY <2>1, SumTakes
  <2>3. SumFunctionOnSet(b, DOMAIN b \ {x}) \in Nat
    <3>1. IsFiniteSet(DOMAIN b \ {x})
      BY <2>1, FS_RemoveElement
    <3> QED BY <2>1, <3>1, SumIsNat
  <2> QED BY <2>1, <2>2, <2>3 DEF Count, SumFunction
<1>6. b = <<>> <=> DOMAIN b = {}
  BY NoRows
<1> QED
  BY <1>2, <1>3, <1>4, <1>5, <1>6

LEMMA TurnoverAdded ==
  ASSUME NEW b, Rows(b, TakenLiqs)
  PROVE  /\ Turnover(b) \in Int /\ (b = <<>> => Turnover(b) = 0)
         /\ \A x \in TakenLiqs : Turnover(BagAdd(b, x)) = Turnover(b) + Notional(x)
<1> DEFINE f == [y \in TakenLiqs |-> Notional(y)]
<1>1. ASSUME NEW a, Rows(a, TakenLiqs) PROVE Turnover(a) = Weigh(a, f)
  <2>1. [y \in DOMAIN a |-> a[y] * Notional(y)] = [y \in DOMAIN a |-> a[y] * f[y]]
    BY <1>1 DEF Rows
  <2> HIDE DEF f
  <2> QED BY <2>1 DEF Turnover, Total, Weigh
<1>2. \A y \in TakenLiqs : f[y] \in Int /\ f[y] = Notional(y)
  BY TakenFields DEF Notional
<1> HIDE DEF f
<1>3. \A y \in DOMAIN b : f[y] \in Int
  BY <1>2 DEF Rows
<1>4. Turnover(b) \in Int /\ (b = <<>> => Turnover(b) = 0)
  BY <1>1, <1>3, WeighType, NoRows
<1>5. ASSUME NEW x \in TakenLiqs
      PROVE  Turnover(BagAdd(b, x)) = Turnover(b) + Notional(x)
  <2>1. Added(TakenLiqs, b, x)
    BY AddedRow
  <2>2. Weigh(BagAdd(b, x), f) = Weigh(b, f) + f[x]
    BY <1>2, WeighAdded
  <2> QED BY <1>1, <1>2, <2>1, <2>2 DEF Added
<1> QED
  BY <1>4, <1>5

LEMMA QuantityAdded ==
  ASSUME NEW b, Rows(b, TakenLiqs)
  PROVE  /\ Quantity(b) \in Int /\ (b = <<>> => Quantity(b) = 0)
         /\ \A x \in TakenLiqs : Quantity(BagAdd(b, x)) = Quantity(b) + x.q
<1> DEFINE f == [y \in TakenLiqs |-> y.q]
<1>1. ASSUME NEW a, Rows(a, TakenLiqs) PROVE Quantity(a) = Weigh(a, f)
  <2>1. [y \in DOMAIN a |-> a[y] * y.q] = [y \in DOMAIN a |-> a[y] * f[y]]
    BY <1>1 DEF Rows
  <2> HIDE DEF f
  <2> QED BY <2>1 DEF Quantity, Total, Weigh
<1>2. \A y \in TakenLiqs : f[y] \in Int /\ f[y] = y.q
  BY TakenFields
<1> HIDE DEF f
<1>3. \A y \in DOMAIN b : f[y] \in Int
  BY <1>2 DEF Rows
<1>4. Quantity(b) \in Int /\ (b = <<>> => Quantity(b) = 0)
  BY <1>1, <1>3, WeighType, NoRows
<1>5. ASSUME NEW x \in TakenLiqs
      PROVE  Quantity(BagAdd(b, x)) = Quantity(b) + x.q
  <2>1. Added(TakenLiqs, b, x)
    BY AddedRow
  <2>2. Weigh(BagAdd(b, x), f) = Weigh(b, f) + f[x]
    BY <1>2, WeighAdded
  <2> QED BY <1>1, <1>2, <2>1, <2>2 DEF Added
<1> QED
  BY <1>4, <1>5

(* What was filled is within the order: the two ways to count what was not *)
(* are one.                                                                *)
LEMMA FilledWithin ==
  ASSUME NEW o \in TakenLiqs, o.l # Missing
  PROVE  Filled(o) \in Int /\ UnfilledOf(o) \in Int /\ UnfilledOf(o) = o.q - Filled(o)
<1>1. o.q \in Int /\ o.q > 0 /\ o.l \in Int
  BY TakenFields
<1>2. Max({o.l, 0}) = IF o.l <= 0 THEN 0 ELSE o.l
  BY <1>1, OfTwo DEF Max
<1>3. Max({o.l, 0}) \in Int
  BY <1>1, <1>2
<1>4. Filled(o) = IF Max({o.l, 0}) <= o.q THEN Max({o.l, 0}) ELSE o.q
  BY <1>1, <1>3, OfTwo DEF Min, Filled
<1>5. Filled(o) \in Int /\ o.q - Filled(o) >= 0
  BY <1>1, <1>2, <1>4
<1>6. Max({o.q - Filled(o), 0})
        = IF o.q - Filled(o) <= 0 THEN 0 ELSE o.q - Filled(o)
  BY <1>1, <1>5, OfTwo DEF Max
<1>7. UnfilledOf(o) = o.q - Filled(o)
  BY <1>1, <1>5, <1>6 DEF UnfilledOf
<1> QED
  BY <1>1, <1>5, <1>7

LEMMA UnfilledAdded ==
  ASSUME NEW b, Rows(b, TakenLiqs), NEW x \in TakenLiqs,
         \A o \in DOMAIN b \union {x} : o.l # Missing
  PROVE  /\ Total(b, UnfilledOf) \in Int
         /\ Total(BagAdd(b, x), UnfilledOf) = Total(b, UnfilledOf) + UnfilledOf(x)
<1> DEFINE S == { o \in TakenLiqs : o.l # Missing }
           f == [y \in S |-> UnfilledOf(y)]
<1>1. Rows(b, S) /\ x \in S
  BY DEF Rows
<1>2. \A y \in S : f[y] \in Int /\ f[y] = UnfilledOf(y)
  BY FilledWithin
<1> HIDE DEF S
<1>3. ASSUME NEW a, Rows(a, S) PROVE Total(a, UnfilledOf) = Weigh(a, f)
  <2>1. [y \in DOMAIN a |-> a[y] * UnfilledOf(y)] = [y \in DOMAIN a |-> a[y] * f[y]]
    BY <1>3 DEF Rows
  <2> HIDE DEF f
  <2> QED BY <2>1 DEF Total, Weigh
<1> HIDE DEF f
<1>4. \A y \in DOMAIN b : f[y] \in Int
  BY <1>1, <1>2 DEF Rows
<1>5. Total(b, UnfilledOf) \in Int
  <2>1. Weigh(b, f) \in Int
    BY <1>1, <1>4, WeighType
  <2>2. Total(b, UnfilledOf) = Weigh(b, f)
    BY <1>1, <1>3
  <2> QED BY <2>1, <2>2
<1>6. Total(BagAdd(b, x), UnfilledOf) = Total(b, UnfilledOf) + UnfilledOf(x)
  <2>1. Added(S, b, x)
    BY <1>1, AddedRow
  <2>2. Weigh(BagAdd(b, x), f) = Weigh(b, f) + f[x]
    BY <1>1, <1>2, WeighAdded
  <2>3. Rows(BagAdd(b, x), S)
    BY <2>1 DEF Added
  <2>4. Total(BagAdd(b, x), UnfilledOf) = Weigh(BagAdd(b, x), f)
    BY <1>3, <2>3
  <2>5. Total(b, UnfilledOf) = Weigh(b, f)
    BY <1>1, <1>3
  <2> QED BY <1>1, <1>2, <2>2, <2>4, <2>5
<1> QED
  BY <1>5, <1>6

LEMMA LatenciesAdded ==
  ASSUME NEW b, Rows(b, TakenDepths), NEW x \in TakenDepths
  PROVE  /\ EngineLatencies(BagAdd(b, x)) = BagAdd(EngineLatencies(b), x.A - x.E)
         /\ NetworkLatencies(BagAdd(b, x)) = BagAdd(NetworkLatencies(b), x.A - x.T)
<1> DEFINE e == [y \in TakenDepths |-> y.A - y.E]
           n == [y \in TakenDepths |-> y.A - y.T]
<1>1. ASSUME NEW a, Rows(a, TakenDepths)
      PROVE  EngineLatencies(a) = ValuesOf(a, e) /\ NetworkLatencies(a) = ValuesOf(a, n)
  <2>1. \A y \in DOMAIN a : y.A - y.E = e[y] /\ y.A - y.T = n[y]
    BY <1>1 DEF Rows
  <2> HIDE DEF e, n
  <2>2. /\ { y.A - y.E : y \in DOMAIN a } = { e[y] : y \in DOMAIN a }
        /\ { y.A - y.T : y \in DOMAIN a } = { n[y] : y \in DOMAIN a }
        /\ \A v : { y \in DOMAIN a : y.A - y.E = v } = { y \in DOMAIN a : e[y] = v }
        /\ \A v : { y \in DOMAIN a : y.A - y.T = v } = { y \in DOMAIN a : n[y] = v }
    BY <2>1
  <2> QED
    BY <2>2 DEF EngineLatencies, NetworkLatencies, Values, ValuesOf
<1>2. Rows(BagAdd(b, x), TakenDepths)
  <2>1. Added(TakenDepths, b, x)
    BY AddedRow
  <2> QED BY <2>1 DEF Added
<1>3. e[x] = x.A - x.E /\ n[x] = x.A - x.T
  OBVIOUS
<1> HIDE DEF e, n
<1>4. ValuesOf(BagAdd(b, x), e) = BagAdd(ValuesOf(b, e), e[x])
  BY ValuesAdded
<1>5. ValuesOf(BagAdd(b, x), n) = BagAdd(ValuesOf(b, n), n[x])
  BY ValuesAdded
<1> QED
  BY <1>1, <1>2, <1>3, <1>4, <1>5

(* The rows within a set of payloads, once for each of the three sets.     *)
LEMMA SubRows ==
  ASSUME NEW d, Rows(d, TakenDepths), NEW q, Rows(q, TakenLiqs)
  PROVE  /\ Rows(Timed(d), TakenDepths)
         /\ DOMAIN Timed(d) = { p \in DOMAIN d : p.T # Missing }
         /\ \A p \in TakenDepths :
              Timed(BagAdd(d, p)) = IF p.T # Missing THEN BagAdd(Timed(d), p) ELSE Timed(d)
         /\ \A s : Rows(OfSide(q, s), TakenLiqs)
         /\ \A s : DOMAIN OfSide(q, s) = { o \in DOMAIN q : o.S = s }
         /\ \A s, o : o \in TakenLiqs =>
              OfSide(BagAdd(q, o), s) = IF o.S = s THEN BagAdd(OfSide(q, s), o) ELSE OfSide(q, s)
<1> DEFINE late == { p \in TakenDepths : p.T # Missing }
           side(s) == { o \in TakenLiqs : o.S = s }
<1>1. ASSUME NEW b, Rows(b, TakenDepths)
      PROVE  /\ { p \in DOMAIN b : p.T # Missing } = { p \in DOMAIN b : p \in late }
             /\ Timed(b) = Among(b, late)
  <2>1. { p \in DOMAIN b : p.T # Missing } = { p \in DOMAIN b : p \in late }
    BY <1>1 DEF Rows
  <2> HIDE DEF late
  <2> QED BY <2>1 DEF Timed, Among
<1>2. ASSUME NEW b, Rows(b, TakenLiqs), NEW s
      PROVE  /\ { o \in DOMAIN b : o.S = s } = { o \in DOMAIN b : o \in side(s) }
             /\ OfSide(b, s) = Among(b, side(s))
  <2>1. { o \in DOMAIN b : o.S = s } = { o \in DOMAIN b : o \in side(s) }
    BY <1>2 DEF Rows
  <2> HIDE DEF side
  <2> QED BY <2>1 DEF OfSide, Among
<1>3. Rows(Timed(d), TakenDepths) /\ DOMAIN Timed(d) = { p \in DOMAIN d : p.T # Missing }
  <2>1. Rows(Among(d, late), TakenDepths) /\ DOMAIN Among(d, late) = DOMAIN d \intersect late
    <3> HIDE DEF late
    <3> QED BY AmongRows
  <2>2. DOMAIN d \intersect late = { p \in DOMAIN d : p \in late }
    OBVIOUS
  <2> HIDE DEF late
  <2> QED BY <1>1, <2>1, <2>2
<1>4. ASSUME NEW p \in TakenDepths
      PROVE  Timed(BagAdd(d, p)) = IF p.T # Missing THEN BagAdd(Timed(d), p) ELSE Timed(d)
  <2>1. Rows(BagAdd(d, p), TakenDepths)
    <3>1. Added(TakenDepths, d, p)
      BY AddedRow
    <3> QED BY <3>1 DEF Added
  <2>2. p \in late <=> p.T # Missing
    OBVIOUS
  <2> HIDE DEF late
  <2>3. Among(BagAdd(d, p), late)
          = IF p \in late THEN BagAdd(Among(d, late), p) ELSE Among(d, late)
    BY AmongAdded
  <2> QED BY <1>1, <2>1, <2>2, <2>3
<1>5. ASSUME NEW s
      PROVE  Rows(OfSide(q, s), TakenLiqs) /\ DOMAIN OfSide(q, s) = { o \in DOMAIN q : o.S = s }
  <2> DEFINE of == side(s)
  <2>1. Rows(Among(q, of), TakenLiqs) /\ DOMAIN Among(q, of) = DOMAIN q \intersect of
    <3> HIDE DEF of
    <3> QED BY AmongRows
  <2>2. DOMAIN q \intersect of = { o \in DOMAIN q : o \in of }
    OBVIOUS
  <2>3. OfSide(q, s) = Among(q, of)
        /\ { o \in DOMAIN q : o.S = s } = { o \in DOMAIN q : o \in of }
    <3> HIDE DEF side
    <3> QED BY <1>2
  <2> HIDE DEF of
  <2> QED BY <2>1, <2>2, <2>3
<1>6. ASSUME NEW s, NEW o \in TakenLiqs
      PROVE  OfSide(BagAdd(q, o), s)
               = IF o.S = s THEN BagAdd(OfSide(q, s), o) ELSE OfSide(q, s)
  <2> DEFINE of == side(s)
  <2>1. Rows(BagAdd(q, o), TakenLiqs)
    <3>1. Added(TakenLiqs, q, o)
      BY AddedRow
    <3> QED BY <3>1 DEF Added
  <2>2. o \in of <=> o.S = s
    OBVIOUS
  <2>3. OfSide(q, s) = Among(q, of) /\ OfSide(BagAdd(q, o), s) = Among(BagAdd(q, o), of)
    <3> HIDE DEF side
    <3> QED BY <1>2, <2>1
  <2> HIDE DEF of
  <2>4. Among(BagAdd(q, o), of)
          = IF o \in of THEN BagAdd(Among(q, of), o) ELSE Among(q, of)
    BY AmongAdded
  <2> QED BY <2>2, <2>3, <2>4
<1> QED
  BY <1>3, <1>4, <1>5, <1>6

LEMMA FeaturesInvInit == FeaturesInit => FeaturesInv
<1> SUFFICES ASSUME FeaturesInit PROVE FeaturesInv
  OBVIOUS
<1>1. Rows(<<>>, TakenDepths) /\ Rows(<<>>, TakenLiqs) /\ DOMAIN <<>> = {}
  BY NoRows
<1>2. Count(<<>>) = 0 /\ Turnover(<<>>) = 0 /\ Quantity(<<>>) = 0
  BY <1>1, CountAdded, TurnoverAdded, QuantityAdded
<1>3. Timed(<<>>) = <<>> /\ \A s : OfSide(<<>>, s) = <<>>
  <2>1. /\ Rows(Timed(<<>>), TakenDepths)
        /\ DOMAIN Timed(<<>>) = { p \in DOMAIN <<>> : p.T # Missing }
        /\ \A s : Rows(OfSide(<<>>, s), TakenLiqs)
        /\ \A s : DOMAIN OfSide(<<>>, s) = { o \in DOMAIN <<>> : o.S = s }
    BY <1>1, SubRows
  <2>2. DOMAIN Timed(<<>>) = {} /\ \A s : DOMAIN OfSide(<<>>, s) = {}
    BY <1>1, <2>1
  <2> QED BY <2>1, <2>2, NoRows
<1>4. EngineLatencies(<<>>) = <<>> /\ NetworkLatencies(<<>>) = <<>>
  <2>1. DOMAIN EngineLatencies(<<>>) = {} /\ DOMAIN NetworkLatencies(<<>>) = {}
    BY <1>1 DEF EngineLatencies, NetworkLatencies, Values
  <2>2. Rows(EngineLatencies(<<>>), {}) /\ Rows(NetworkLatencies(<<>>), {})
    BY <2>1, FS_EmptySet DEF Rows, EngineLatencies, NetworkLatencies, Values
  <2> QED BY <2>1, <2>2, NoRows
<1>5. Total(<<>>, UnfilledOf) = 0
  <2> DEFINE none == [x \in DOMAIN <<>> |-> <<>>[x] * UnfilledOf(x)]
  <2>1. DOMAIN none = {}
    BY <1>1
  <2>2. Total(<<>>, UnfilledOf) = SumFunctionOnSet(none, DOMAIN none)
    BY DEF Total, SumFunction
  <2> HIDE DEF none
  <2> QED BY <2>1, <2>2, SumOfNothing
<1>6. MaxOrMissing({}) = Missing /\ MinOrMissing({}) = Missing
  BY DEF MaxOrMissing, MinOrMissing
<1>7. BucketOf(<<>>, <<>>, 0, 0) = EmptyBucket
  <2>1. /\ EventTimes(<<>>) = {} /\ ArrivalTimes(<<>>) = {}
        /\ FirstIds(<<>>) = {} /\ FinalIds(<<>>) = {} /\ TransactTimes(<<>>) = {}
        /\ AnySlow(<<>>) = FALSE /\ AllTold(<<>>) = TRUE
    BY <1>1 DEF EventTimes, ArrivalTimes, FirstIds, FinalIds, TransactTimes, AnySlow, AllTold
  <2> QED
    BY <1>2, <1>3, <1>4, <1>6, <2>1 DEF BucketOf, EmptyBucket
<1>8. bucket = EmptyBucket /\ depthRows = <<>> /\ liqRows = <<>>
  BY DEF FeaturesInit
<1>9. bucket.orig = 0 /\ bucket.executed = 0
  BY <1>8 DEF EmptyBucket
<1> QED
  BY <1>1, <1>2, <1>3, <1>5, <1>7, <1>8, <1>9, LimitsAssumption DEF FeaturesInv

LEMMA ValuesFinite ==
  ASSUME NEW S, IsFiniteSet(S), NEW f
  PROVE  IsFiniteSet({ f[x] : x \in S })
<1> DEFINE g == [x \in S |-> f[x]]
           T == { f[x] : x \in S }
<1>1. g \in Surjection(S, T)
  BY DEF Surjection
<1> QED
  BY <1>1, FS_Surjection

LEMMA FieldsFinite ==
  ASSUME NEW b, Rows(b, TakenDepths)
  PROVE  /\ IsFiniteSet(EventTimes(b)) /\ IsFiniteSet(ArrivalTimes(b))
         /\ IsFiniteSet(FirstIds(b)) /\ IsFiniteSet(FinalIds(b))
         /\ IsFiniteSet(TransactTimes(b))
<1> DEFINE D == DOMAIN b
           E == [x \in D |-> x.E]
           A == [x \in D |-> x.A]
           U == [x \in D |-> x.U]
           L == [x \in D |-> x.u]
           T == [x \in D |-> x.T]
<1>1. /\ EventTimes(b) = { E[x] : x \in D } /\ ArrivalTimes(b) = { A[x] : x \in D }
      /\ FirstIds(b) = { U[x] : x \in D } /\ FinalIds(b) = { L[x] : x \in D }
      /\ TransactTimes(b) = { T[x] : x \in D }
  BY DEF EventTimes, ArrivalTimes, FirstIds, FinalIds, TransactTimes
<1>2. IsFiniteSet(D)
  BY DEF Rows
<1> HIDE DEF D, E, A, U, L, T
<1> QED
  BY <1>1, <1>2, ValuesFinite

(* What a depth event adds to the bucket is what its row adds.             *)
LEMMA DepthCounted ==
  ASSUME NEW d, Rows(d, TakenDepths), NEW q, Rows(q, TakenLiqs),
         NEW p \in TakenDepths, NEW orig, NEW executed
  PROVE  CountDepth(BucketOf(d, q, orig, executed), p)
           = BucketOf(BagAdd(d, p), q, orig, executed)
<1> DEFINE a == BagAdd(d, p)
           t == Timed(d)
<1>1. /\ IsFiniteSet(DOMAIN d) /\ DOMAIN d \subseteq TakenDepths
      /\ DOMAIN a = DOMAIN d \union {p}
  <2>1. Added(TakenDepths, d, p)
    BY AddedRow
  <2> QED BY <2>1 DEF Added, Rows
<1>2. /\ Rows(t, TakenDepths) /\ DOMAIN t = { x \in DOMAIN d : x.T # Missing }
      /\ Timed(a) = IF p.T # Missing THEN BagAdd(t, p) ELSE t
  BY SubRows
<1>3. /\ p.E \in Int /\ p.A \in Int /\ p.U \in Int /\ p.u \in Int
      /\ p.T # Missing => p.T \in Int
  BY TakenFields
<1>4. /\ EventTimes(d) \in SUBSET Int /\ ArrivalTimes(d) \in SUBSET Int
      /\ FirstIds(d) \in SUBSET Int /\ FinalIds(d) \in SUBSET Int
      /\ TransactTimes(t) \in SUBSET Int
  BY <1>1, <1>2, TakenFields
  DEF EventTimes, ArrivalTimes, FirstIds, FinalIds, TransactTimes
<1>5. /\ IsFiniteSet(EventTimes(d)) /\ IsFiniteSet(ArrivalTimes(d))
      /\ IsFiniteSet(FirstIds(d)) /\ IsFiniteSet(FinalIds(d))
      /\ IsFiniteSet(TransactTimes(t))
  BY <1>2, FieldsFinite
<1>6. /\ MaxOrMissing(EventTimes(a)) = Larger(MaxOrMissing(EventTimes(d)), p.E)
      /\ MaxOrMissing(ArrivalTimes(a)) = Larger(MaxOrMissing(ArrivalTimes(d)), p.A)
      /\ MinOrMissing(FirstIds(a)) = Smaller(MinOrMissing(FirstIds(d)), p.U)
      /\ MaxOrMissing(FinalIds(a)) = Larger(MaxOrMissing(FinalIds(d)), p.u)
  <2>1. /\ EventTimes(a) = EventTimes(d) \union {p.E}
        /\ ArrivalTimes(a) = ArrivalTimes(d) \union {p.A}
        /\ FirstIds(a) = FirstIds(d) \union {p.U}
        /\ FinalIds(a) = FinalIds(d) \union {p.u}
    BY <1>1 DEF EventTimes, ArrivalTimes, FirstIds, FinalIds
  <2> HIDE DEF a
  <2> QED BY <1>3, <1>4, <1>5, <2>1, LargestSoFar, SmallestSoFar
<1>7. Count(a) = Count(d) + 1
  BY CountAdded
<1> DEFINE old == BucketOf(d, q, orig, executed)
           seen == [old EXCEPT
             !.event_time      = Larger(@, p.E),
             !.arrival_time    = Larger(@, p.A),
             !.depth_events    = @ + 1,
             !.update_id_start = Smaller(@, p.U),
             !.update_id_end   = Larger(@, p.u)]
<1>8. seen =
  [event_time      |-> MaxOrMissing(EventTimes(a)),
   transact_time   |-> MaxOrMissing(TransactTimes(t)),
   arrival_time    |-> MaxOrMissing(ArrivalTimes(a)),
   engine          |-> EngineLatencies(t),
   network         |-> NetworkLatencies(t),
   bad             |-> AnySlow(t),
   depth_events    |-> Count(a),
   update_id_start |-> MinOrMissing(FirstIds(a)),
   update_id_end   |-> MaxOrMissing(FinalIds(a)),
   long_vol        |-> Turnover(OfSide(q, "SELL")),
   short_vol       |-> Turnover(OfSide(q, "BUY")),
   long_count      |-> Count(OfSide(q, "SELL")),
   short_count     |-> Count(OfSide(q, "BUY")),
   qty             |-> Quantity(q),
   weighted        |-> Turnover(q),
   supported       |-> AllTold(q),
   orig            |-> orig,
   executed        |-> executed]
  <2>1. old =
    [event_time      |-> MaxOrMissing(EventTimes(d)),
     transact_time   |-> MaxOrMissing(TransactTimes(t)),
     arrival_time    |-> MaxOrMissing(ArrivalTimes(d)),
     engine          |-> EngineLatencies(t),
     network         |-> NetworkLatencies(t),
     bad             |-> AnySlow(t),
     depth_events    |-> Count(d),
     update_id_start |-> MinOrMissing(FirstIds(d)),
     update_id_end   |-> MaxOrMissing(FinalIds(d)),
     long_vol        |-> Turnover(OfSide(q, "SELL")),
     short_vol       |-> Turnover(OfSide(q, "BUY")),
     long_count      |-> Count(OfSide(q, "SELL")),
     short_count     |-> Count(OfSide(q, "BUY")),
     qty             |-> Quantity(q),
     weighted        |-> Turnover(q),
     supported       |-> AllTold(q),
     orig            |-> orig,
     executed        |-> executed]
    BY DEF BucketOf
  <2>2. seen = [old EXCEPT
          !.event_time      = Larger(@, p.E),
          !.arrival_time    = Larger(@, p.A),
          !.depth_events    = @ + 1,
          !.update_id_start = Smaller(@, p.U),
          !.update_id_end   = Larger(@, p.u)]
    OBVIOUS
  <2> HIDE DEF old, seen, a, t
  <2> QED BY <1>6, <1>7, <2>1, <2>2
<1>9. CASE p.T = Missing
  <2>1. Timed(a) = t
    BY <1>2, <1>9
  <2>2. CountDepth(old, p) = seen
    BY <1>9 DEF CountDepth
  <2> HIDE DEF a, old, seen
  <2>3. seen = BucketOf(a, q, orig, executed)
    BY <1>8, <2>1 DEF BucketOf
  <2> QED
    BY <2>2, <2>3 DEF old, a
<1>10. CASE p.T # Missing
  <2>1. Timed(a) = BagAdd(t, p) /\ DOMAIN BagAdd(t, p) = DOMAIN t \union {p}
    <3>1. Added(TakenDepths, t, p)
      <4> HIDE DEF t
      <4> QED BY <1>2, AddedRow
    <3> QED BY <1>2, <1>10, <3>1 DEF Added
  <2>2. MaxOrMissing(TransactTimes(Timed(a))) = Larger(MaxOrMissing(TransactTimes(t)), p.T)
    <3>1. TransactTimes(Timed(a)) = TransactTimes(t) \union {p.T}
      BY <2>1 DEF TransactTimes
    <3> HIDE DEF a, t
    <3> QED BY <1>3, <1>4, <1>5, <1>10, <3>1, LargestSoFar
  <2>3. /\ EngineLatencies(Timed(a)) = BagAdd(EngineLatencies(t), p.A - p.E)
        /\ NetworkLatencies(Timed(a)) = BagAdd(NetworkLatencies(t), p.A - p.T)
    <3> HIDE DEF t, a
    <3> QED BY <1>2, <2>1, LatenciesAdded
  <2>4. AnySlow(Timed(a)) = (AnySlow(t) \/ Slow(p))
    <3> HIDE DEF t, a
    <3> QED BY <2>1 DEF AnySlow
  <2> DEFINE new == CountDepth(old, p)
  <2>5. new = [seen EXCEPT
          !.transact_time = Larger(@, p.T),
          !.engine        = BagAdd(@, p.A - p.E),
          !.network       = BagAdd(@, p.A - p.T),
          !.bad           = @ \/ Slow(p)]
    BY <1>10 DEF CountDepth
  <2> HIDE DEF a, t, old, seen, new
  <2>6. /\ seen.transact_time = MaxOrMissing(TransactTimes(t))
        /\ seen.engine = EngineLatencies(t) /\ seen.network = NetworkLatencies(t)
        /\ seen.bad = AnySlow(t)
    BY <1>8
  <2>7. new = [seen EXCEPT
          !.transact_time = MaxOrMissing(TransactTimes(Timed(a))),
          !.engine        = EngineLatencies(Timed(a)),
          !.network       = NetworkLatencies(Timed(a)),
          !.bad           = AnySlow(Timed(a))]
    BY <2>2, <2>3, <2>4, <2>5, <2>6
  <2>8. new = BucketOf(a, q, orig, executed)
    BY <1>8, <2>7 DEF BucketOf
  <2> QED
    BY <2>8 DEF new, old, a
<1> QED
  BY <1>9, <1>10

(* And so for a liquidation.                                               *)
LEMMA LiqCounted ==
  ASSUME NEW d, NEW q, Rows(q, TakenLiqs), NEW o \in TakenLiqs,
         NEW orig, NEW executed
  PROVE  LET ok == AllTold(q) /\ o.l # Missing
         IN  CountLiq(BucketOf(d, q, orig, executed), o)
               = BucketOf(d, BagAdd(q, o),
                   orig + (IF ok THEN o.q ELSE 0),
                   executed + (IF ok THEN Filled(o) ELSE 0))
<1> DEFINE a == BagAdd(q, o)
           ok == AllTold(q) /\ o.l # Missing
           long == o.S = "SELL"
           moreOrig == orig + (IF ok THEN o.q ELSE 0)
           moreExec == executed + (IF ok THEN Filled(o) ELSE 0)
           old == BucketOf(d, q, orig, executed)
           new == CountLiq(old, o)
<1>1. /\ DOMAIN a = DOMAIN q \union {o}
      /\ \A s : Rows(OfSide(q, s), TakenLiqs)
      /\ \A s : OfSide(a, s) = IF o.S = s THEN BagAdd(OfSide(q, s), o) ELSE OfSide(q, s)
  <2>1. Added(TakenLiqs, q, o)
    BY AddedRow
  <2>2. Rows(<<>>, TakenDepths)
    BY NoRows
  <2>3. /\ \A s : Rows(OfSide(q, s), TakenLiqs)
        /\ \A s, x : x \in TakenLiqs =>
              OfSide(BagAdd(q, x), s) = IF x.S = s THEN BagAdd(OfSide(q, s), x) ELSE OfSide(q, s)
    BY <2>2, SubRows
  <2> QED BY <2>1, <2>3 DEF Added
<1>2. o.S = "SELL" \/ o.S = "BUY"
  BY TakenFields
<1>3. ASSUME NEW s
      PROVE  /\ Turnover(OfSide(a, s))
                  = Turnover(OfSide(q, s)) + (IF o.S = s THEN Notional(o) ELSE 0)
             /\ Count(OfSide(a, s)) = Count(OfSide(q, s)) + (IF o.S = s THEN 1 ELSE 0)
  <2> DEFINE r == OfSide(q, s)
  <2>1. Rows(r, TakenLiqs) /\ OfSide(a, s) = IF o.S = s THEN BagAdd(r, o) ELSE r
    BY <1>1
  <2> HIDE DEF r, a
  <2>2. /\ Turnover(r) \in Int /\ Count(r) \in Nat
        /\ Turnover(BagAdd(r, o)) = Turnover(r) + Notional(o)
        /\ Count(BagAdd(r, o)) = Count(r) + 1
    BY <2>1, TurnoverAdded, CountAdded
  <2> QED BY <2>1, <2>2 DEF r
<1>4. /\ Turnover(OfSide(a, "SELL"))
           = Turnover(OfSide(q, "SELL")) + (IF long THEN Notional(o) ELSE 0)
      /\ Turnover(OfSide(a, "BUY"))
           = Turnover(OfSide(q, "BUY")) + (IF long THEN 0 ELSE Notional(o))
      /\ Count(OfSide(a, "SELL")) = Count(OfSide(q, "SELL")) + (IF long THEN 1 ELSE 0)
      /\ Count(OfSide(a, "BUY")) = Count(OfSide(q, "BUY")) + (IF long THEN 0 ELSE 1)
  <2> HIDE DEF a
  <2> QED BY <1>2, <1>3
<1>5. Turnover(a) = Turnover(q) + Notional(o) /\ Quantity(a) = Quantity(q) + o.q
  BY TurnoverAdded, QuantityAdded
<1>6. AllTold(a) = ok
  BY <1>1 DEF AllTold
<1>7. old =
  [event_time      |-> MaxOrMissing(EventTimes(d)),
   transact_time   |-> MaxOrMissing(TransactTimes(Timed(d))),
   arrival_time    |-> MaxOrMissing(ArrivalTimes(d)),
   engine          |-> EngineLatencies(Timed(d)),
   network         |-> NetworkLatencies(Timed(d)),
   bad             |-> AnySlow(Timed(d)),
   depth_events    |-> Count(d),
   update_id_start |-> MinOrMissing(FirstIds(d)),
   update_id_end   |-> MaxOrMissing(FinalIds(d)),
   long_vol        |-> Turnover(OfSide(q, "SELL")),
   short_vol       |-> Turnover(OfSide(q, "BUY")),
   long_count      |-> Count(OfSide(q, "SELL")),
   short_count     |-> Count(OfSide(q, "BUY")),
   qty             |-> Quantity(q),
   weighted        |-> Turnover(q),
   supported       |-> AllTold(q),
   orig            |-> orig,
   executed        |-> executed]
  BY DEF BucketOf
<1>8. Supported(old, o) = ok
  <2>1. old.supported = AllTold(q)
    BY <1>7
  <2> HIDE DEF old
  <2> QED BY <2>1 DEF Supported
<1>9. new = [old EXCEPT
        !.long_vol    = @ + (IF long THEN Notional(o) ELSE 0),
        !.short_vol   = @ + (IF long THEN 0 ELSE Notional(o)),
        !.long_count  = @ + (IF long THEN 1 ELSE 0),
        !.short_count = @ + (IF long THEN 0 ELSE 1),
        !.qty         = @ + o.q,
        !.weighted    = @ + Notional(o),
        !.supported   = Supported(old, o),
        !.orig        = @ + (IF Supported(old, o) THEN o.q ELSE 0),
        !.executed    = @ + (IF Supported(old, o) THEN Filled(o) ELSE 0)]
  BY DEF CountLiq
<1> HIDE DEF a, old, new, ok, long
<1>10. /\ old.long_vol = Turnover(OfSide(q, "SELL"))
       /\ old.short_vol = Turnover(OfSide(q, "BUY"))
       /\ old.long_count = Count(OfSide(q, "SELL"))
       /\ old.short_count = Count(OfSide(q, "BUY"))
       /\ old.qty = Quantity(q) /\ old.weighted = Turnover(q)
       /\ old.orig = orig /\ old.executed = executed
  BY <1>7
<1>11. new = [old EXCEPT
         !.long_vol    = Turnover(OfSide(a, "SELL")),
         !.short_vol   = Turnover(OfSide(a, "BUY")),
         !.long_count  = Count(OfSide(a, "SELL")),
         !.short_count = Count(OfSide(a, "BUY")),
         !.qty         = Quantity(a),
         !.weighted    = Turnover(a),
         !.supported   = AllTold(a),
         !.orig        = moreOrig,
         !.executed    = moreExec]
  BY <1>4, <1>5, <1>6, <1>8, <1>9, <1>10
<1> HIDE DEF moreOrig, moreExec
<1>12. new = BucketOf(d, a, moreOrig, moreExec)
  BY <1>7, <1>11 DEF BucketOf
<1> QED
  BY <1>12 DEF new, old, a, moreOrig, moreExec, ok

LEMMA FeaturesInvStep == FeaturesInv /\ [FeaturesNext]_featureVars => FeaturesInv'
<1> SUFFICES ASSUME FeaturesInv, [FeaturesNext]_featureVars PROVE FeaturesInv'
  OBVIOUS
<1> USE LimitsAssumption
<1> DEFINE d == depthRows
           q == liqRows
<1>1. ASSUME NEW p \in DepthPayloads, DepthPayload(p) PROVE FeaturesInv'
  <2>1. p \in TakenDepths /\ d' = BagAdd(d, p) /\ q' = q
    BY <1>1 DEF DepthPayload, TakenDepths
  <2>2. /\ Rows(d, TakenDepths) /\ Rows(q, TakenLiqs)
        /\ bucket = BucketOf(d, q, bucket.orig, bucket.executed)
    BY DEF FeaturesInv
  <2>3. bucket' = BucketOf(d', q', bucket.orig, bucket.executed)
    <3>1. bucket' = CountDepth(BucketOf(d, q, bucket.orig, bucket.executed), p)
      BY <1>1, <2>2 DEF DepthPayload
    <3>2. CountDepth(BucketOf(d, q, bucket.orig, bucket.executed), p)
            = BucketOf(BagAdd(d, p), q, bucket.orig, bucket.executed)
      BY <2>1, <2>2, DepthCounted
    <3> QED BY <2>1, <3>1, <3>2
  <2>4. bucket'.orig = bucket.orig /\ bucket'.executed = bucket.executed
    BY <2>3 DEF BucketOf
  <2>5. bucket'.supported = bucket.supported
    <3>1. bucket'.supported = AllTold(q')
      BY <2>3 DEF BucketOf
    <3>2. bucket.supported = AllTold(q)
      BY <2>2 DEF BucketOf
    <3> QED BY <2>1, <3>1, <3>2
  <2>6. Rows(d', TakenDepths) /\ Count(d') <= MaxDepths
    <3>1. Added(TakenDepths, d, p)
      BY <2>1, <2>2, AddedRow
    <3>2. Count(d) \in Nat /\ Count(BagAdd(d, p)) = Count(d) + 1
      BY <2>1, <2>2, CountAdded
    <3>3. Count(d) < MaxDepths
      BY <1>1 DEF DepthPayload
    <3> QED BY <2>1, <3>1, <3>2, <3>3 DEF Added
  <2> QED
    BY <2>1, <2>3, <2>4, <2>5, <2>6 DEF FeaturesInv
<1>2. ASSUME NEW o \in LiqPayloads, LiqPayload(o) PROVE FeaturesInv'
  <2> DEFINE ok == AllTold(q) /\ o.l # Missing
             orig == bucket.orig + (IF ok THEN o.q ELSE 0)
             executed == bucket.executed + (IF ok THEN Filled(o) ELSE 0)
  <2>1. o \in TakenLiqs /\ q' = BagAdd(q, o) /\ d' = d
    BY <1>2 DEF LiqPayload, TakenLiqs
  <2>2. /\ Rows(d, TakenDepths) /\ Rows(q, TakenLiqs)
        /\ bucket = BucketOf(d, q, bucket.orig, bucket.executed)
    BY DEF FeaturesInv
  <2>3. bucket' = BucketOf(d', q', orig, executed)
    <3>1. bucket' = CountLiq(BucketOf(d, q, bucket.orig, bucket.executed), o)
      BY <1>2, <2>2 DEF LiqPayload
    <3>2. CountLiq(BucketOf(d, q, bucket.orig, bucket.executed), o)
            = BucketOf(d, BagAdd(q, o), orig, executed)
      BY <2>1, <2>2, LiqCounted
    <3> HIDE DEF orig, executed
    <3> QED BY <2>1, <3>1, <3>2
  <2>4. /\ bucket'.orig = orig /\ bucket'.executed = executed
        /\ bucket'.supported = AllTold(q')
    <3> HIDE DEF orig, executed
    <3> QED BY <2>3 DEF BucketOf
  <2>5. Added(TakenLiqs, q, o)
    BY <2>1, <2>2, AddedRow
  <2>6. Rows(q', TakenLiqs) /\ Count(q') <= MaxLiqs /\ Count(q') = Count(q) + 1
    <3>1. Count(q) \in Nat /\ Count(BagAdd(q, o)) = Count(q) + 1
      BY <2>1, <2>2, CountAdded
    <3>2. Count(q) < MaxLiqs
      BY <1>2 DEF LiqPayload
    <3> QED BY <2>1, <2>5, <3>1, <3>2 DEF Added
  <2>7. Count(OfSide(q', "SELL")) + Count(OfSide(q', "BUY")) = Count(q')
    <3>1. ASSUME NEW s
          PROVE  /\ Count(OfSide(q, s)) \in Nat
                 /\ Count(OfSide(q', s)) = Count(OfSide(q, s)) + (IF o.S = s THEN 1 ELSE 0)
      <4> DEFINE r == OfSide(q, s)
      <4>1. /\ Rows(r, TakenLiqs)
            /\ OfSide(q', s) = IF o.S = s THEN BagAdd(r, o) ELSE r
        BY <2>1, <2>2, SubRows
      <4> HIDE DEF r
      <4>2. Count(r) \in Nat /\ Count(BagAdd(r, o)) = Count(r) + 1
        BY <2>1, <4>1, CountAdded
      <4> QED BY <4>1, <4>2 DEF r
    <3>2. Count(OfSide(q, "SELL")) + Count(OfSide(q, "BUY")) = Count(q)
      BY DEF FeaturesInv
    <3>3. o.S = "SELL" \/ o.S = "BUY"
      BY <2>1, TakenFields
    <3>4. Count(q) \in Nat
      BY <2>2, CountAdded
    <3> QED BY <2>6, <3>1, <3>2, <3>3, <3>4
  <2>8. ASSUME AllTold(q')
        PROVE  /\ orig \in Int /\ executed \in Int /\ orig = Quantity(q')
               /\ orig - executed = Total(q', UnfilledOf)
    <3>1. AllTold(q) /\ o.l # Missing /\ \A x \in DOMAIN q \union {o} : x.l # Missing
      BY <2>1, <2>5, <2>8 DEF AllTold, Added
    <3>2. bucket.supported
      BY <2>2, <3>1 DEF BucketOf
    <3>3. /\ bucket.orig \in Int /\ bucket.executed \in Int
          /\ bucket.orig = Quantity(q)
          /\ bucket.orig - bucket.executed = Total(q, UnfilledOf)
      BY <3>2 DEF FeaturesInv
    <3>4. Quantity(BagAdd(q, o)) = Quantity(q) + o.q /\ o.q \in Int
      BY <2>1, <2>2, QuantityAdded, TakenFields
    <3>5. Total(BagAdd(q, o), UnfilledOf) = Total(q, UnfilledOf) + UnfilledOf(o)
      BY <2>1, <2>2, <3>1, UnfilledAdded
    <3>6. Filled(o) \in Int /\ UnfilledOf(o) = o.q - Filled(o)
      BY <2>1, <3>1, FilledWithin
    <3>7. orig = bucket.orig + o.q /\ executed = bucket.executed + Filled(o)
      BY <3>1
    <3>8. Total(q', UnfilledOf) = Total(q, UnfilledOf) + UnfilledOf(o)
      BY <2>1, <3>5
    <3> HIDE DEF orig, executed, ok
    <3> QED BY <2>1, <3>3, <3>4, <3>6, <3>7, <3>8
  <2>9. Rows(d', TakenDepths) /\ Count(d') <= MaxDepths
    BY <2>1 DEF FeaturesInv
  <2> HIDE DEF orig, executed
  <2> QED
    BY <2>3, <2>4, <2>6, <2>7, <2>8, <2>9 DEF FeaturesInv
<1>3. CASE UNCHANGED featureVars
  BY <1>3 DEF featureVars, FeaturesInv
<1> QED
  BY <1>1, <1>2, <1>3 DEF FeaturesNext

(* The bucket of a minute keeps its types: its counts never pass the       *)
(* number of events, and its update ids are numbers once it has an event.  *)
THEOREM FeaturesTypeCorrect == FeaturesSpec => []FeaturesTypeOK
<1>1. ASSUME FeaturesInv PROVE FeaturesTypeOK
  <2> DEFINE d == depthRows
             q == liqRows
  <2>1. /\ Rows(d, TakenDepths) /\ Rows(q, TakenLiqs)
        /\ bucket = BucketOf(d, q, bucket.orig, bucket.executed)
    BY <1>1 DEF FeaturesInv
  <2>2. DOMAIN bucket = DOMAIN EmptyBucket
    BY <2>1 DEF BucketOf, EmptyBucket
  <2>3. /\ bucket.depth_events = Count(d)
        /\ bucket.update_id_start = MinOrMissing(FirstIds(d))
        /\ bucket.update_id_end = MaxOrMissing(FinalIds(d))
        /\ bucket.long_count = Count(OfSide(q, "SELL"))
        /\ bucket.short_count = Count(OfSide(q, "BUY"))
        /\ bucket.bad = AnySlow(Timed(d)) /\ bucket.supported = AllTold(q)
    BY <2>1 DEF BucketOf
  <2>4. /\ Count(d) \in 0..MaxDepths /\ Count(q) \in 0..MaxLiqs
    <3>1. Count(d) \in Nat /\ Count(q) \in Nat
      BY <2>1, CountAdded
    <3> QED BY <1>1, <3>1, LimitsAssumption DEF FeaturesInv
  <2>5. bucket.long_count + bucket.short_count \in 0..MaxLiqs
    BY <1>1, <2>3, <2>4 DEF FeaturesInv
  <2>6. bucket.bad \in BOOLEAN /\ bucket.supported \in BOOLEAN
    BY <2>3 DEF AnySlow, AllTold
  <2>7. ASSUME bucket.depth_events > 0
        PROVE  {bucket.update_id_start, bucket.update_id_end} \subseteq Int
    <3>1. d # <<>> /\ DOMAIN d \subseteq TakenDepths
      BY <2>1, <2>3, <2>4, <2>7, CountAdded DEF Rows
    <3>2. PICK p \in DOMAIN d : TRUE
      BY <2>1, <3>1, NoRows
    <3>3. /\ FirstIds(d) \in SUBSET Int /\ FinalIds(d) \in SUBSET Int
          /\ p.U \in Int /\ p.u \in Int
          /\ FirstIds(d) \union {p.U} = FirstIds(d)
          /\ FinalIds(d) \union {p.u} = FinalIds(d)
      BY <3>1, <3>2, TakenFields DEF FirstIds, FinalIds
    <3>4. IsFiniteSet(FirstIds(d)) /\ IsFiniteSet(FinalIds(d))
      BY <2>1, FieldsFinite
    <3>5. MinOrMissing(FirstIds(d)) \in Int
      <4>1. MinOrMissing(FirstIds(d) \union {p.U}) \in Int
        BY <3>3, <3>4, SmallestSoFar
      <4> QED BY <3>3, <4>1
    <3>6. MaxOrMissing(FinalIds(d)) \in Int
      <4>1. MaxOrMissing(FinalIds(d) \union {p.u}) \in Int
        BY <3>3, <3>4, LargestSoFar
      <4> QED BY <3>3, <4>1
    <3> QED BY <2>3, <3>5, <3>6
  <2>8. DOMAIN d \subseteq DepthPayloads /\ DOMAIN q \subseteq LiqPayloads
    BY <2>1 DEF Rows, TakenDepths, TakenLiqs
  <2> QED
    BY <2>2, <2>3, <2>4, <2>5, <2>6, <2>7, <2>8 DEF FeaturesTypeOK
<1> QED
  BY FeaturesInvInit, FeaturesInvStep, <1>1, PTL DEF FeaturesSpec

(* What SQLite gives for a minute after a restart is what its bucket would *)
(* have reported, for any payloads and any number and order of events, as  *)
(* long as every depth event has its T.                                    *)
THEOREM RecoveryIsExact == FeaturesSpec => []RecoveredAsCounted
<1>1. ASSUME FeaturesInv PROVE RecoveredAsCounted
  <2> DEFINE d == depthRows
             q == liqRows
  <2> SUFFICES ASSUME Timed(d) = d PROVE Recovered = Counted
    BY DEF RecoveredAsCounted
  <2>1. /\ Rows(d, TakenDepths) /\ Rows(q, TakenLiqs)
        /\ bucket = BucketOf(d, q, bucket.orig, bucket.executed)
    BY <1>1 DEF FeaturesInv
  <2>2. /\ bucket.event_time = MaxOrMissing(EventTimes(d))
        /\ bucket.transact_time = MaxOrMissing(TransactTimes(d))
        /\ bucket.arrival_time = MaxOrMissing(ArrivalTimes(d))
        /\ bucket.engine = EngineLatencies(d) /\ bucket.network = NetworkLatencies(d)
        /\ bucket.bad = AnySlow(d)
        /\ bucket.depth_events = Count(d)
        /\ bucket.update_id_start = MinOrMissing(FirstIds(d))
        /\ bucket.update_id_end = MaxOrMissing(FinalIds(d))
    BY <2>1 DEF BucketOf
  <2>3. /\ bucket.long_vol = Turnover(OfSide(q, "SELL"))
        /\ bucket.short_vol = Turnover(OfSide(q, "BUY"))
        /\ bucket.long_count = Count(OfSide(q, "SELL"))
        /\ bucket.short_count = Count(OfSide(q, "BUY"))
        /\ bucket.qty = Quantity(q) /\ bucket.weighted = Turnover(q)
        /\ bucket.supported = AllTold(q)
    BY <2>1 DEF BucketOf
  <2>4. bucket.engine = <<>> <=> d = <<>>
    <3>1. (DOMAIN bucket.engine = {}) <=> (DOMAIN d = {})
      BY <2>2 DEF EngineLatencies, Values
    <3>2. DOMAIN bucket.engine = {} => bucket.engine = <<>>
      <4>1. bucket.engine = [v \in DOMAIN bucket.engine |-> bucket.engine[v]]
        BY <2>2 DEF EngineLatencies, Values
      <4>2. DOMAIN bucket.engine = {} => Rows(bucket.engine, {})
        BY <4>1, FS_EmptySet DEF Rows
      <4> QED BY <4>2, NoRows
    <3> QED BY <2>1, <3>1, <3>2, NoRows
  <2>5. Recovered.latency = Counted.latency
    BY <2>2, <2>4
    DEF Recovered, Counted, EventTimes, TransactTimes, ArrivalTimes, AnySlow
  <2>6. bucket.depth_events = 0 <=> d = <<>>
    BY <2>1, <2>2, CountAdded
  <2>7. Recovered.depth = Counted.depth
    BY <2>2, <2>6 DEF Recovered, Counted, FirstIds, FinalIds
  <2>8. bucket.long_count + bucket.short_count = 0 <=> q = <<>>
    <3>1. bucket.long_count + bucket.short_count = Count(q)
      BY <1>1, <2>3 DEF FeaturesInv
    <3> QED BY <2>1, <3>1, CountAdded
  <2>9. (Told(q) = q) = bucket.supported
    <3>1. DOMAIN Told(q) = { o \in DOMAIN q : o.l # Missing }
          /\ Told(q) = [o \in DOMAIN Told(q) |-> q[o]]
      BY DEF Told, Restrict
    <3>2. q = [o \in DOMAIN q |-> q[o]]
      BY <2>1 DEF Rows
    <3>3. (Told(q) = q) <=> AllTold(q)
      BY <3>1, <3>2 DEF AllTold
    <3> QED BY <2>3, <3>3 DEF AllTold
  <2>10. Unfilled(Told(q) = q, Total(Told(q), UnfilledOf), Quantity(Told(q)))
           = Unfilled(bucket.supported, bucket.orig - bucket.executed, bucket.orig)
    <3>1. CASE bucket.supported
      <4>1. Told(q) = q
        BY <2>9, <3>1
      <4>2. /\ bucket.orig = Quantity(q)
            /\ bucket.orig - bucket.executed = Total(q, UnfilledOf)
        BY <1>1, <3>1 DEF FeaturesInv
      <4>3. Unfilled(TRUE, Total(Told(q), UnfilledOf), Quantity(Told(q)))
              = Unfilled(TRUE, bucket.orig - bucket.executed, bucket.orig)
        BY <4>1, <4>2
      <4> QED BY <3>1, <4>1, <4>3 DEF Unfilled
    <3>2. CASE ~bucket.supported
      BY <2>9, <3>2 DEF Unfilled
    <3> QED BY <3>1, <3>2
  <2>11. Recovered.liq = Counted.liq
    BY <2>3, <2>8, <2>9, <2>10 DEF Recovered, Counted
  <2> QED
    BY <2>5, <2>7, <2>11 DEF Recovered, Counted
<1> QED
  BY FeaturesInvInit, FeaturesInvStep, <1>1, PTL DEF FeaturesSpec

=============================================================================
