---------------------------- MODULE LiveMinutes ----------------------------
(***************************************************************************)
(* From a websocket event to the live columns of its minute:               *)
(* InMemoryLiveCollector counts the event in a bucket and LiveEventStore   *)
(* keeps it in SQLite, one transaction per table; the pipeline thread      *)
(* takes a snapshot of each minute, from memory or else from SQLite, and   *)
(* merges it into the partition.  Memory is lost in a restart, SQLite rows *)
(* to retention.  The collector's lock is held for a whole event and for a *)
(* whole snapshot.  The numbers computed from the events of a minute are   *)
(* represented by the set of these events.                                 *)
(***************************************************************************)
EXTENDS Integers, Sequences

CONSTANTS
  Depths,       \* events of the depth stream
  Liqs,         \* events of the forceOrder stream
  Delay,        \* minutes an event may come after its event time
  SafetyLag,    \* settings.safety_lag_minutes
  Retention,    \* settings.live_event_retention_hours, in minutes
  LastMinute,   \* bound: minutes of the clock
  MaxRestarts,  \* bound: restarts of the process
  None          \* no event, no minute

Events       == Depths \union Liqs
ClockMinutes == 0..LastMinute

ASSUME StreamsAssumption == Depths \intersect Liqs = {} /\ None \notin Events
ASSUME TimesAssumption ==
  /\ Delay \in Nat /\ SafetyLag \in Nat \ {0} /\ Retention \in Nat \ {0}
  /\ LastMinute \in Nat /\ MaxRestarts \in Nat
  /\ None \notin Int

VARIABLES
  clock,
  minuteOf,  \* event -> the minute of its event time, None before it comes
  cur,       \* the event a handler is at, None if there is none
  todo,      \* what its handler has left to do
  mem,       \* events counted in the buckets in memory
  good,      \* depth events that left the order book synchronised
  broke,     \* depth events that broke it
  rows,      \* family -> events with a row in its SQLite table
  row,       \* minute -> the live columns of its partition row
  mark,      \* the watermark, -1 before the first minute
  restarts,
  era,       \* history: event -> the restarts before it came
  gone       \* history: events lost before their minute was committed

handler == <<cur, todo>>
history == <<era, gone>>
depthBook == <<good, broke>>
vars == <<clock, minuteOf, handler, mem, depthBook, rows, row, mark, restarts,
          history>>

(* The features come in three families, and so do the tables they are      *)
(* recovered from: ws_depth_events, ws_events and ws_liq_events.           *)
Families == {"depth", "latency", "liq"}

StreamOf(f) == IF f = "liq" THEN Liqs ELSE Depths

Heard == { e \in Events : minuteOf[e] # None }

Of(m, events) == { e \in events : minuteOf[e] = m }

NoData == [depth |-> {}, latency |-> {}, liq |-> {}, degraded |-> None]

LiveRow == [depth : SUBSET Depths, latency : SUBSET Depths,
            liq : SUBSET Liqs, degraded : BOOLEAN \union {None}]

LiveTypeOK ==
  /\ clock \in ClockMinutes
  /\ minuteOf \in [Events -> ClockMinutes \union {None}]
  /\ cur \in Events \union {None}
  /\ todo \in Seq(Families \union {"beat", "book"})
  /\ mem \subseteq Events
  /\ good \subseteq Depths /\ broke \subseteq Depths
  /\ rows \in [Families -> SUBSET Events]
  /\ row \in [ClockMinutes -> LiveRow]
  /\ mark \in -1..LastMinute
  /\ restarts \in 0..MaxRestarts
  /\ era \in [Events -> 0..MaxRestarts]
  /\ gone \subseteq Events

Init ==
  /\ clock = 0
  /\ minuteOf = [e \in Events |-> None]
  /\ cur = None /\ todo = <<>>
  /\ mem = {} /\ good = {} /\ broke = {}
  /\ rows = [f \in Families |-> {}]
  /\ row = [m \in ClockMinutes |-> NoData]
  /\ mark = -1
  /\ restarts = 0
  /\ era = [e \in Events |-> 0]
  /\ gone = {}

-----------------------------------------------------------------------------
Tick ==
  /\ clock < LastMinute
  /\ clock' = clock + 1
  /\ UNCHANGED <<minuteOf, handler, mem, depthBook, rows, row, mark, restarts,
                 history>>

(* An event comes.  ingest_depth_diff counts it before it writes anything, *)
(* ingest_liquidation_event after its heartbeat (Beat).                    *)
Receive(e) ==
  /\ cur = None
  /\ minuteOf[e] = None
  /\ \E m \in ClockMinutes :
       /\ m <= clock /\ clock <= m + Delay
       /\ minuteOf' = [minuteOf EXCEPT ![e] = m]
  /\ cur' = e
  /\ era' = [era EXCEPT ![e] = restarts]
  /\ IF e \in Depths
     THEN /\ mem' = mem \union {e}
          /\ todo' = <<"beat", "depth", "latency", "book">>
     ELSE /\ mem' = mem
          /\ todo' = <<"beat", "liq">>
  /\ UNCHANGED <<clock, depthBook, rows, row, mark, restarts, gone>>

(* The handler goes on, or returns.                                        *)
StepDone ==
  /\ todo' = Tail(todo)
  /\ cur' = IF Len(todo) = 1 THEN None ELSE cur

At(step) == todo # <<>> /\ Head(todo) = step

(* The heartbeat is upserted.                                              *)
Beat ==
  /\ At("beat")
  /\ mem' = mem \union {cur}
  /\ StepDone
  /\ UNCHANGED <<clock, minuteOf, depthBook, rows, row, mark, restarts, history>>

(* append_depth_event, append_event, append_liquidation_event: a           *)
(* transaction each.                                                       *)
AppendRow(f) ==
  /\ At(f)
  /\ rows' = [rows EXCEPT ![f] = @ \union {cur}]
  /\ StepDone
  /\ UNCHANGED <<clock, minuteOf, mem, depthBook, row, mark, restarts, history>>

(* The order book takes the event, or breaks, or is broken and buffers it. *)
Book ==
  /\ At("book")
  /\ \/ good' = good \union {cur} /\ UNCHANGED broke
     \/ broke' = broke \union {cur} /\ UNCHANGED good
     \/ UNCHANGED depthBook
  /\ StepDone
  /\ UNCHANGED <<clock, minuteOf, mem, rows, row, mark, restarts, history>>

(* Events of minutes that are not committed yet and that nothing holds any *)
(* more, once the step is taken.                                           *)
LostNow ==
  { e \in Heard : /\ minuteOf[e] > mark
                  /\ e \notin mem'
                  /\ \E f \in Families : e \in StreamOf(f) /\ e \notin rows'[f] }

(* SQLite is locked for longer than the timeout: the exception ends the    *)
(* handler and the worker reconnects.                                      *)
StoreFails ==
  /\ todo # <<>> /\ Head(todo) # "book"
  /\ cur' = None /\ todo' = <<>>
  /\ mem' = mem /\ rows' = rows
  /\ gone' = gone \union LostNow
  /\ UNCHANGED <<clock, minuteOf, depthBook, row, mark, restarts, era>>

-----------------------------------------------------------------------------
(* The process dies and starts again.                                      *)
Restart ==
  /\ restarts < MaxRestarts
  /\ restarts' = restarts + 1
  /\ cur' = None /\ todo' = <<>>
  /\ mem' = {} /\ rows' = rows
  /\ gone' = gone \union LostNow
  /\ UNCHANGED <<clock, minuteOf, depthBook, row, mark, era>>

(* cleanup_by_retention: rows older than the cutoff go, committed or not.  *)
Cleanup ==
  /\ rows' = [f \in Families |->
                { e \in rows[f] : minuteOf[e] >= clock - Retention }]
  /\ mem' = mem
  /\ gone' = gone \union LostNow
  /\ UNCHANGED <<clock, minuteOf, handler, depthBook, row, mark, restarts, era>>

-----------------------------------------------------------------------------
(* Mutant: SQLite is asked only for a minute that has no bucket at all.    *)
CollectedByBucket(m, f) ==
  IF Of(m, mem) # {} THEN Of(m, mem \intersect StreamOf(f)) ELSE Of(m, rows[f])

(* snapshot_for_minute of the collector: a family that has an event in     *)
(* memory is taken from memory, another one from its table.                *)
Collected(m, f) ==
  LET inMemory == Of(m, mem \intersect StreamOf(f))
  IN IF inMemory # {} THEN inMemory ELSE Of(m, rows[f])

(* _depth_degraded_for_bucket: a break, or no event in synchronised state. *)
DegradedInMemory(m) ==
  Of(m, mem \intersect broke) # {} \/ Of(m, mem \intersect good) = {}

(* SQLite has no depth_degraded, which the transform fills with False.     *)
Snapshot(m) ==
  [depth    |-> Collected(m, "depth"),
   latency  |-> Collected(m, "latency"),
   liq      |-> Collected(m, "liq"),
   degraded |-> IF Collected(m, "depth") = {} THEN None
                ELSE Of(m, mem \intersect Depths) # {} /\ DegradedInMemory(m)]

(* _merge_partition_frames on live columns: the new value, or else the old.*)
MergeLive(old, new) ==
  [depth    |-> IF new.depth # {} THEN new.depth ELSE old.depth,
   latency  |-> IF new.latency # {} THEN new.latency ELSE old.latency,
   liq      |-> IF new.liq # {} THEN new.liq ELSE old.liq,
   degraded |-> IF new.degraded # None THEN new.degraded ELSE old.degraded]

(* Mutant: the safety lag is not waited for.                               *)
WriteAtOnce ==
  LET m == mark + 1
  IN /\ cur = None
     /\ row' = [row EXCEPT ![m] = MergeLive(@, Snapshot(m))]
     /\ mark' \in {mark, m}
     /\ UNCHANGED <<clock, minuteOf, handler, mem, depthBook, rows, restarts,
                    history>>

(* The pipeline writes the next minute, and commits it unless it crashes   *)
(* or fails in between.                                                    *)
WriteMinute ==
  LET m == mark + 1
  IN /\ cur = None
     /\ m + SafetyLag <= clock
     /\ row' = [row EXCEPT ![m] = MergeLive(@, Snapshot(m))]
     /\ mark' \in {mark, m}
     /\ UNCHANGED <<clock, minuteOf, handler, mem, depthBook, rows, restarts,
                    history>>

Next ==
  \/ Tick
  \/ \E e \in Events : Receive(e)
  \/ Beat \/ Book \/ StoreFails
  \/ \E f \in Families : AppendRow(f)
  \/ Restart \/ Cleanup \/ WriteMinute

Spec == Init /\ [][Next]_vars

-----------------------------------------------------------------------------
(* Properties.                                                             *)

(* The minute's events of a family came in one run of the process.         *)
Uncut(m, f) ==
  \A d, e \in Of(m, StreamOf(f)) : era[d] = era[e]

(* A committed minute has in its row every event that came for it, unless  *)
(* a restart, a failed write or retention lost the event before; of a      *)
(* minute with events from before and after a restart nothing is said.     *)
(* Events may come Delay minutes late, which the safety lag covers, and    *)
(* each family falls back to SQLite on its own.                            *)
CommittedMinuteComplete ==
  \A m \in ClockMinutes, f \in Families :
    (m <= mark /\ Uncut(m, f) /\ cur = None) =>
       Of(m, StreamOf(f)) \ gone \subseteq row[m][f]

(* The same of every committed minute: sums and counts are over all the    *)
(* liquidation events of the minute.                                       *)
LiquidationsSummed ==
  \A m \in ClockMinutes :
    (m <= mark /\ cur = None) => Of(m, Liqs) \ gone \subseteq row[m].liq
=============================================================================
