----------------------------- MODULE DepthSync -----------------------------
(***************************************************************************)
(* The depth worker around DepthBook: BinanceLiveStreamSupervisor fetches  *)
(* a snapshot before it opens the stream and again, inside the handler,    *)
(* whenever an event breaks the book; InMemoryLiveCollector keeps a bucket *)
(* for the minute of every event and reports it as depth_degraded or not.  *)
(* Thresholds on spread, quantity and fillability are left out.            *)
(***************************************************************************)
EXTENDS DepthBook

CONSTANTS
  LastMinute,   \* bound: minutes of the clock
  MaxFailures   \* bound: snapshot requests that fail

ASSUME SyncAssumption == LastMinute \in Nat /\ MaxFailures \in Nat

VARIABLES
  minute,     \* the clock
  minuteOf,   \* last update of an event -> the minute of its event time
  pc,         \* "fetch" and "set": in _resync_depth_book
  snap,       \* lastUpdateId of the snapshot fetched
  at,         \* minute_timestamp_ms of the resync
  bucket,     \* minute -> its _MinuteAccumulator
  failures,   \* snapshot requests that failed
  hurt,       \* history: minutes with an event that broke the book or came
              \* while it was broken
  missed      \* history: the last update of every event lost with a
              \* connection

history  == <<hurt, missed>>
worker   == <<minute, minuteOf, pc, snap, at, bucket, failures, history>>
syncVars == <<bookVars, worker>>

ClockMinutes == 0..LastMinute

(* depth_event_count and depth_synced_event_count above zero.              *)
Bucket == [events : BOOLEAN, synced : BOOLEAN, degraded : BOOLEAN]

SyncTypeOK ==
  /\ BookTypeOK
  /\ minute \in ClockMinutes
  /\ minuteOf \in [Ids -> ClockMinutes]
  /\ pc \in {"fetch", "set", "stream"}
  /\ snap \in 0..engine
  /\ at \in ClockMinutes
  /\ bucket \in [ClockMinutes -> Bucket]
  /\ failures \in 0..MaxFailures
  /\ hurt \subseteq ClockMinutes /\ missed \subseteq Ids

(* start() resyncs before it starts the workers.                           *)
SyncInit ==
  /\ BookInit
  /\ minute = 0
  /\ minuteOf = [i \in Ids |-> 0]
  /\ pc = "fetch"
  /\ snap = 0
  /\ at = 0
  /\ bucket = [m \in ClockMinutes |->
                 [events |-> FALSE, synced |-> FALSE, degraded |-> FALSE]]
  /\ failures = 0
  /\ hurt = {} /\ missed = {}

-----------------------------------------------------------------------------
(* The exchange, the clock and the connection.                             *)

NextMinute ==
  /\ minute < LastMinute
  /\ minute' = minute + 1
  /\ UNCHANGED <<bookVars, minuteOf, pc, snap, at, bucket, failures, history>>

(* The event time is the exchange's when it sends the event.               *)
SendEvent ==
  /\ Emit
  /\ minuteOf' = [minuteOf EXCEPT ![engine] = minute]
  /\ missed' = IF connected \/ drops = 0 THEN missed
                ELSE missed \union {engine}
  /\ UNCHANGED <<minute, pc, snap, at, bucket, failures, hurt>>

(* The worker thread opens the stream when it is in no handler.            *)
OpenStream == pc = "stream" /\ Connect /\ UNCHANGED worker

LoseStream == Disconnect /\ missed' = missed \union { e.u : e \in wire }

-----------------------------------------------------------------------------
(* Mutants: the bucket is the one of the minute of arrival; an event that  *)
(* breaks the book is logged and no snapshot asked for.                    *)
Handle(e, m, afterBreak) ==
  /\ pc = "stream"
  /\ Deliver(e)
  /\ \/ TakeIn(e) /\ UNCHANGED <<pc, at>>
     \/ BreakBook(e) /\ pc' = afterBreak /\ at' = minute
  /\ bucket' = [bucket EXCEPT ![m] =
                  [events   |-> TRUE,
                   synced   |-> @.synced \/ synced',
                   degraded |-> @.degraded \/ (synced /\ ~ synced')]]
  /\ hurt' = IF synced' THEN hurt ELSE hurt \union {minuteOf[e.u]}
  /\ UNCHANGED <<minute, minuteOf, snap, failures, missed>>

HandleByArrival(e) == Handle(e, minute, "fetch")
HandleForgetful(e) == Handle(e, minuteOf[e.u], "stream")

(* _on_depth_message and ingest_depth_diff: the event counts in the bucket *)
(* of its minute; if it breaks the book the bucket is degraded and the     *)
(* handler goes on with a resync for the minute of arrival.                *)
HandleEvent(e) ==
  LET m == minuteOf[e.u]
  IN /\ pc = "stream"
     /\ Deliver(e)
     /\ \/ TakeIn(e) /\ UNCHANGED <<pc, at>>
        \/ BreakBook(e) /\ pc' = "fetch" /\ at' = minute
     /\ bucket' = [bucket EXCEPT ![m] =
                     [events   |-> TRUE,
                      synced   |-> @.synced \/ synced',
                      degraded |-> @.degraded \/ (synced /\ ~ synced')]]
     /\ hurt' = IF synced' THEN hurt ELSE hurt \union {m}
     /\ UNCHANGED <<minute, minuteOf, snap, failures, missed>>

(* Mutant: the exception is swallowed and the next event handled.          *)
StoreFailsQuietly(e) ==
  /\ pc = "stream"
  /\ Deliver(e)
  /\ bucket' = [bucket EXCEPT ![minuteOf[e.u]].events = TRUE]
  /\ UNCHANGED <<book, minute, minuteOf, pc, snap, at, failures, history>>

(* The event is counted, but the event store raises before the book sees   *)
(* it; the exception ends the connection.                                  *)
StoreFails(e) ==
  /\ pc = "stream"
  /\ Earliest(e, wire)
  /\ LoseStream
  /\ bucket' = [bucket EXCEPT ![minuteOf[e.u]].events = TRUE]
  /\ UNCHANGED <<minute, minuteOf, pc, snap, at, failures, hurt>>

(* Mutant: the snapshot is taken for the state after the one it is of.     *)
FetchNext ==
  /\ pc = "fetch"
  /\ snap' \in 2..(engine + 1)
  /\ pc' = "set"
  /\ UNCHANGED <<bookVars, minute, minuteOf, at, bucket, failures, history>>

(* _resync_depth_book: the snapshot is one of the engine's states.         *)
FetchOk ==
  /\ pc = "fetch"
  /\ snap' \in 1..engine
  /\ pc' = "set"
  /\ UNCHANGED <<bookVars, minute, minuteOf, at, bucket, failures, history>>

(* The exception of a failed request is logged and forgotten.              *)
FetchFails ==
  /\ pc = "fetch"
  /\ failures < MaxFailures
  /\ failures' = failures + 1
  /\ pc' = "stream"
  /\ UNCHANGED <<bookVars, minute, minuteOf, snap, at, bucket, history>>

(* set_depth_snapshot.  The buffer is empty here: a snapshot is asked for  *)
(* before the stream is opened or in the handler of the event that broke   *)
(* the book, though docs/missing_fields_implementation.md:201-205 have the *)
(* stream opened and buffered first and replayed then.  The replay is      *)
(* therefore left to DepthBook.                                            *)
SetSnapshot ==
  /\ pc = "set"
  /\ SyncFromSnapshot(snap)
  /\ bucket' = [bucket EXCEPT ![at] =
                  [events   |-> @.events,
                   synced   |-> @.synced \/ (synced' /\ @.events),
                   degraded |-> @.degraded \/ ~ synced']]
  /\ pc' = "stream"
  /\ UNCHANGED <<minute, minuteOf, snap, at, failures, history>>

SyncNext ==
  \/ EngineStep /\ UNCHANGED worker
  \/ SendEvent
  \/ OpenStream
  \/ LoseStream
       /\ UNCHANGED <<minute, minuteOf, pc, snap, at, bucket, failures, hurt>>
  \/ NextMinute
  \/ \E e \in wire : HandleEvent(e) \/ StoreFails(e)
  \/ FetchOk \/ FetchFails \/ SetSnapshot

SyncSpec == SyncInit /\ [][SyncNext]_syncVars

-----------------------------------------------------------------------------
(* Properties.                                                             *)

(* The worker is a caller DepthBook allows: it hands over the stream in    *)
(* order and snapshots the engine has produced, so that what holds of the  *)
(* book in anybody's hands holds of it here.                               *)
HandlesBookWell == BookSpec

(* Events come in over a broken book only after a snapshot request has     *)
(* failed: a gap, a lost connection or a snapshot that is too old or too   *)
(* new for the next event starts a resync before the next event is taken,  *)
(* and a resync that gets its snapshot leaves the book synchronised        *)
(* (_on_depth_message, _resync_depth_book).                                *)
BlindOnlyByFailure == pc = "stream" /\ ~ synced => failures > 0

(* _depth_degraded_for_bucket.                                             *)
DepthDegraded(m) == bucket[m].degraded \/ ~ bucket[m].synced

(* A minute with an event that broke the book or came while it was broken  *)
(* is reported as degraded, however late the event was handled and in      *)
(* whichever minute the snapshot came; and a minute is reported as         *)
(* degraded only for that, or for an event of it that was lost.            *)
DegradedWhereHurt ==
  \A m \in ClockMinutes : bucket[m].events =>
    /\ m \in hurt => DepthDegraded(m)
    /\ DepthDegraded(m) => m \in hurt \/ \E i \in missed : minuteOf[i] = m

(* Events are buffered only while a snapshot is on its way, to be applied  *)
(* on top of it: a broken book is being resynced.                          *)
BrokenBookIsResynced == pc = "stream" => buffer = {}
=============================================================================
