-------------------------- MODULE DepthSync_proofs --------------------------
(***************************************************************************)
(* Proofs about DepthBook, DepthSync and DepthLevels, for any number of    *)
(* updates, lost connections, minutes and failed requests, and any prices, *)
(* quantities and limit of the snapshots.                                  *)
(***************************************************************************)
EXTENDS DepthSync, DepthLevels, Induction

(* What apply_event relies on: an event begins where the one before it,    *)
(* whose last update it names in pu, has ended.                            *)
Proper(e) ==
  /\ e \in Events
  /\ e.U <= e.u
  /\ e.pu # NoPu => e.pu = e.U - 1

BookInv ==
  /\ BookTypeOK
  /\ \A e \in wire \union buffer \union replaying : Proper(e)
  /\ BookFaithful
  /\ BufferOnlyWhenLost

(* The invariant holds of the empty book.                                  *)
LEMMA BookInvInit == BookInit => BookInv
<1> SUFFICES ASSUME BookInit PROVE BookInv
  OBVIOUS
<1>0. MaxId \in Nat /\ MaxDrops \in Nat
  BY DepthAssumption
<1>1. /\ engine \in 0..MaxId /\ sent \in 0..engine
      /\ drops \in 0..MaxDrops /\ last \in 0..MaxId
  BY <1>0 DEF BookInit
<1>2. connected \in BOOLEAN /\ synced \in BOOLEAN /\ degraded \in BOOLEAN
  BY DEF BookInit
<1>3. /\ wire \subseteq Events /\ buffer \subseteq Events
      /\ replaying \subseteq Events /\ have \subseteq Ids
  BY DEF BookInit
<1> QED
  BY <1>1, <1>2, <1>3
  DEF BookInit, BookInv, BookTypeOK, BookFaithful, BufferOnlyWhenLost

(* Extending a book that has 1..last by a proper event that continues it   *)
(* leaves no gap.                                                          *)
LEMMA NoGap ==
  ASSUME BookInv, NEW e, Proper(e), ExtendBook(e)
  PROVE  have' = 1..last' /\ last' \in 0..MaxId /\ have' \subseteq Ids
<1>1. /\ have = 1..last /\ last \in 0..MaxId
      /\ have' = have \union (e.U .. e.u) /\ last' = e.u
  BY DEF BookInv, BookTypeOK, BookFaithful, ExtendBook
<1>2. e.U \in 1..MaxId /\ e.u \in 1..MaxId /\ e.U <= e.u /\ ~ (e.u <= last)
  BY DEF Proper, Events, Ids, ExtendBook, Stale
<1>3. e.U <= last + 1
  BY <1>1, <1>2, DepthAssumption DEF ExtendBook, Continuous, Proper, Events
<1> QED
  BY <1>1, <1>2, <1>3, DepthAssumption DEF Ids

(* What handing a proper event to the book does to it.                     *)
LEMMA TakeInStep ==
  ASSUME BookInv, NEW e, Proper(e), TakeIn(e) \/ BreakBook(e)
  PROVE  /\ have' \subseteq Ids /\ last' \in 0..MaxId
         /\ synced' \in BOOLEAN /\ degraded' \in BOOLEAN
         /\ buffer' \subseteq Events /\ \A f \in buffer' : Proper(f)
         /\ BookFaithful' /\ BufferOnlyWhenLost'
<1>1. CASE BufferEvent(e)
  BY <1>1 DEF BufferEvent, BookInv, BookTypeOK, BookFaithful,
              BufferOnlyWhenLost, Proper
<1>2. CASE SkipEvent(e)
  BY <1>2 DEF SkipEvent, BookInv, BookTypeOK, BookFaithful, BufferOnlyWhenLost
<1>3. CASE ExtendBook(e)
  <2>1. have' = 1..last' /\ last' \in 0..MaxId /\ have' \subseteq Ids
    BY <1>3, NoGap
  <2> QED
    BY <1>3, <2>1 DEF ExtendBook, BookInv, BookTypeOK, BookFaithful,
                      BufferOnlyWhenLost
<1>4. CASE BreakBook(e)
  BY <1>4 DEF BreakBook, MarkDegraded, BookInv, BookTypeOK, BookFaithful,
              BufferOnlyWhenLost
<1> QED
  BY <1>1, <1>2, <1>3, <1>4 DEF TakeIn

(* Every step of the book, whoever takes it, preserves the invariant.      *)
LEMMA BookInvStep == BookInv /\ [BookNext]_bookVars => BookInv'
<1> SUFFICES ASSUME BookInv, [BookNext]_bookVars PROVE BookInv'
  OBVIOUS
<1>1. CASE EngineStep
  BY <1>1, DepthAssumption
  DEF EngineStep, book, BookInv, BookTypeOK, BookFaithful, BufferOnlyWhenLost, Proper
<1>2. CASE Emit
  <2>1. PICK withPu \in PuSent :
          LET e == [U |-> sent + 1, u |-> engine,
                    pu |-> IF withPu THEN sent ELSE NoPu]
          IN wire' = IF connected THEN wire \union {e} ELSE wire
    BY <1>2 DEF Emit
  <2> DEFINE e == [U |-> sent + 1, u |-> engine,
                   pu |-> IF withPu THEN sent ELSE NoPu]
  <2>2. sent \in Nat /\ engine \in 0..MaxId /\ sent < engine
    BY <1>2, DepthAssumption DEF Emit, BookInv, BookTypeOK
  <2>3. Proper(e)
    BY <2>2, DepthAssumption DEF Proper, Events, Ids
  <2>4. \A f \in wire' : Proper(f)
    BY <2>1, <2>3 DEF BookInv
  <2>5. wire' \subseteq Events
    BY <2>4 DEF Proper
  <2> QED
    BY <1>2, <2>2, <2>4, <2>5
    DEF Emit, book, BookInv, BookTypeOK, BookFaithful, BufferOnlyWhenLost
<1>3. CASE Connect
  BY <1>3 DEF Connect, book, BookInv, BookTypeOK, BookFaithful, BufferOnlyWhenLost
<1>4. CASE Disconnect
  <2>1. drops' \in 0..MaxDrops
    BY <1>4, DepthAssumption DEF Disconnect, BookInv, BookTypeOK
  <2>2. wire' = {} /\ connected' = FALSE /\ UNCHANGED <<engine, sent, book>>
    BY <1>4 DEF Disconnect
  <2> QED
    BY <2>1, <2>2
    DEF book, BookInv, BookTypeOK, BookFaithful, BufferOnlyWhenLost
<1>5. CASE \E e \in wire : Deliver(e) /\ (TakeIn(e) \/ BreakBook(e))
  <2>1. PICK e \in wire : Deliver(e) /\ (TakeIn(e) \/ BreakBook(e))
    BY <1>5
  <2>2. Proper(e)
    BY DEF BookInv
  <2>3. /\ have' \subseteq Ids /\ last' \in 0..MaxId
        /\ synced' \in BOOLEAN /\ degraded' \in BOOLEAN
        /\ buffer' \subseteq Events /\ \A f \in buffer' : Proper(f)
        /\ BookFaithful' /\ BufferOnlyWhenLost'
    BY <2>1, <2>2, TakeInStep
  <2>4. /\ engine' = engine /\ sent' = sent /\ connected' = connected
        /\ drops' = drops /\ replaying' = replaying /\ wire' \subseteq wire
    BY <2>1 DEF Deliver
  <2> QED
    BY <2>3, <2>4 DEF BookInv, BookTypeOK
<1>6. CASE \E id \in 1..engine : SyncFromSnapshot(id)
  <2>1. PICK id \in 1..engine : SyncFromSnapshot(id)
    BY <1>6
  <2>2. /\ have' = 1..id /\ last' = id /\ buffer' = {}
        /\ synced' \in BOOLEAN /\ degraded' = ~ synced'
        /\ replaying' \subseteq buffer /\ UNCHANGED stream
    BY <2>1 DEF SyncFromSnapshot
  <2>3. id \in 1..MaxId
    BY DepthAssumption DEF BookInv, BookTypeOK
  <2> QED
    BY <2>2, <2>3, DepthAssumption
    DEF stream, Ids, BookInv, BookTypeOK, BookFaithful, BufferOnlyWhenLost
<1>7. CASE ReplayEvent
  <2>1. PICK e \in replaying : /\ TakeIn(e) \/ BreakBook(e)
                               /\ replaying' \subseteq replaying
    BY <1>7 DEF ReplayEvent, TakeIn
  <2>2. Proper(e)
    BY DEF BookInv
  <2>3. /\ have' \subseteq Ids /\ last' \in 0..MaxId
        /\ synced' \in BOOLEAN /\ degraded' \in BOOLEAN
        /\ buffer' \subseteq Events /\ \A f \in buffer' : Proper(f)
        /\ BookFaithful' /\ BufferOnlyWhenLost'
    BY <2>1, <2>2, TakeInStep
  <2> QED
    BY <1>7, <2>1, <2>3 DEF ReplayEvent, stream, BookInv, BookTypeOK
<1>8. CASE UNCHANGED bookVars
  BY <1>8 DEF bookVars, stream, book, BookInv, BookTypeOK, BookFaithful,
              BufferOnlyWhenLost
<1> QED
  BY <1>1, <1>2, <1>3, <1>4, <1>5, <1>6, <1>7, <1>8 DEF BookNext

(* A synchronised DepthOrderBook has every update up to its last one, with *)
(* or without pu in the events, whenever the connection is lost and        *)
(* whichever snapshots it is given: apply_event lets no gap pass.          *)
THEOREM BookIsFaithful == BookSpec => []BookFaithful
<1>1. BookInv => BookFaithful
  BY DEF BookInv
<1> QED
  BY BookInvInit, BookInvStep, <1>1, PTL DEF BookSpec

(* A synchronised DepthOrderBook has nothing buffered.                     *)
THEOREM BufferIsEmptyWhenSynced == BookSpec => []BufferOnlyWhenLost
<1>1. BookInv => BufferOnlyWhenLost
  BY DEF BookInv
<1> QED
  BY BookInvInit, BookInvStep, <1>1, PTL DEF BookSpec

-----------------------------------------------------------------------------
(* The worker.  It fetches a snapshot before the stream is opened or when  *)
(* an event has broken the book, which was synchronised until then, so     *)
(* the buffer is empty until the snapshot is set, and a book that is       *)
(* broken in the stream is so because a request has failed.                *)
WorkerInv ==
  /\ synced \in BOOLEAN
  /\ replaying = {}
  /\ synced => buffer = {}
  /\ pc \in {"fetch", "set"} => buffer = {}
  /\ pc = "set" => snap \in 1..engine
  /\ engine \in Nat /\ failures \in Nat
  /\ BlindOnlyByFailure

(* A snapshot set while nothing is buffered synchronises the book.         *)
LEMMA SetWithoutBuffer ==
  ASSUME NEW id, buffer = {}, SyncFromSnapshot(id)
  PROVE  synced' = TRUE /\ buffer' = {} /\ replaying' = {} /\ UNCHANGED stream
  BY DEF SyncFromSnapshot

(* The worker starts with an empty book.                                   *)
LEMMA WorkerInit == SyncInit => BookInit /\ WorkerInv
<1> SUFFICES ASSUME SyncInit PROVE BookInit /\ WorkerInv
  OBVIOUS
<1>1. BookInit /\ pc = "fetch"
  BY DEF SyncInit
<1>2. synced \in BOOLEAN /\ ~ synced
  BY <1>1 DEF BookInit
<1> QED
  BY <1>1, <1>2 DEF BookInit, WorkerInv, BlindOnlyByFailure, SyncInit

(* Each step of the worker is one that any caller of the book may take, or *)
(* none of the book's, and keeps the invariant.                            *)
LEMMA WorkerStep ==
  WorkerInv /\ [SyncNext]_syncVars => [BookNext]_bookVars /\ WorkerInv'
<1> SUFFICES ASSUME WorkerInv, [SyncNext]_syncVars
             PROVE  [BookNext]_bookVars /\ WorkerInv'
  OBVIOUS
<1> USE DEF BlindOnlyByFailure
<1>1. CASE EngineStep /\ UNCHANGED worker
  BY <1>1 DEF EngineStep, book, worker, WorkerInv, BookNext
<1>2. CASE SendEvent
  BY <1>2 DEF SendEvent, Emit, book, WorkerInv, BookNext
<1>3. CASE OpenStream
  BY <1>3 DEF OpenStream, Connect, book, worker, WorkerInv, BookNext
<1>4. CASE /\ LoseStream
           /\ UNCHANGED <<minute, minuteOf, pc, snap, at, bucket, failures, hurt>>
  BY <1>4 DEF LoseStream, Disconnect, book, WorkerInv, BookNext
<1>5. CASE NextMinute
  BY <1>5 DEF NextMinute, bookVars, stream, book, WorkerInv
<1>6. ASSUME NEW e \in wire, HandleEvent(e)
      PROVE  [BookNext]_bookVars /\ WorkerInv'
  <2>1. /\ Deliver(e) /\ pc = "stream" /\ snap' = snap /\ failures' = failures
        /\ \/ TakeIn(e) /\ pc' = pc
           \/ BreakBook(e) /\ pc' = "fetch"
    BY <1>6 DEF HandleEvent
  <2>2. BookNext
    BY <2>1 DEF BookNext, WorkerInv
  <2>3. CASE TakeIn(e) /\ pc' = pc
    <3>1. synced' = synced /\ (synced => buffer' = buffer)
      BY <2>3 DEF TakeIn, BufferEvent, SkipEvent, ExtendBook
    <3> QED
      BY <2>1, <2>2, <2>3, <3>1 DEF Deliver, WorkerInv
  <2>4. CASE BreakBook(e) /\ pc' = "fetch"
    <3>1. synced /\ synced' = FALSE /\ buffer' = buffer
      BY <2>4 DEF BreakBook, MarkDegraded
    <3> QED
      BY <2>1, <2>2, <2>4, <3>1 DEF Deliver, WorkerInv
  <2> QED
    BY <2>1, <2>2, <2>3, <2>4
<1>7. ASSUME NEW e \in wire, StoreFails(e)
      PROVE  [BookNext]_bookVars /\ WorkerInv'
  BY <1>7 DEF StoreFails, LoseStream, Disconnect, book, WorkerInv, BookNext
<1>8. CASE FetchOk
  BY <1>8 DEF FetchOk, bookVars, stream, book, WorkerInv
<1>9. CASE FetchFails
  BY <1>9 DEF FetchFails, bookVars, stream, book, WorkerInv
<1>10. CASE SetSnapshot
  <2>1. snap \in 1..engine /\ SyncFromSnapshot(snap) /\ buffer = {}
        /\ pc' = "stream" /\ failures' = failures
    BY <1>10 DEF SetSnapshot, WorkerInv
  <2>2. BookNext
    BY <2>1 DEF BookNext
  <2>3. /\ synced' = TRUE /\ buffer' = {} /\ replaying' = {}
        /\ UNCHANGED stream
    BY <2>1, SetWithoutBuffer
  <2> QED
    BY <2>1, <2>2, <2>3 DEF WorkerInv, stream
<1>11. CASE UNCHANGED syncVars
  BY <1>11 DEF syncVars, worker, bookVars, stream, book, WorkerInv
<1> QED
  BY <1>1, <1>2, <1>3, <1>4, <1>5, <1>6, <1>7, <1>8, <1>9, <1>10, <1>11
  DEF SyncNext

(* The worker is a caller the book allows, so that what is proved of the   *)
(* book in anybody's hands holds of it in the worker's.                    *)
THEOREM WorkerHandlesBookWell == SyncSpec => HandlesBookWell
<1> QED
  BY WorkerInit, WorkerStep, PTL DEF SyncSpec, HandlesBookWell, BookSpec

(* As long as no snapshot request fails, no event is taken in over a       *)
(* broken book: every gap is mended before the next event.                 *)
THEOREM BlindByFailureOnly == SyncSpec => []BlindOnlyByFailure
<1>1. WorkerInv => BlindOnlyByFailure
  BY DEF WorkerInv
<1> QED
  BY WorkerInit, WorkerStep, <1>1, PTL DEF SyncSpec

(* The book of the running worker has no gap while it is synchronised.     *)
COROLLARY WorkerBookIsFaithful == SyncSpec => []BookFaithful
  BY WorkerHandlesBookWell, BookIsFaithful, PTL DEF HandlesBookWell

(* Every value of the book and its stream keeps its type.                  *)
THEOREM BookTypeCorrect == BookSpec => []BookTypeOK
<1>1. BookInv => BookTypeOK
  BY DEF BookInv
<1> QED
  BY BookInvInit, BookInvStep, <1>1, PTL DEF BookSpec

-----------------------------------------------------------------------------
(* The minutes that are reported as degraded.  Events come in the order of *)
(* their minutes, so that the buckets counted in are behind those to come; *)
(* a book that is broken and not being resynced stays broken; and the only *)
(* buckets that look good then are those of minutes that are over.         *)
WorkerTypes ==
  /\ minute \in ClockMinutes
  /\ minuteOf \in [Ids -> ClockMinutes]
  /\ pc \in {"fetch", "set", "stream"}
  /\ snap \in 0..engine
  /\ at \in ClockMinutes
  /\ bucket \in [ClockMinutes -> Bucket]
  /\ failures \in 0..MaxFailures
  /\ hurt \subseteq ClockMinutes /\ missed \subseteq Ids

InTime ==
  /\ \A e \in wire : e.u <= sent /\ minuteOf[e.u] <= minute
  /\ \A e, f \in wire : e.u <= f.u => minuteOf[e.u] <= minuteOf[f.u]
  /\ \A m \in ClockMinutes : bucket[m].events =>
       m <= minute /\ \A e \in wire : m <= minuteOf[e.u]
  /\ \A i \in missed : i <= sent

Reported ==
  /\ \A m \in ClockMinutes :
       /\ bucket[m].degraded => m \in hurt
       /\ bucket[m].synced => bucket[m].events
       /\ bucket[m].events /\ ~ bucket[m].synced =>
            m \in hurt \/ \E i \in missed : minuteOf[i] = m
       /\ m \in hurt /\ ~ bucket[m].degraded =>
            ~ bucket[m].synced /\ ~ synced /\ pc = "stream"
       /\ ~ synced /\ bucket[m].synced /\ ~ bucket[m].degraded =>
            m < minute /\ \A e \in wire : m < minuteOf[e.u]

BucketInv == BookInv /\ WorkerInv /\ WorkerTypes /\ InTime /\ Reported

(* Nothing has come yet.                                                   *)
LEMMA BucketInit == SyncInit => BucketInv
<1> SUFFICES ASSUME SyncInit PROVE BucketInv
  OBVIOUS
<1>1. BookInv /\ WorkerInv
  BY WorkerInit, BookInvInit
<1>2. 0 \in ClockMinutes /\ 0 \in 0..MaxFailures /\ 0 \in 0..engine
  BY SyncAssumption DEF ClockMinutes, SyncInit, BookInit
<1>3. \A m \in ClockMinutes :
        bucket[m] = [events |-> FALSE, synced |-> FALSE, degraded |-> FALSE]
  BY DEF SyncInit
<1>4. /\ WorkerTypes /\ hurt = {} /\ missed = {} /\ wire = {}
  BY <1>2 DEF SyncInit, BookInit, WorkerTypes, Bucket
<1> QED
  BY <1>1, <1>3, <1>4 DEF BucketInv, InTime, Reported

(* The same buckets, read again after a step that takes no event away from *)
(* the minutes counted, opens nothing new and leaves the book alone.       *)
LEMMA QuietStep ==
  ASSUME BucketInv, BookInv', WorkerInv', WorkerTypes',
         UNCHANGED <<bucket, minuteOf, hurt, synced>>,
         minute <= minute', sent <= sent', wire' \subseteq wire,
         missed \subseteq missed', \A i \in missed' : i <= sent',
         pc = "stream" => pc' = "stream"
  PROVE  BucketInv'
<1> USE DEF BucketInv
<1>0. /\ minute \in Int /\ minute' \in Int /\ sent \in Int /\ sent' \in Int
      /\ \A m \in ClockMinutes : m \in Int
      /\ \A e \in wire : e.u \in Int /\ minuteOf[e.u] \in ClockMinutes
  BY SyncAssumption, DepthAssumption
  DEF WorkerTypes, ClockMinutes, BookInv, BookTypeOK, Proper, Events, Ids
<1>1. InTime'
  BY <1>0 DEF InTime
<1>2. Reported'
  BY <1>0 DEF Reported
<1> QED
  BY <1>1, <1>2

(* An event is sent: in the minute of the clock, after all others.         *)
LEMMA SendStep ==
  ASSUME BucketInv, BookInv', WorkerInv', SendEvent
  PROVE  BucketInv'
<1> USE DEF BucketInv
<1>1. /\ sent < engine /\ sent' = engine
      /\ minuteOf' = [minuteOf EXCEPT ![engine] = minute]
      /\ missed' \subseteq missed \union {engine} /\ missed \subseteq missed'
      /\ UNCHANGED <<minute, pc, snap, at, bucket, failures, hurt, synced, engine>>
  BY DEF SendEvent, Emit, book
<1>2. /\ minute \in Int /\ sent \in Int /\ engine \in Ids /\ engine \in Int
      /\ \A m \in ClockMinutes : m \in Int
      /\ \A e \in wire : e.u \in Int /\ e.u \in Ids
      /\ \A i \in Ids : i \in Int /\ minuteOf[i] \in ClockMinutes
  BY <1>1, SyncAssumption, DepthAssumption
  DEF WorkerTypes, ClockMinutes, BookInv, BookTypeOK, Proper, Events, Ids
<1>3. \A e \in wire' : e \in wire \/ e.u = engine
  BY DEF SendEvent, Emit
<1>4. minuteOf'[engine] = minute /\ \A i \in Ids : i <= sent => minuteOf'[i] = minuteOf[i]
  BY <1>1, <1>2 DEF WorkerTypes
<1>5. WorkerTypes'
  BY <1>1, <1>2 DEF WorkerTypes
<1>6. \A e \in wire : e.u <= sent /\ minuteOf'[e.u] = minuteOf[e.u]
  BY <1>2, <1>4 DEF InTime
<1>7. InTime'
  <2>1. \A e \in wire' : e.u <= sent' /\ minuteOf'[e.u] <= minute'
    BY <1>1, <1>2, <1>3, <1>4, <1>6 DEF InTime
  <2>2. ASSUME NEW e \in wire', NEW f \in wire', e.u <= f.u
        PROVE  minuteOf'[e.u] <= minuteOf'[f.u]
    <3>1. CASE f \in wire /\ e \in wire
      BY <1>6, <2>2, <3>1 DEF InTime
    <3>2. CASE f.u = engine
      BY <1>1, <1>4, <2>1, <3>2
    <3>3. CASE e.u = engine /\ f \in wire
      BY <1>1, <1>2, <1>6, <2>2, <3>3
    <3> QED
      BY <1>3, <3>1, <3>2, <3>3
  <2>3. \A m \in ClockMinutes : bucket'[m].events =>
          m <= minute' /\ \A e \in wire' : m <= minuteOf'[e.u]
    BY <1>1, <1>3, <1>4, <1>6 DEF InTime
  <2>4. \A i \in missed' : i <= sent'
    BY <1>1, <1>2 DEF InTime, WorkerTypes
  <2> QED
    BY <2>1, <2>2, <2>3, <2>4 DEF InTime
<1>8. Reported'
  <2>1. \A i \in missed : i \in missed' /\ minuteOf'[i] = minuteOf[i]
    BY <1>1, <1>4 DEF InTime, WorkerTypes
  <2>2. \A m \in ClockMinutes :
          (~ synced /\ bucket[m].synced /\ ~ bucket[m].degraded) =>
            m < minute' /\ \A e \in wire' : m < minuteOf'[e.u]
    BY <1>1, <1>3, <1>4, <1>6 DEF Reported
  <2>3. \A m \in ClockMinutes :
          (\E i \in missed : minuteOf[i] = m) => \E i \in missed' : minuteOf'[i] = m
    BY <2>1
  <2> QED
    BY <1>1, <2>2, <2>3 DEF Reported
<1> QED
  BY <1>5, <1>7, <1>8

(* An event is counted.  If it breaks the book its bucket is degraded, and *)
(* every bucket that still looks good is of a minute before.               *)
LEMMA HandleStep ==
  ASSUME BucketInv, BookInv', WorkerInv', NEW e \in wire, HandleEvent(e)
  PROVE  BucketInv'
<1> USE DEF BucketInv
<1> DEFINE m == minuteOf[e.u]
<1>1. /\ pc = "stream" /\ Earliest(e, wire) /\ wire' \subseteq wire
      /\ sent' = sent /\ engine' = engine
      /\ UNCHANGED <<minute, minuteOf, snap, failures, missed>>
  BY DEF HandleEvent, Deliver
<1>2. /\ minute \in Int /\ minute \in ClockMinutes /\ m \in ClockMinutes
      /\ \A k \in ClockMinutes : k \in Int
      /\ \A f \in wire : e.u <= f.u /\ minuteOf[f.u] \in ClockMinutes
      /\ synced \in BOOLEAN /\ synced' \in BOOLEAN
  BY <1>1, SyncAssumption
  DEF WorkerTypes, ClockMinutes, BookInv, BookTypeOK, Proper, Events, Earliest
<1>3. /\ bucket' = [bucket EXCEPT ![m] =
                      [events   |-> TRUE,
                       synced   |-> @.synced \/ synced',
                       degraded |-> @.degraded \/ (synced /\ ~ synced')]]
      /\ hurt' = IF synced' THEN hurt ELSE hurt \union {m}
  BY DEF HandleEvent
<1>4. \/ synced' = synced /\ pc' = "stream" /\ at' = at
      \/ synced /\ ~ synced' /\ pc' = "fetch" /\ at' = minute
  BY <1>1 DEF HandleEvent, TakeIn, BufferEvent, SkipEvent, ExtendBook,
              BreakBook, MarkDegraded
<1>5. /\ bucket[m] \in Bucket
      /\ bucket'[m] = [events   |-> TRUE,
                       synced   |-> bucket[m].synced \/ synced',
                       degraded |-> bucket[m].degraded \/ (synced /\ ~ synced')]
      /\ \A k \in ClockMinutes \ {m} : bucket'[k] = bucket[k]
  BY <1>2, <1>3 DEF WorkerTypes
<1>6. bucket' \in [ClockMinutes -> Bucket]
  BY <1>2, <1>3, <1>5 DEF WorkerTypes, Bucket
<1>7. WorkerTypes'
  BY <1>1, <1>2, <1>3, <1>4, <1>6 DEF WorkerTypes
<1>8. m <= minute /\ \A f \in wire : m <= minuteOf[f.u]
  BY <1>2 DEF InTime
<1>i. /\ m \in Int /\ minute \in Int /\ \A k \in ClockMinutes : k \in Int
      /\ \A f \in wire : minuteOf[f.u] \in Int
  BY <1>2
<1>m. e \in wire /\ minuteOf[e.u] = m
  OBVIOUS
<1>9. InTime'
  <2>1. \A k \in ClockMinutes : bucket'[k].events =>
          k <= minute /\ \A f \in wire : k <= minuteOf[f.u]
    BY <1>5, <1>8 DEF InTime
  <2> QED
    BY <1>1, <2>1 DEF InTime
<1>10. ASSUME NEW k \in ClockMinutes
       PROVE  /\ bucket'[k].degraded => k \in hurt'
              /\ bucket'[k].synced => bucket'[k].events
              /\ bucket'[k].events /\ ~ bucket'[k].synced =>
                   k \in hurt' \/ \E i \in missed : minuteOf[i] = k
              /\ k \in hurt' /\ ~ bucket'[k].degraded =>
                   ~ bucket'[k].synced /\ ~ synced' /\ pc' = "stream"
              /\ ~ synced' /\ bucket'[k].synced /\ ~ bucket'[k].degraded =>
                   k < minute /\ \A f \in wire : k < minuteOf[f.u]
  <2>1. CASE k = m
    <3>1. ~ synced /\ bucket[m].synced => bucket[m].degraded
      <4>1. ~ synced /\ bucket[m].synced /\ ~ bucket[m].degraded => m < m
        BY <1>2, <1>m DEF Reported
      <4>2. ~ (m < m)
        BY <1>i
      <4> QED
        BY <4>1, <4>2
    <3>2. bucket[m].degraded => m \in hurt
      BY <1>2 DEF Reported
    <3>3. m \in hurt /\ ~ bucket[m].degraded => ~ synced /\ ~ bucket[m].synced
      BY <1>2 DEF Reported
    <3>4. /\ bucket'[m].events
          /\ bucket'[m].synced = (bucket[m].synced \/ synced')
          /\ bucket'[m].degraded =
               (bucket[m].degraded \/ (synced /\ ~ synced'))
      BY <1>5
    <3>5. (m \in hurt' <=> m \in hurt \/ ~ synced')
      BY <1>2, <1>3
    <3> HIDE DEF m
    <3>6. /\ bucket'[m].synced <=> (bucket[m].synced \/ synced')
          /\ bucket'[m].degraded <=>
               (bucket[m].degraded \/ (synced /\ ~ synced'))
      BY <3>4
    <3>7. \/ (synced' <=> synced) /\ pc' = "stream"
          \/ synced /\ ~ synced'
      BY <1>4
    <3> QED
      BY <2>1, <3>1, <3>2, <3>3, <3>4, <3>5, <3>6, <3>7, Zenon
  <2>2. CASE k # m
    <3>1. bucket'[k] = bucket[k] /\ (k \in hurt' <=> k \in hurt)
      BY <1>3, <1>5, <2>2
    <3>2. /\ bucket[k].degraded => k \in hurt
          /\ bucket[k].synced => bucket[k].events
          /\ bucket[k].events /\ ~ bucket[k].synced =>
               k \in hurt \/ \E i \in missed : minuteOf[i] = k
      BY DEF Reported
    <3>3. k \in hurt /\ ~ bucket[k].degraded =>
            ~ bucket[k].synced /\ ~ synced' /\ pc' = "stream"
      BY <1>4 DEF Reported
    <3>4. CASE ~ synced
      BY <1>4, <3>1, <3>2, <3>3, <3>4 DEF Reported
    <3>5. CASE synced
      <4>1. bucket[k].synced => k <= m
        BY <1>m, <3>2 DEF InTime
      <4> HIDE DEF m
      <4>2. k <= m => k < m
        BY <1>i, <2>2
      <4>3. k < m => k < minute /\ \A f \in wire : k < minuteOf[f.u]
        BY <1>i, <1>8
      <4> QED
        BY <3>1, <3>2, <3>3, <4>1, <4>2, <4>3
    <3> QED
      BY <3>4, <3>5
  <2> QED
    BY <2>1, <2>2
<1>11. Reported'
  BY <1>1, <1>10 DEF Reported
<1> QED
  BY <1>7, <1>9, <1>11

(* The event is counted and then lost.                                     *)
LEMMA StoreFailsStep ==
  ASSUME BucketInv, BookInv', WorkerInv', NEW e \in wire, StoreFails(e)
  PROVE  BucketInv'
<1> USE DEF BucketInv
<1> DEFINE m == minuteOf[e.u]
<1>1. /\ wire' = {} /\ sent' = sent /\ engine' = engine /\ synced' = synced
      /\ missed' = missed \union { f.u : f \in wire }
      /\ bucket' = [bucket EXCEPT ![m].events = TRUE]
      /\ UNCHANGED <<minute, minuteOf, pc, snap, at, failures, hurt>>
  BY DEF StoreFails, LoseStream, Disconnect, book
<1>2. /\ m \in ClockMinutes /\ bucket[m] \in Bucket
      /\ \A f \in wire : f.u \in Ids
  BY DEF WorkerTypes, BookInv, BookTypeOK, Events
<1>3. /\ bucket'[m] = [bucket[m] EXCEPT !.events = TRUE]
      /\ \A k \in ClockMinutes \ {m} : bucket'[k] = bucket[k]
  BY <1>1, <1>2 DEF WorkerTypes
<1>4. bucket' \in [ClockMinutes -> Bucket]
  BY <1>1, <1>2 DEF WorkerTypes, Bucket
<1>5. WorkerTypes'
  BY <1>1, <1>2, <1>4 DEF WorkerTypes
<1>6. \A k \in ClockMinutes : /\ bucket'[k].synced = bucket[k].synced
                              /\ bucket'[k].degraded = bucket[k].degraded
                              /\ k # m => bucket'[k].events = bucket[k].events
  BY <1>2, <1>3 DEF Bucket
<1>7. bucket'[m].events
  BY <1>2, <1>3 DEF Bucket
<1>8. InTime'
  BY <1>1, <1>6 DEF InTime
<1>9. e.u \in missed' /\ minuteOf[e.u] = m
  BY <1>1
<1>10. Reported'
  BY <1>1, <1>6, <1>7, <1>9 DEF Reported
<1> QED
  BY <1>5, <1>8, <1>10

(* The snapshot is set: the book is good again.                            *)
LEMMA SetStep ==
  ASSUME BucketInv, BookInv', WorkerInv', SetSnapshot
  PROVE  BucketInv'
<1> USE DEF BucketInv
<1>1. pc = "set" /\ SyncFromSnapshot(snap) /\ buffer = {} /\ pc' = "stream"
  BY DEF SetSnapshot, WorkerInv
<1>2. synced' = TRUE /\ UNCHANGED stream
  BY <1>1, SetWithoutBuffer
<1> DEFINE old == bucket[at]
           new == [events   |-> old.events,
                   synced   |-> old.synced \/ (synced' /\ old.events),
                   degraded |-> old.degraded \/ ~ synced']
<1>3. /\ bucket' = [bucket EXCEPT ![at] = new]
      /\ UNCHANGED <<minute, minuteOf, snap, at, failures, history>>
  BY DEF SetSnapshot
<1>4. at \in ClockMinutes /\ bucket[at] \in Bucket
  BY DEF WorkerTypes
<1>b. /\ bucket'[at] = new
      /\ \A k \in ClockMinutes \ {at} : bucket'[k] = bucket[k]
  <2> HIDE DEF new
  <2> QED BY <1>3, <1>4 DEF WorkerTypes
<1>c. /\ bucket'[at] \in Bucket
      /\ bucket'[at].events = bucket[at].events
      /\ bucket'[at].degraded = bucket[at].degraded
      /\ bucket'[at].synced = (bucket[at].synced \/ bucket[at].events)
  BY <1>2, <1>4, <1>b DEF Bucket
<1>5. /\ bucket' \in [ClockMinutes -> Bucket]
      /\ \A k \in ClockMinutes :
           /\ bucket'[k].events = bucket[k].events
           /\ bucket'[k].degraded = bucket[k].degraded
           /\ bucket[k].synced => bucket'[k].synced
           /\ bucket'[k].synced => bucket[k].synced \/ bucket[k].events
  BY <1>3, <1>4, <1>b, <1>c DEF WorkerTypes
<1>6. WorkerTypes'
  BY <1>1, <1>2, <1>3, <1>5 DEF WorkerTypes, stream, history
<1>7. InTime'
  BY <1>2, <1>3, <1>5 DEF InTime, stream, history
<1>8. Reported'
  BY <1>1, <1>2, <1>3, <1>5 DEF Reported, history
<1> QED
  BY <1>6, <1>7, <1>8

(* Every step of the worker preserves it.                                  *)
LEMMA BucketStep == BucketInv /\ [SyncNext]_syncVars => BucketInv'
<1> SUFFICES ASSUME BucketInv, [SyncNext]_syncVars PROVE BucketInv'
  OBVIOUS
<1> USE DEF BucketInv
<1>b. BookInv' /\ WorkerInv'
  BY WorkerStep, BookInvStep
<1>i. /\ minute \in Int /\ sent \in Int /\ engine \in Nat
      /\ \A e \in wire : e.u \in Ids /\ e.u <= sent
      /\ \A i \in missed : i <= sent
  BY SyncAssumption, DepthAssumption
  DEF WorkerTypes, ClockMinutes, BookInv, BookTypeOK, Events, InTime
<1>1. CASE EngineStep /\ UNCHANGED worker
  <2>1. WorkerTypes'
    BY <1>1, <1>i DEF EngineStep, worker, history, WorkerTypes
  <2> QED
    BY <1>1, <1>b, <1>i, <2>1, QuietStep DEF EngineStep, book, worker, history
<1>2. CASE SendEvent
  BY <1>2, <1>b, SendStep
<1>3. CASE OpenStream
  <2>1. WorkerTypes'
    BY <1>3 DEF OpenStream, Connect, worker, history, WorkerTypes
  <2> QED
    BY <1>3, <1>b, <1>i, <2>1, QuietStep
    DEF OpenStream, Connect, book, worker, history
<1>4. CASE /\ LoseStream
           /\ UNCHANGED <<minute, minuteOf, pc, snap, at, bucket, failures, hurt>>
  <2>1. /\ wire' = {} /\ UNCHANGED <<engine, sent, synced>>
        /\ missed' = missed \union { e.u : e \in wire }
    BY <1>4 DEF LoseStream, Disconnect, book
  <2>2. WorkerTypes'
    BY <1>4, <1>i, <2>1 DEF WorkerTypes
  <2> QED
    BY <1>4, <1>b, <1>i, <2>1, <2>2, QuietStep
<1>5. CASE NextMinute
  <2>1. WorkerTypes' /\ minute <= minute'
    BY <1>5, <1>i, SyncAssumption
    DEF NextMinute, bookVars, stream, WorkerTypes, history, ClockMinutes
  <2> QED
    BY <1>5, <1>b, <1>i, <2>1, QuietStep
    DEF NextMinute, bookVars, stream, book, history
<1>6. ASSUME NEW e \in wire, HandleEvent(e) PROVE BucketInv'
  BY <1>6, <1>b, HandleStep
<1>7. ASSUME NEW e \in wire, StoreFails(e) PROVE BucketInv'
  BY <1>7, <1>b, StoreFailsStep
<1>8. CASE FetchOk
  <2>1. WorkerTypes'
    BY <1>8, <1>i DEF FetchOk, bookVars, stream, WorkerTypes, history
  <2> QED
    BY <1>8, <1>b, <1>i, <2>1, QuietStep
    DEF FetchOk, bookVars, stream, book, history
<1>9. CASE FetchFails
  <2>1. WorkerTypes'
    BY <1>9, <1>i, SyncAssumption
    DEF FetchFails, bookVars, stream, WorkerTypes, history
  <2> QED
    BY <1>9, <1>b, <1>i, <2>1, QuietStep
    DEF FetchFails, bookVars, stream, book, history
<1>10. CASE SetSnapshot
  BY <1>10, <1>b, SetStep
<1>11. CASE UNCHANGED syncVars
  <2>1. WorkerTypes'
    BY <1>11 DEF syncVars, worker, bookVars, stream, history, WorkerTypes
  <2> QED
    BY <1>11, <1>b, <1>i, <2>1, QuietStep
    DEF syncVars, worker, bookVars, stream, book, history
<1> QED
  BY <1>1, <1>2, <1>3, <1>4, <1>5, <1>6, <1>7, <1>8, <1>9, <1>10, <1>11
  DEF SyncNext

(* Every value of the worker keeps its type.                               *)
THEOREM SyncTypeCorrect == SyncSpec => []SyncTypeOK
<1>1. BucketInv => SyncTypeOK
  BY DEF BucketInv, WorkerTypes, SyncTypeOK, BookInv
<1> QED
  BY BucketInit, BucketStep, <1>1, PTL DEF SyncSpec

(* A minute whose events broke the book, or came while it was broken, is   *)
(* reported as degraded, and no other minute is but one that lost events:  *)
(* for any clock, any lost connections, failed snapshots and failures of   *)
(* the event store.                                                        *)
THEOREM DegradedMinutesAreHurt == SyncSpec => []DegradedWhereHurt
<1>1. BucketInv => DegradedWhereHurt
  BY DEF BucketInv, Reported, DegradedWhereHurt, DepthDegraded
<1> QED
  BY BucketInit, BucketStep, <1>1, PTL DEF SyncSpec

-----------------------------------------------------------------------------
(* The levels of the book.  What the market was after an update does not   *)
(* change any more, so that a level nobody has changed since is still what *)
(* it was.                                                                 *)
LogOK == log \in Seq(Update) /\ Len(log) = engine /\ engine \in Nat

(* The last update of a level is one of its updates.                       *)
LEMMA LastChange ==
  ASSUME NEW id \in Nat, NEW s, NEW p, Changes(1..id, s, p) # {}
  PROVE  Max(Changes(1..id, s, p)) \in Changes(1..id, s, p)
<1> DEFINE told == Changes(1..id, s, p)
<1>1. told \in SUBSET (0..id) /\ told # {}
  BY DEF Changes
<1>2. PICK g \in told : \A k \in told : k <= g
  <2> HIDE DEF told
  <2> QED BY <1>1, GreatestOf
<1>3. \E x \in told : \A y \in told : x >= y
  BY <1>1, <1>2
<1> QED
  BY <1>3 DEF Max

(* The market after any update has a quantity at every price.              *)
LEMMA MarketType ==
  ASSUME LogOK, NEW id \in Nat PROVE Market(id) \in Levels
<1>1. ASSUME NEW s \in Sides, NEW p \in Prices
      PROVE  Market(id)[s][p] \in 0..MaxQty
  <2>1. CASE Changes(1..id, s, p) = {}
    BY <2>1, LevelsAssumption DEF Market, Levels
  <2>2. CASE Changes(1..id, s, p) # {}
    <3> DEFINE i == Max(Changes(1..id, s, p))
    <3>1. i \in Changes(1..id, s, p)
      BY <2>2, LastChange
    <3>2. Changes(1..id, s, p) \subseteq 1..Len(log)
      BY DEF Changes
    <3>3. Market(id)[s][p] = log[i].qty
      BY <2>2 DEF Market
    <3>4. log[i] \in Update
      <4> HIDE DEF i
      <4> QED BY <3>1, <3>2 DEF LogOK
    <3> QED
      BY <3>3, <3>4 DEF Update
  <2> QED
    BY <2>1, <2>2
<1> QED
  BY <1>1 DEF Market, Levels

(* A further update leaves the markets of the past.                        *)
LEMMA MarketStays ==
  ASSUME LogOK, NEW u \in Update, log' = Append(log, u), NEW id \in 0..engine
  PROVE  Market(id)' = Market(id)
<1>1. ASSUME NEW s \in Sides, NEW p \in Prices
      PROVE  /\ Changes(1..id, s, p)' = Changes(1..id, s, p)
             /\ Changes(1..id, s, p) # {} =>
                  log'[Max(Changes(1..id, s, p))] = log[Max(Changes(1..id, s, p))]
  <2>1. \A i \in 1..id : i <= Len(log) /\ i <= Len(log') /\ log'[i] = log[i]
    BY DEF LogOK
  <2>2. Changes(1..id, s, p)' = Changes(1..id, s, p)
    BY <2>1 DEF Changes
  <2>3. ASSUME Changes(1..id, s, p) # {}
        PROVE  Max(Changes(1..id, s, p)) \in 1..id
    <3>1. Max(Changes(1..id, s, p)) \in Changes(1..id, s, p)
      BY <2>3, LastChange DEF LogOK
    <3>2. Changes(1..id, s, p) \subseteq 1..id
      BY DEF Changes
    <3> QED
      BY <3>1, <3>2
  <2> QED
    BY <2>1, <2>2, <2>3
<1> QED
  BY <1>1 DEF Market

(* A level no event from U to u has changed is what it was before U.       *)
LEMMA MarketBetween ==
  ASSUME NEW a \in Nat, NEW U \in Nat, NEW u \in Nat, U <= a + 1, a <= u, 1 <= U,
         NEW s \in Sides, NEW p \in Prices, Changes(U..u, s, p) = {}
  PROVE  Market(u)[s][p] = Market(a)[s][p]
<1>1. Changes(1..u, s, p) = Changes(1..a, s, p)
  BY DEF Changes
<1> QED
  BY <1>1 DEF Market

LevelsInv ==
  /\ BookInv /\ LogOK
  /\ levels \in Levels /\ known \in [Sides -> SUBSET Prices]
  /\ last <= engine
  /\ replaying # {} => synced
  /\ \A e \in wire \union buffer \union replaying : e.u <= engine
  /\ \A id \in 0..engine : ~Crossed(Market(id))
  /\ LevelsTrue

(* Levels of an uncrossed market are not crossed.                          *)
LEMMA PartNotCrossed ==
  ASSUME NEW l, NEW m, ~Crossed(m),
         \A s \in Sides, p \in Prices : l[s][p] > 0 => m[s][p] > 0
  PROVE  ~Crossed(l)
  BY DEF Crossed, PricesOf, Sides

(* An empty log is the opening market, of which the book knows nothing.    *)
LEMMA LevelsInit == Init => LevelsInv
<1> SUFFICES ASSUME Init PROVE LevelsInv
  OBVIOUS
<1>1. BookInv /\ engine = 0 /\ last = 0 /\ ~synced /\ wire = {} /\ buffer = {}
      /\ replaying = {}
  BY BookInvInit DEF Init, BookInit
<1>2. LogOK
  BY <1>1 DEF Init, LogOK
<1>3. Market(0) = Opening
  <2>1. \A s, p : Changes(1..0, s, p) = {}
    BY DEF Changes
  <2> QED
    BY <2>1, LevelsAssumption DEF Market, Levels
<1>4. ~Crossed(Opening)
  BY LevelsAssumption DEF Crossed, PricesOf, Prices
<1>5. levels \in Levels /\ known \in [Sides -> SUBSET Prices]
  BY LevelsAssumption DEF Init, Levels
<1> QED
  BY <1>1, <1>2, <1>3, <1>4, <1>5 DEF LevelsInv, LevelsTrue

(* An event that continues the book makes its levels those of the market   *)
(* at its end, as far as they are known; so it is a step of the book.      *)
LEMMA TakeIsExtend ==
  ASSUME LevelsInv, NEW e, Proper(e), e.u <= engine, TakeLevels(e)
  PROVE  /\ ExtendBook(e) /\ synced' = TRUE
         /\ levels' \in Levels /\ known' \in [Sides -> SUBSET Prices]
         /\ last' <= engine
         /\ \A s \in Sides, p \in Prices :
              levels'[s][p] = IF p \in known'[s] THEN Market(e.u)[s][p] ELSE 0
<1>1. /\ synced /\ ~degraded /\ last \in Nat /\ last < e.u /\ last' = e.u
      /\ e.U \in 1..MaxId /\ e.u \in 1..MaxId /\ e.U <= last + 1
  <2>1. /\ synced /\ ~degraded /\ last \in 0..MaxId
    BY DEF LevelsInv, BookInv, BookTypeOK, BookFaithful, TakeLevels
  <2>2. e.U \in 1..MaxId /\ e.u \in 1..MaxId /\ ~ (e.u <= last)
    BY DEF Proper, Events, Ids, TakeLevels, Stale
  <2>3. e.U <= last + 1
    BY <2>1, <2>2, DepthAssumption DEF TakeLevels, Continuous, Proper, Events
  <2> QED
    BY <2>1, <2>2, <2>3, DepthAssumption DEF TakeLevels
<1>2. Market(e.u) \in Levels
  BY <1>1, MarketType, DepthAssumption DEF LevelsInv
<1>3. levels' \in Levels /\ known' \in [Sides -> SUBSET Prices]
  <2>1. ASSUME NEW s \in Sides, NEW p \in Prices
        PROVE  ApplyDeltas(e)[s][p] \in 0..MaxQty
    BY <1>2 DEF ApplyDeltas, Levels, LevelsInv
  <2>2. levels' = ApplyDeltas(e)
    BY DEF TakeLevels
  <2>3. levels' \in Levels
    BY <2>1, <2>2 DEF ApplyDeltas, Levels
  <2> QED
    BY <2>3 DEF TakeLevels, LevelsInv
<1>4. ASSUME NEW s \in Sides, NEW p \in Prices
      PROVE  levels'[s][p] = IF p \in known'[s] THEN Market(e.u)[s][p] ELSE 0
  <2>1. /\ levels'[s][p] = IF Changes(e.U..e.u, s, p) = {} THEN levels[s][p]
                           ELSE Market(e.u)[s][p]
        /\ p \in known'[s] <=> p \in known[s] \/ Changes(e.U..e.u, s, p) # {}
    BY DEF TakeLevels, ApplyDeltas
  <2>2. levels[s][p] = IF p \in known[s] THEN Market(last)[s][p] ELSE 0
    BY <1>1 DEF LevelsInv, LevelsTrue
  <2>3. Changes(e.U..e.u, s, p) = {} => Market(e.u)[s][p] = Market(last)[s][p]
    BY <1>1, MarketBetween, DepthAssumption
  <2> QED
    BY <2>1, <2>2, <2>3
<1>5. ~Crossed(levels')
  <2>1. ~Crossed(Market(e.u))
    BY <1>1, DepthAssumption DEF LevelsInv, LogOK
  <2>2. \A s \in Sides, p \in Prices : levels'[s][p] > 0 => Market(e.u)[s][p] > 0
    BY <1>4
  <2> QED
    BY <2>1, <2>2, PartNotCrossed
<1>6. ExtendBook(e) /\ synced' = TRUE
  <2>1. synced' = TRUE /\ degraded' = degraded
    BY <1>1, <1>5 DEF TakeLevels, LevelsInv, BookInv, BookTypeOK
  <2> QED
    BY <1>1, <2>1 DEF TakeLevels, ExtendBook, LevelsInv, BookInv, BookTypeOK
<1> QED
  BY <1>1, <1>3, <1>4, <1>6

(* The prices with a level are finitely many, and so are the better ones.  *)
LEMMA FewerThan ==
  ASSUME NEW A, NEW B \in SUBSET Prices, A \subseteq B
  PROVE  Cardinality(A) \in Nat /\ Cardinality(A) <= Cardinality(B)
         /\ Cardinality(B) \in Nat
<1>1. IsFiniteSet(Prices)
  BY LevelsAssumption, FS_Interval DEF Prices
<1>2. IsFiniteSet(B)
  BY <1>1, FS_Subset
<1>3. IsFiniteSet(A) /\ Cardinality(A) <= Cardinality(B)
  BY <1>2, FS_Subset
<1> QED
  BY <1>2, <1>3, FS_CardinalityType

(* Of levels that are not listed one is the best.                          *)
LEMMA BestOf ==
  ASSUME NEW s \in Sides, NEW S \in SUBSET Prices, S # {}
  PROVE  \E b \in S : \A r \in S : ~Better(s, r, b)
<1>1. S \in SUBSET Nat /\ S \in SUBSET (0..MaxPrice) /\ MaxPrice \in Nat
  BY LevelsAssumption DEF Prices
<1>2. CASE s = "bid"
  <2>1. PICK b \in S : \A r \in S : r <= b
    BY <1>1, GreatestOf
  <2> QED
    BY <1>1, <1>2, <2>1 DEF Better
<1>3. CASE s = "ask"
  <2>1. PICK b \in S : \A r \in S : b <= r
    BY <1>1, LeastOf
  <2> QED
    BY <1>1, <1>3, <2>1 DEF Better
<1> QED
  BY <1>2, <1>3 DEF Sides

(* A snapshot lists every level of the market that the book may take to be *)
(* told of, and no other.                                                  *)
LEMMA ListedIsTold ==
  ASSUME NEW id, NEW s \in Sides, NEW p \in Prices, Market(id) \in Levels
  PROVE  Listed(id)[s][p] =
           IF p \in ToldBySnapshot(id, s) THEN Market(id)[s][p] ELSE 0
<1> DEFINE all == PricesOf(Market(id), s)
           better(q) == { r \in all : Better(s, r, q) }
           top == TopPrices(Market(id), s, SnapshotLimit)
<1>0. /\ top = { q \in all : Cardinality(better(q)) < SnapshotLimit }
      /\ top \subseteq all /\ all \subseteq Prices /\ top \in SUBSET Prices
      /\ \A q : better(q) \in SUBSET Prices
      /\ Market(id)[s][p] \in Nat /\ SnapshotLimit \in Nat
      /\ Prices \subseteq Nat
  BY LevelsAssumption DEF TopPrices, PricesOf, Levels, Prices
<1>1. ASSUME p \in top PROVE p \in ToldBySnapshot(id, s)
  <2>1. ~Better(s, p, p)
    BY <1>0 DEF Better
  <2> QED
    BY <1>1, <2>1 DEF ToldBySnapshot
<1>2. ASSUME p \in ToldBySnapshot(id, s), p \in all PROVE p \in top
  <2>1. CASE \E q \in top : ~Better(s, q, p)
    <3>1. PICK q \in top : ~Better(s, q, p)
      BY <2>1
    <3>2. better(p) \subseteq better(q)
      <4>1. \A r \in Prices : Better(s, r, p) => Better(s, r, q)
        <5>1. q \in Nat
          BY <1>0
        <5> QED
          BY <1>0, <3>1, <5>1 DEF Better
      <4> QED
        BY <1>0, <4>1
    <3>3. Cardinality(better(q)) < SnapshotLimit
      BY <1>0
    <3>4. /\ Cardinality(better(p)) \in Nat /\ Cardinality(better(q)) \in Nat
          /\ Cardinality(better(p)) <= Cardinality(better(q))
      <4> HIDE DEF better
      <4> QED BY <1>0, <3>2, FewerThan
    <3> HIDE DEF better, all, top
    <3> QED
      BY <1>0, <1>2, <3>3, <3>4
  <2>2. CASE Cardinality(top) < SnapshotLimit
    <3> SUFFICES ASSUME p \notin top PROVE FALSE
      OBVIOUS
    <3> DEFINE out == { r \in all : r \notin top }
    <3>1. PICK b \in out : \A r \in out : ~Better(s, r, b)
      <4>1. out \in SUBSET Prices /\ out # {}
        BY <1>0, <1>2
      <4> HIDE DEF out
      <4> QED BY <4>1, BestOf
    <3>2. better(b) \subseteq top
      BY <3>1
    <3>3. /\ Cardinality(better(b)) \in Nat /\ Cardinality(top) \in Nat
          /\ Cardinality(better(b)) <= Cardinality(top)
      <4> HIDE DEF better, top
      <4> QED BY <1>0, <3>2, FewerThan
    <3>4. b \in all /\ b \notin top
      BY <3>1
    <3> HIDE DEF better, all, top, out
    <3> QED
      BY <1>0, <2>2, <3>3, <3>4
  <2> QED
    BY <1>2, <2>1, <2>2 DEF ToldBySnapshot
<1>3. p \in all <=> Market(id)[s][p] > 0
  BY DEF PricesOf
<1>4. Listed(id)[s][p] = IF p \in top THEN Market(id)[s][p] ELSE 0
  BY DEF Listed
<1> HIDE DEF top, all
<1> QED
  BY <1>0, <1>1, <1>2, <1>3, <1>4

(* A step that leaves market and levels alone, and at most breaks the book *)
(* or moves its events about, keeps what is known of them.                 *)
LEMMA SameLevels ==
  ASSUME LevelsInv, BookInv', UNCHANGED levelVars, UNCHANGED <<engine, last>>,
         synced' => synced, replaying' # {} => synced',
         \A e \in wire' \union buffer' \union replaying' : e.u <= engine
  PROVE  LevelsInv'
<1>1. \A id : Market(id)' = Market(id)
  BY DEF levelVars, Market, Changes
<1>2. \A id : Crossed(Market(id))' <=> Crossed(Market(id))
  BY <1>1 DEF Crossed, PricesOf
<1>3. LevelsTrue'
  BY <1>1 DEF LevelsInv, LevelsTrue, levelVars
<1> QED
  BY <1>2, <1>3 DEF LevelsInv, LogOK, levelVars

(* An event given to the book, from the stream or from the buffer, is a    *)
(* step of the book without levels and keeps the levels true.              *)
LEMMA ApplyStep ==
  ASSUME LevelsInv, NEW e \in wire \union replaying, ApplyEvent(e),
         engine' = engine, replaying # {} => synced
  PROVE  /\ TakeIn(e) \/ BreakBook(e)
         /\ last' <= engine' /\ LogOK'
         /\ buffer' \subseteq buffer \union {e}
         /\ BufferEvent(e) => ~ synced
         /\ SkipEvent(e) \/ TakeLevels(e) => synced'
         /\ levels' \in Levels /\ known' \in [Sides -> SUBSET Prices]
         /\ \A id \in 0..engine' : ~Crossed(Market(id))'
         /\ LevelsTrue'
<1>0. Proper(e) /\ e.u <= engine
  BY DEF LevelsInv, BookInv
<1>1. log' = log
  BY DEF ApplyEvent, levelVars, TakeLevels
<1>2. \A id : Market(id)' = Market(id)
  BY <1>1 DEF Market, Changes
<1>3. LogOK' /\ \A id \in 0..engine' : ~Crossed(Market(id))'
  <2>1. \A id : Crossed(Market(id))' <=> Crossed(Market(id))
    BY <1>2 DEF Crossed, PricesOf
  <2> QED
    BY <1>1, <2>1 DEF LevelsInv, LogOK
<1>4. CASE (BufferEvent(e) \/ SkipEvent(e) \/ BreakBook(e)) /\ UNCHANGED levelVars
  <2>1. last' = last /\ (synced' => synced) /\ UNCHANGED <<levels, known>>
    BY <1>4 DEF BufferEvent, SkipEvent, BreakBook, MarkDegraded, levelVars
  <2>2. LevelsTrue'
    BY <1>2, <2>1 DEF LevelsInv, LevelsTrue
  <2>3. /\ buffer' \subseteq buffer \union {e}
        /\ BufferEvent(e) => ~ synced
        /\ SkipEvent(e) => synced'
        /\ ~ TakeLevels(e) \/ synced'
    <3>1. ASSUME TakeLevels(e) PROVE synced'
      BY <1>0, <3>1, TakeIsExtend
    <3> QED
      BY <1>4, <3>1 DEF BufferEvent, SkipEvent, BreakBook, MarkDegraded
  <2>4. TakeIn(e) \/ BreakBook(e)
    BY <1>4 DEF TakeIn
  <2> QED
    BY <1>3, <1>4, <2>1, <2>2, <2>3, <2>4 DEF LevelsInv
<1>5. CASE TakeLevels(e)
  <2>1. /\ ExtendBook(e) /\ synced' = TRUE
        /\ levels' \in Levels /\ known' \in [Sides -> SUBSET Prices]
        /\ last' <= engine
        /\ \A s \in Sides, p \in Prices :
             levels'[s][p] = IF p \in known'[s] THEN Market(e.u)[s][p] ELSE 0
    BY <1>0, <1>5, TakeIsExtend
  <2>2. last' = e.u /\ buffer' = buffer
    BY <1>5 DEF TakeLevels
  <2>3. LevelsTrue'
    <3>1. levels' = [s \in Sides |-> [p \in Prices |-> levels'[s][p]]]
      BY <2>1 DEF Levels
    <3>2. levels' = [s \in Sides |-> [p \in Prices |->
                      IF p \in known'[s] THEN Market(e.u)[s][p] ELSE 0]]
      BY <2>1, <3>1
    <3> QED
      BY <1>2, <2>2, <3>2 DEF LevelsTrue
  <2>4. TakeIn(e)
    BY <2>1 DEF TakeIn
  <2>5. ~ BufferEvent(e)
    BY <1>5 DEF TakeLevels, BufferEvent
  <2> QED
    BY <1>3, <2>1, <2>2, <2>3, <2>4, <2>5
<1> QED
  BY <1>4, <1>5 DEF ApplyEvent


(* Every step keeps the levels true and is one the book allows.            *)
LEMMA LevelsStep ==
  LevelsInv /\ [Next]_vars => LevelsInv' /\ [BookNext]_bookVars
<1> SUFFICES ASSUME LevelsInv, [Next]_vars
             PROVE  LevelsInv' /\ [BookNext]_bookVars
  OBVIOUS
<1>0. ASSUME [BookNext]_bookVars PROVE BookInv'
  BY <1>0, BookInvStep DEF LevelsInv
<1>1. CASE EngineUpdate
  <2>1. BookNext /\ engine' = engine + 1 /\ UNCHANGED <<wire, book, levels, known>>
    BY <1>1 DEF EngineUpdate, EngineStep, BookNext
  <2>2. PICK u \in Update : log' = Append(log, u)
    BY <1>1 DEF EngineUpdate
  <2>3. LogOK'
    BY <2>1, <2>2 DEF LevelsInv, LogOK
  <2>4. \A id \in 0..engine : Market(id)' = Market(id)
    BY <2>2, MarketStays DEF LevelsInv
  <2>5. \A id \in 0..engine' : ~Crossed(Market(id))'
    <3>1. \A id \in 0..engine : ~Crossed(Market(id))'
      BY <2>4 DEF LevelsInv, Crossed, PricesOf
    <3>2. ~Crossed(Market(engine))'
      BY <1>1 DEF EngineUpdate
    <3> QED
      BY <2>1, <3>1, <3>2 DEF LevelsInv, LogOK
  <2>6. LevelsTrue'
    <3>1. last \in 0..engine
      BY DEF LevelsInv, LogOK, BookInv, BookTypeOK
    <3> QED
      BY <2>1, <2>4, <3>1 DEF LevelsInv, LevelsTrue, book
  <2> QED
    BY <1>0, <2>1, <2>3, <2>5, <2>6 DEF LevelsInv, LogOK, BookInv, BookTypeOK,
       Events, Ids, book
<1>2. CASE (Emit \/ Connect \/ Disconnect) /\ UNCHANGED levelVars
  <2>1. BookNext /\ UNCHANGED <<engine, book, levelVars>>
    BY <1>2 DEF BookNext, Emit, Connect, Disconnect
  <2>2. \A e \in wire' : e.u <= engine
    BY <1>2 DEF Emit, Connect, Disconnect, LevelsInv, LogOK
  <2> QED
    BY <1>0, <2>1, <2>2, SameLevels DEF book, LevelsInv
<1>3. CASE Receive
  <2>1. PICK e \in wire : Deliver(e) /\ ApplyEvent(e) /\ replaying = {}
    BY <1>3 DEF Receive
  <2>2. engine' = engine /\ replaying' = {} /\ wire' \subseteq wire
    BY <2>1 DEF Deliver
  <2>3. /\ TakeIn(e) \/ BreakBook(e)
        /\ last' <= engine' /\ LogOK'
        /\ buffer' \subseteq buffer \union {e}
        /\ levels' \in Levels /\ known' \in [Sides -> SUBSET Prices]
        /\ \A id \in 0..engine' : ~Crossed(Market(id))'
        /\ LevelsTrue'
    BY <2>1, <2>2, ApplyStep
  <2>4. BookNext
    BY <2>1, <2>3 DEF BookNext
  <2> QED
    BY <1>0, <2>1, <2>2, <2>3, <2>4 DEF LevelsInv
<1>4. CASE Replay
  <2>1. PICK e \in replaying :
          /\ Earliest(e, replaying) /\ ApplyEvent(e)
          /\ replaying' = IF synced' THEN replaying \ {e} ELSE {}
    BY <1>4 DEF Replay
  <2>2. UNCHANGED stream /\ synced
    BY <1>4, <2>1 DEF Replay, LevelsInv
  <2>3. /\ TakeIn(e) \/ BreakBook(e)
        /\ last' <= engine' /\ LogOK'
        /\ buffer' \subseteq buffer \union {e}
        /\ BufferEvent(e) => ~ synced
        /\ levels' \in Levels /\ known' \in [Sides -> SUBSET Prices]
        /\ \A id \in 0..engine' : ~Crossed(Market(id))'
        /\ LevelsTrue'
    BY <2>1, <2>2, ApplyStep DEF stream
  <2>4. ReplayEvent
    <3>1. SkipEvent(e) \/ ExtendBook(e) \/ BreakBook(e)
      BY <2>2, <2>3 DEF TakeIn
    <3>2. /\ SkipEvent(e) => synced' = synced
          /\ ExtendBook(e) => synced' = synced
          /\ BreakBook(e) => synced' = FALSE
      BY DEF SkipEvent, ExtendBook, BreakBook, MarkDegraded
    <3> QED
      BY <2>1, <2>2, <3>1, <3>2 DEF ReplayEvent
  <2>5. BookNext
    BY <2>4 DEF BookNext
  <2>6. /\ replaying' \subseteq replaying /\ (replaying' # {} => synced')
    BY <2>1
  <2> QED
    BY <1>0, <2>1, <2>2, <2>3, <2>5, <2>6 DEF LevelsInv, stream
<1>5. ASSUME NEW id \in 1..engine, Sync(id)
      PROVE  LevelsInv' /\ [BookNext]_bookVars
  <2>1. /\ SyncFromSnapshot(id) /\ log' = log
        /\ levels' = Listed(id)
        /\ known' = [s \in Sides |-> ToldBySnapshot(id, s)]
    BY <1>5 DEF Sync, SnapshotLevels
  <2>2. /\ BookNext /\ UNCHANGED stream /\ last' = id /\ buffer' = {}
        /\ replaying' \subseteq buffer /\ (replaying' # {} => synced')
    BY <2>1 DEF SyncFromSnapshot, BookNext
  <2>3. id \in Nat /\ engine \in Nat /\ id <= engine
    BY DEF LevelsInv, LogOK
  <2>4. Market(id) \in Levels
    BY <2>3, MarketType DEF LevelsInv
  <2>5. \A i : Market(i)' = Market(i)
    BY <2>1 DEF Market, Changes
  <2>6. \A s \in Sides, p \in Prices :
          levels'[s][p] = IF p \in known'[s] THEN Market(id)[s][p] ELSE 0
    BY <2>1, <2>4, ListedIsTold
  <2>7. levels' = [s \in Sides |-> [p \in Prices |-> levels'[s][p]]]
    BY <2>1 DEF Listed
  <2>8. levels' \in Levels
    <3>1. \A s \in Sides, p \in Prices : levels'[s][p] \in 0..MaxQty
      BY <2>4, <2>6, LevelsAssumption DEF Levels
    <3> QED
      BY <2>7, <3>1 DEF Levels
  <2>9. LevelsTrue'
    <3>1. levels' = [s \in Sides |-> [p \in Prices |->
                      IF p \in known'[s] THEN Market(id)[s][p] ELSE 0]]
      BY <2>6, <2>7
    <3> QED
      BY <2>2, <2>5, <3>1 DEF LevelsTrue
  <2>10. known' \in [Sides -> SUBSET Prices]
    BY <2>1 DEF ToldBySnapshot
  <2>11. \A i \in 0..engine' : ~Crossed(Market(i))'
    BY <2>2, <2>5 DEF LevelsInv, Crossed, PricesOf, stream
  <2> QED
    BY <1>0, <2>1, <2>2, <2>3, <2>8, <2>9, <2>10, <2>11
    DEF LevelsInv, LogOK, stream
<1>6. CASE UNCHANGED vars
  <2>1. UNCHANGED bookVars /\ UNCHANGED levelVars
    BY <1>6 DEF vars
  <2> QED
    BY <1>0, <2>1, SameLevels DEF bookVars, stream, book, LevelsInv
<1> QED
  BY <1>1, <1>2, <1>3, <1>4, <1>5, <1>6 DEF Next

(* A synchronised book has, at every level it was told of, what the market *)
(* had at its last update, and no other level: whatever overlaps the       *)
(* snapshot, survived a resync or was cut off by the snapshot's limit.     *)
THEOREM LevelsAreTrue == Spec => []LevelsTrue
<1>1. LevelsInv => LevelsTrue
  BY DEF LevelsInv
<1> QED
  BY LevelsInit, LevelsStep, <1>1, PTL DEF Spec

(* The book of levels implements the book of updates: the spread check of  *)
(* apply_event, the one thing it has that the other does not, never        *)
(* breaks a book.                                                          *)
THEOREM LevelsImplementBook == Spec => ImplementsBook
<1>1. Init => BookInit
  BY DEF Init
<1> QED
  BY LevelsInit, LevelsStep, <1>1, PTL DEF Spec, ImplementsBook, BookSpec

(* A synchronised book is not crossed, so that the check of the spread     *)
(* that follows a snapshot does not raise.                                 *)
THEOREM SpreadCheckNeverFires == Spec => []SpreadHolds
<1>1. ASSUME LevelsInv PROVE SpreadHolds
  <2> SUFFICES ASSUME synced PROVE ~Crossed(levels)
    BY DEF SpreadHolds
  <2>1. last \in 0..engine
    BY <1>1 DEF LevelsInv, LogOK, BookInv, BookTypeOK
  <2>2. ~Crossed(Market(last))
    BY <1>1, <2>1 DEF LevelsInv
  <2>3. \A s \in Sides, p \in Prices :
          levels[s][p] = IF p \in known[s] THEN Market(last)[s][p] ELSE 0
    BY <1>1 DEF LevelsInv, LevelsTrue
  <2>4. \A s \in Sides, p \in Prices :
          levels[s][p] > 0 => Market(last)[s][p] > 0
    BY <2>3
  <2> QED
    BY <2>2, <2>4, PartNotCrossed
<1> QED
  BY LevelsInit, LevelsStep, <1>1, PTL DEF Spec

(* Log, levels and what is known of them keep their types.                 *)
THEOREM LevelsTypeCorrect == Spec => []LevelsTypeOK
<1>1. LevelsInv => LevelsTypeOK
  BY DEF LevelsInv, LogOK, LevelsTypeOK, BookInv
<1> QED
  BY LevelsInit, LevelsStep, <1>1, PTL DEF Spec

-----------------------------------------------------------------------------
(* What is reported of the levels.                                         *)

(* The levels of a book that is told the prices of a set.                  *)
Part(l, m, s, K) ==
  \A p \in Prices : l[s][p] = IF p \in K THEN m[s][p] ELSE 0

(* If everything down to the n-th level of a side is known, its n best     *)
(* levels and its best one are the market's.                               *)
LEMMA TopAgrees ==
  ASSUME NEW l \in Levels, NEW m \in Levels, NEW s \in Sides,
         NEW K \in SUBSET Prices, Part(l, m, s, K), NEW n \in Nat \ {0},
         \/ K = Prices
         \/ /\ Cardinality(TopPrices(l, s, n)) = n
            /\ \A p \in TopPrices(l, s, n) :
                 { q \in Prices : Better(s, q, p) } \subseteq K
  PROVE  /\ TopPrices(l, s, n) = TopPrices(m, s, n)
         /\ TopPrices(l, s, n) \in SUBSET Prices
         /\ \A p \in TopPrices(l, s, n) : l[s][p] = m[s][p]
         /\ PricesOf(l, s) = {} <=> PricesOf(m, s) = {}
         /\ PricesOf(l, s) # {} => Best(l, s) = Best(m, s)
<1> DEFINE L == PricesOf(l, s)
           M == PricesOf(m, s)
           T == TopPrices(l, s, n)
           betterL(p) == { q \in L : Better(s, q, p) }
           betterM(p) == { q \in M : Better(s, q, p) }
<1>1. /\ L \in SUBSET Prices /\ M \in SUBSET Prices /\ L \subseteq M
      /\ \A p \in L : p \in K /\ l[s][p] = m[s][p]
      /\ \A p \in M : p \in K => p \in L
  BY DEF PricesOf, Part, Levels
<1>2. /\ T = { p \in L : Cardinality(betterL(p)) < n } /\ T \subseteq L
      /\ TopPrices(m, s, n) = { p \in M : Cardinality(betterM(p)) < n }
  BY DEF TopPrices
<1>3. CASE K = Prices
  <2>1. \A p \in Prices : l[s][p] = m[s][p]
    BY <1>3 DEF Part
  <2>2. L = M
    BY <2>1 DEF PricesOf
  <2>3. Best(l, s) = Best(m, s)
    BY <2>2 DEF Best
  <2> QED
    BY <1>1, <1>2, <2>1, <2>2, <2>3
<1>4. CASE /\ Cardinality(T) = n
           /\ \A p \in T : { q \in Prices : Better(s, q, p) } \subseteq K
  <2>1. ASSUME NEW p \in T PROVE betterM(p) = betterL(p)
    <3>1. \A q \in M : Better(s, q, p) => q \in K
      BY <1>1, <1>4
    <3> QED
      BY <1>1, <3>1
  <2>2. T \subseteq TopPrices(m, s, n)
    BY <1>1, <1>2, <2>1
  <2>3. ASSUME NEW p \in TopPrices(m, s, n) PROVE p \in T
    <3>1. p \in M /\ Cardinality(betterM(p)) < n
      BY <1>2
    <3>2. betterM(p) \in SUBSET Prices /\ betterL(p) \subseteq betterM(p)
      BY <1>1
    <3>3. CASE p \in L
      <4>1. /\ Cardinality(betterL(p)) <= Cardinality(betterM(p))
            /\ Cardinality(betterL(p)) \in Nat /\ Cardinality(betterM(p)) \in Nat
        <5> HIDE DEF betterL, betterM
        <5> QED BY <3>2, FewerThan
      <4>2. Cardinality(betterL(p)) < n
        <5> HIDE DEF betterL, betterM
        <5> QED BY <3>1, <4>1
      <4> QED
        BY <1>2, <3>3, <4>2
    <3>4. CASE p \notin L
      <4>1. p \in Prices /\ p \notin K
        BY <1>1, <3>1, <3>4
      <4>2. ASSUME NEW q \in T PROVE q \in betterM(p)
        <5>1. ~Better(s, p, q) /\ q \in L /\ q # p
          BY <1>2, <1>4, <3>4, <4>1
        <5>2. q \in Int /\ p \in Int
          BY <1>1, <4>1, <5>1, LevelsAssumption DEF Prices
        <5>3. Better(s, q, p)
          BY <5>1, <5>2 DEF Better
        <5> QED
          BY <1>1, <5>1, <5>3
      <4>3. /\ Cardinality(T) <= Cardinality(betterM(p))
            /\ Cardinality(betterM(p)) \in Nat
        <5>1. T \subseteq betterM(p)
          BY <4>2
        <5> HIDE DEF betterM, T
        <5> QED BY <3>2, <5>1, FewerThan
      <4> HIDE DEF betterM, T
      <4> QED
        BY <1>4, <3>1, <4>3
    <3> QED
      BY <3>3, <3>4
  <2>4. T # {}
    BY <1>4, FS_EmptySet
  <2>5. ASSUME NEW b
        PROVE  (b \in L /\ \A q \in L : ~Better(s, q, b))
                 <=> (b \in M /\ \A q \in M : ~Better(s, q, b))
    <3>1. Cardinality({}) = 0 /\ 0 < n
      BY FS_EmptySet
    <3>2. ASSUME b \in L, \A q \in L : ~Better(s, q, b)
          PROVE  \A q \in M : ~Better(s, q, b)
      <4>1. betterL(b) = {}
        BY <3>2
      <4>2. b \in T
        BY <1>2, <3>1, <3>2, <4>1
      <4> QED
        BY <2>1, <4>1, <4>2
    <3>3. ASSUME b \in M, \A q \in M : ~Better(s, q, b)
          PROVE  b \in L
      <4>1. betterM(b) = {}
        BY <3>3
      <4>2. b \in TopPrices(m, s, n)
        BY <1>2, <3>1, <3>3, <4>1
      <4> QED
        BY <1>2, <2>3, <4>2
    <3> QED
      BY <1>1, <3>2, <3>3
  <2>6. Best(l, s) = Best(m, s)
    BY <2>5 DEF Best
  <2> QED
    BY <1>1, <1>2, <2>2, <2>3, <2>4, <2>6
<1> QED
  BY <1>3, <1>4

(* What a synchronised book has, side by side with the market.             *)
LEMMA SyncedIsPart ==
  ASSUME LevelsInv, synced
  PROVE  /\ levels \in Levels /\ Market(last) \in Levels
         /\ \A s \in Sides :
              known[s] \in SUBSET Prices /\ Part(levels, Market(last), s, known[s])
<1>1. last \in Nat
  BY DepthAssumption DEF LevelsInv, BookInv, BookTypeOK
<1>2. Market(last) \in Levels
  BY <1>1, MarketType DEF LevelsInv
<1>3. \A s \in Sides, p \in Prices :
         levels[s][p] = IF p \in known[s] THEN Market(last)[s][p] ELSE 0
  BY DEF LevelsInv, LevelsTrue
<1> QED
  BY <1>2, <1>3 DEF LevelsInv, Part

(* The spread and the average quantities behind depth_degraded are the     *)
(* market's, as long as the averages end within the levels the book knows. *)
THEOREM HealthIsTrue == Spec => []HealthTrue
<1>1. ASSUME LevelsInv PROVE HealthTrue
  <2> SUFFICES ASSUME synced, \A s \in Sides : TopKnown(s)
               PROVE  HealthMetrics(levels) = HealthMetrics(Market(last))
    BY DEF HealthTrue
  <2> DEFINE m == Market(last)
             top(s) == TopPrices(levels, s, HealthLevels)
  <2>1. /\ levels \in Levels /\ m \in Levels /\ HealthLevels \in Nat \ {0}
        /\ \A s \in Sides : known[s] \in SUBSET Prices /\ Part(levels, m, s, known[s])
    BY <1>1, SyncedIsPart, LevelsAssumption
  <2>2. ASSUME NEW s \in Sides
        PROVE  /\ top(s) = TopPrices(m, s, HealthLevels)
               /\ top(s) \in SUBSET Prices
               /\ \A p \in top(s) : levels[s][p] = m[s][p]
               /\ PricesOf(levels, s) = {} <=> PricesOf(m, s) = {}
               /\ PricesOf(levels, s) # {} => Best(levels, s) = Best(m, s)
    <3>1. TopKnown(s)
      OBVIOUS
    <3> HIDE DEF m
    <3> QED BY <2>1, <3>1, TopAgrees DEF TopKnown
  <2>3. TwoSided(levels) <=> TwoSided(m)
    BY <2>2 DEF TwoSided
  <2>4. ASSUME NEW s \in Sides
        PROVE  SumFunctionOnSet(levels[s], top(s)) = SumFunctionOnSet(m[s], top(s))
    <3>1. IsFiniteSet(top(s))
      <4>1. IsFiniteSet(Prices)
        BY FS_Interval, LevelsAssumption DEF Prices
      <4> HIDE DEF top
      <4> QED BY <2>2, <4>1, FS_Subset
    <3> HIDE DEF m, top
    <3> QED BY <2>2, <3>1, SumAgrees
  <2>5. CASE ~TwoSided(levels)
    BY <2>3, <2>5 DEF HealthMetrics
  <2>6. CASE TwoSided(levels)
    <3>1. \A s \in Sides : Best(levels, s) = Best(m, s)
      BY <2>2, <2>6 DEF TwoSided
    <3> QED
      BY <2>2, <2>3, <2>4, <2>6, <3>1 DEF HealthMetrics
  <2> QED
    BY <2>5, <2>6
<1> QED
  BY LevelsInit, LevelsStep, <1>1, PTL DEF Spec

(* The market's cheapest ask or dearest bid is the book's if all better    *)
(* prices are known.                                                       *)
LEMMA BestAgrees ==
  ASSUME NEW l \in Levels, NEW m \in Levels, NEW s \in Sides,
         NEW K \in SUBSET Prices, Part(l, m, s, K), PricesOf(l, s) # {},
         { q \in Prices : Better(s, q, Best(l, s)) } \subseteq K
  PROVE  Best(l, s) = Best(m, s)
<1> DEFINE b == Best(l, s)
<1>1. /\ PricesOf(l, s) \in SUBSET Prices /\ PricesOf(m, s) \in SUBSET Prices
      /\ PricesOf(l, s) \subseteq PricesOf(m, s)
      /\ \A p \in PricesOf(m, s) : p \in K => p \in PricesOf(l, s)
  <2>1. \A p \in Prices : l[s][p] = IF p \in K THEN m[s][p] ELSE 0
    BY DEF Part
  <2> QED
    BY <2>1 DEF PricesOf
<1>2. b \in PricesOf(l, s) /\ \A q \in PricesOf(l, s) : ~Better(s, q, b)
  BY <1>1, BestOf DEF Best
<1>3. \A q \in PricesOf(m, s) : ~Better(s, q, b)
  BY <1>1, <1>2
<1>4. ASSUME NEW c \in PricesOf(m, s), \A q \in PricesOf(m, s) : ~Better(s, q, c)
      PROVE  c = b
  <2>1. ~Better(s, b, c) /\ ~Better(s, c, b)
    BY <1>1, <1>2, <1>3, <1>4
  <2>2. b \in Int /\ c \in Int
    BY <1>1, <1>2, LevelsAssumption DEF Prices
  <2> HIDE DEF b
  <2> QED
    BY <2>1, <2>2 DEF Better
<1> HIDE DEF b
<1>5. b = Best(m, s)
  BY <1>1, <1>2, <1>3, <1>4 DEF Best
<1> QED
  BY <1>5 DEF b

LEMMA CostType ==
  ASSUME NEW l \in Levels
  PROVE  \A p \in Prices : Cost(l)[p] \in Nat
<1> SUFFICES ASSUME NEW p \in Prices
             PROVE  Cost(l)[p] \in Nat
  OBVIOUS
<1> DEFINE n == l["ask"][p]
<1>1. Cost(l)[p] = p * n
  BY DEF Cost
<1>2. p \in Nat
  BY DEF Prices
<1>3. n \in Nat
  <2>1. l["ask"] \in [Prices -> 0..MaxQty]
    BY DEF Levels, Sides
  <2>2. n \in 0..MaxQty
    BY <2>1
  <2> QED BY <2>2
<1> HIDE DEF n
<1>4. p * n \in Nat
  BY <1>2, <1>3
<1> QED
  BY <1>1, <1>4

(* What the asks up to a price cost.                                       *)
UpTo(l, p) == SumFunctionOnSet(Cost(l), 1..p)

LEMMA UpToSteps ==
  ASSUME NEW l \in Levels
  PROVE  /\ UpTo(l, 0) = 0
         /\ \A p \in 0..MaxPrice : UpTo(l, p) \in Nat
         /\ \A p \in Prices : UpTo(l, p) = UpTo(l, p - 1) + Cost(l)[p]
         /\ \A p, q \in 0..MaxPrice : p <= q => UpTo(l, p) <= UpTo(l, q)
<1>0. MaxPrice \in Nat
  BY LevelsAssumption
<1>1. UpTo(l, 0) = 0
  <2>1. 1..0 = {}
    OBVIOUS
  <2> QED BY <2>1, SumOfNothing DEF UpTo
<1>2. ASSUME NEW p \in 0..MaxPrice
      PROVE  /\ IsFiniteSet(1..p) /\ 1..p \subseteq Prices
             /\ \A q \in 1..p : Cost(l)[q] \in Nat
             /\ UpTo(l, p) \in Nat
  <2>1. IsFiniteSet(1..p) /\ 1..p \subseteq Prices
    BY <1>0, FS_Interval DEF Prices
  <2>2. \A q \in 1..p : Cost(l)[q] \in Nat
    BY <2>1, CostType
  <2> QED
    BY <2>1, <2>2, SumIsNat DEF UpTo
<1>3. ASSUME NEW p \in Prices PROVE UpTo(l, p) = UpTo(l, p - 1) + Cost(l)[p]
  <2>1. /\ p \in 0..MaxPrice /\ p - 1 \in 0..MaxPrice
        /\ 1..p = (1..(p - 1)) \union {p} /\ p \notin 1..(p - 1)
    BY <1>0 DEF Prices
  <2>2. /\ IsFiniteSet(1..(p - 1))
        /\ \A q \in (1..(p - 1)) \union {p} : Cost(l)[q] \in Int
    BY <1>2, <2>1
  <2>3. SumFunctionOnSet(Cost(l), (1..(p - 1)) \union {p})
          = SumFunctionOnSet(Cost(l), 1..(p - 1)) + Cost(l)[p]
    BY <2>1, <2>2, SumGrows
  <2> QED
    BY <2>1, <2>3 DEF UpTo
<1>4. ASSUME NEW p \in 0..MaxPrice, NEW q \in 0..MaxPrice, p <= q
      PROVE  UpTo(l, p) <= UpTo(l, q)
  <2>1. 1..p \in SUBSET (1..q)
    BY <1>4
  <2> QED
    BY <1>2, <2>1, SumMonotone DEF UpTo
<1> QED
  BY <1>1, <1>2, <1>3, <1>4

(* What is left of an order of n after asks that cost c.                   *)
Left(c) == IF c >= Notional THEN 0 ELSE Notional - c

(* The walk over the asks leaves what the asks so far do not cover.        *)
LEMMA RemainingIsLeft ==
  ASSUME NEW l \in Levels
  PROVE  Remaining(l) = [p \in 0..MaxPrice |-> Left(UpTo(l, p))]
<1> DEFINE step(h) == [p \in 0..MaxPrice |->
                         IF p = 0 THEN Notional
                         ELSE h[p - 1] - Min({h[p - 1], Cost(l)[p]})]
           left == [p \in 0..MaxPrice |-> Left(UpTo(l, p))]
<1>0. MaxPrice \in Nat /\ Notional \in Nat /\ Notional > 0
  BY LevelsAssumption
<1>1. ASSUME NEW p \in Prices
      PROVE  /\ p \in 0..MaxPrice /\ p - 1 \in 0..MaxPrice /\ p # 0
             /\ Left(UpTo(l, p))
                  = Left(UpTo(l, p - 1)) - Min({Left(UpTo(l, p - 1)), Cost(l)[p]})
  <2>1. p \in 0..MaxPrice /\ p - 1 \in 0..MaxPrice /\ p # 0
    BY <1>0 DEF Prices
  <2> DEFINE a == UpTo(l, p - 1)
             c == Cost(l)[p]
  <2>2. a \in Nat /\ c \in Nat /\ UpTo(l, p) = a + c
    BY <2>1, UpToSteps, CostType
  <2> HIDE DEF a, c
  <2>3. Left(a) \in Nat
    BY <1>0, <2>2 DEF Left
  <2>4. Min({Left(a), c}) = IF Left(a) <= c THEN Left(a) ELSE c
    BY <2>2, <2>3, OfTwo DEF Min
  <2>5. Left(a + c) = Left(a) - Min({Left(a), c})
    BY <1>0, <2>2, <2>4 DEF Left
  <2> QED
    BY <2>1, <2>2, <2>5 DEF a, c
<1>2. left = step(left)
  <2>1. Left(UpTo(l, 0)) = Notional
    BY <1>0, UpToSteps DEF Left
  <2>2. \A p \in 0..MaxPrice : p # 0 => p \in Prices
    BY <1>0 DEF Prices
  <2>3. ASSUME NEW p \in 0..MaxPrice
        PROVE  left[p] = IF p = 0 THEN Notional
                         ELSE left[p - 1] - Min({left[p - 1], Cost(l)[p]})
    <3>1. CASE p = 0
      BY <2>1, <3>1
    <3>2. CASE p # 0
      <4>1. p \in Prices
        BY <2>2, <3>2
      <4> QED BY <1>1, <3>2, <4>1
    <3> QED BY <3>1, <3>2
  <2> QED
    BY <2>3
<1>3. ASSUME NEW h, h = step(h) PROVE h = left
  <2> DEFINE same == { n \in Nat : n \in 0..MaxPrice => h[n] = left[n] }
  <2>1. 0 \in same
    BY <1>0, <1>2, <1>3
  <2>2. ASSUME NEW n \in same PROVE n + 1 \in same
    <3>1. n + 1 \in Nat
      OBVIOUS
    <3>2. ASSUME n + 1 \in 0..MaxPrice PROVE h[n + 1] = left[n + 1]
      <4>0. n \in Nat
        OBVIOUS
      <4>1. n \in 0..MaxPrice /\ n + 1 # 0 /\ (n + 1) - 1 = n
        <5> HIDE DEF same
        <5> QED BY <1>0, <3>2, <4>0
      <4>2. h[n] = left[n]
        BY <4>1
      <4>3. h[n + 1] = h[n] - Min({h[n], Cost(l)[n + 1]})
        BY <1>3, <3>2, <4>1
      <4>4. left[n + 1] = left[n] - Min({left[n], Cost(l)[n + 1]})
        <5> HIDE DEF left
        <5> QED BY <1>2, <3>2, <4>1
      <4> HIDE DEF left
      <4> QED BY <4>2, <4>3, <4>4
    <3> QED BY <3>1, <3>2
  <2>3. same = Nat
    <3>1. same \in SUBSET Nat
      OBVIOUS
    <3> HIDE DEF same
    <3> QED BY <2>1, <2>2, <3>1, AllNaturals
  <2>4. \A p \in 0..MaxPrice : h[p] = left[p]
    <3>1. \A p \in 0..MaxPrice : p \in same
      <4> HIDE DEF same
      <4> QED BY <1>0, <2>3
    <3> QED BY <3>1
  <2>5. h = [p \in 0..MaxPrice |-> h[p]] /\ left = [p \in 0..MaxPrice |-> left[p]]
    BY <1>3
  <2> HIDE DEF left
  <2> QED BY <2>4, <2>5
<1>4. Remaining(l) = CHOOSE h : h = step(h)
  BY DEF Remaining
<1> HIDE DEF left, step
<1>5. Remaining(l) = left
  BY <1>2, <1>3, <1>4
<1> QED
  BY <1>5 DEF left

(* An order that can be filled is done at some ask; up to there it takes   *)
(* the same of two books that agree up to there.                           *)
LEMMA FillsAgree ==
  ASSUME NEW l \in Levels, NEW m \in Levels, NEW z \in Prices,
         UpTo(l, z) >= Notional, \A q \in 1..z : Cost(l)[q] = Cost(m)[q]
  PROVE  /\ \A p \in Prices : Taken(l)[p] = BuyAt(m, p)
         /\ UpTo(m, MaxPrice) >= Notional
<1>0. /\ MaxPrice \in Nat /\ Notional \in Nat /\ Notional > 0
      /\ z \in 0..MaxPrice /\ MaxPrice \in 0..MaxPrice
  BY LevelsAssumption DEF Prices
<1>1. ASSUME NEW p \in 0..z PROVE UpTo(l, p) = UpTo(m, p)
  <2>1. IsFiniteSet(1..p) /\ \A q \in 1..p : Cost(l)[q] = Cost(m)[q]
    BY <1>0, FS_Interval
  <2> QED
    BY <2>1, SumAgrees DEF UpTo
<1>2. ASSUME NEW p \in Prices PROVE Taken(l)[p] = BuyAt(m, p)
  <2> DEFINE a == UpTo(l, p - 1)
             c == Cost(l)[p]
             b == UpTo(m, p - 1)
             d == Cost(m)[p]
  <2>1. p - 1 \in 0..MaxPrice /\ p \in 0..MaxPrice
    BY <1>0 DEF Prices
  <2>2. /\ a \in Nat /\ c \in Nat /\ UpTo(l, p) = a + c
        /\ b \in Nat /\ d \in Nat
    BY <2>1, UpToSteps, CostType
  <2>3. Taken(l)[p] = Left(a) - Left(a + c)
    BY <2>1, <2>2, RemainingIsLeft DEF Taken
  <2>4. BuyAt(m, p) = Max({0, Min({Notional - b, d})})
    BY DEF BuyAt, UpTo
  <2>5. \/ a = b /\ c = d
        \/ a >= Notional /\ b >= Notional
    <3>1. CASE p <= z
      <4>1. p - 1 \in 0..z /\ p \in 1..z
        BY <1>0, <2>1, <3>1 DEF Prices
      <4> QED BY <1>1, <4>1
    <3>2. CASE ~(p <= z)
      <4>1. z <= p - 1 /\ z \in 0..z
        BY <1>0, <2>1, <3>2
      <4>2. UpTo(l, z) <= a /\ UpTo(m, z) <= b /\ UpTo(l, z) = UpTo(m, z)
        BY <1>0, <1>1, <2>1, <4>1, UpToSteps
      <4>3. UpTo(l, z) \in Nat
        BY <1>0, UpToSteps
      <4> HIDE DEF a, b
      <4> QED BY <1>0, <2>2, <4>2, <4>3
    <3> QED BY <3>1, <3>2
  <2> HIDE DEF a, b, c, d
  <2>6. Min({Notional - b, d}) = IF Notional - b <= d THEN Notional - b ELSE d
    BY <1>0, <2>2, OfTwo DEF Min
  <2>7. Min({Notional - b, d}) \in Int
    BY <1>0, <2>2, <2>6
  <2>8. Max({0, Min({Notional - b, d})})
          = IF 0 <= Min({Notional - b, d}) THEN Min({Notional - b, d}) ELSE 0
    BY <2>7, OfTwo DEF Max
  <2>9. Left(a) - Left(a + c) = Max({0, Min({Notional - b, d})})
    BY <1>0, <2>2, <2>5, <2>6, <2>8 DEF Left
  <2> QED
    BY <2>3, <2>4, <2>9
<1>3. UpTo(m, MaxPrice) >= Notional
  <2>1. UpTo(m, z) <= UpTo(m, MaxPrice) /\ UpTo(m, z) = UpTo(l, z)
    BY <1>0, <1>1, UpToSteps
  <2>2. UpTo(m, MaxPrice) \in Nat /\ UpTo(m, z) \in Nat
    BY <1>0, UpToSteps
  <2> QED
    BY <1>0, <2>1, <2>2
<1> QED
  BY <1>2, <1>3

(* The ask at which an order is done.                                      *)
LEMMA DoneSomewhere ==
  ASSUME NEW l \in Levels, ~(Remaining(l)[MaxPrice] > 0)
  PROVE  \E z \in Prices : UpTo(l, z) >= Notional /\ Taken(l)[z] > 0
<1> DEFINE over == { p \in 0..MaxPrice : UpTo(l, p) >= Notional }
<1>0. /\ MaxPrice \in Nat /\ Notional \in Nat /\ Notional > 0
      /\ MaxPrice \in 0..MaxPrice
  BY LevelsAssumption
<1>1. MaxPrice \in over
  <2>1. Remaining(l)[MaxPrice] = Left(UpTo(l, MaxPrice))
    BY <1>0, RemainingIsLeft
  <2>2. UpTo(l, MaxPrice) \in Nat
    BY <1>0, UpToSteps
  <2> QED
    BY <1>0, <2>1, <2>2 DEF Left
<1>2. PICK z \in over : \A p \in over : z <= p
  <2>1. over \in SUBSET Nat /\ over # {}
    BY <1>1
  <2> HIDE DEF over
  <2> QED BY <2>1, LeastOf
<1>3. z \in Prices
  <2>1. UpTo(l, 0) = 0
    BY UpToSteps
  <2>2. z # 0 /\ z \in 0..MaxPrice
    BY <1>0, <1>2, <2>1
  <2> QED BY <1>0, <2>2 DEF Prices
<1>4. z - 1 \in 0..MaxPrice /\ ~(UpTo(l, z - 1) >= Notional)
  <2>1. z - 1 \in 0..MaxPrice
    BY <1>0, <1>3 DEF Prices
  <2>2. z - 1 \notin over
    <3> HIDE DEF over
    <3> QED BY <1>0, <1>2, <1>3 DEF Prices
  <2> QED BY <2>1, <2>2
<1>5. Taken(l)[z] = Left(UpTo(l, z - 1)) - Left(UpTo(l, z))
  BY <1>2, <1>3, <1>4, RemainingIsLeft DEF Taken
<1>6. UpTo(l, z) >= Notional /\ UpTo(l, z) \in Nat /\ UpTo(l, z - 1) \in Nat
  BY <1>2, <1>4, UpToSteps
<1>7. Taken(l)[z] > 0
  BY <1>0, <1>4, <1>5, <1>6 DEF Left
<1> QED
  BY <1>3, <1>6, <1>7

(* The price impact reported of a synchronised book is that of an order on *)
(* the market, as long as the order does not buy beyond the known levels.  *)
THEOREM ImpactIsTrue == Spec => []ImpactTrue
<1>1. ASSUME LevelsInv PROVE ImpactTrue
  <2> DEFINE l == levels
             m == Market(last)
             whole == SumFunctionOnSet(Cost(m), Prices)
             order == IF whole < Notional THEN NoImpact
                      ELSE [fillable |-> TRUE,
                            fills    |-> [p \in Prices |-> BuyAt(m, p)],
                            twiceMid |-> Best(m, "bid") + Best(m, "ask")]
  <2> SUFFICES ASSUME synced, InSight PROVE PriceImpact(l) = order
    BY DEF ImpactTrue
  <2>0. /\ MaxPrice \in Nat /\ Notional \in Nat /\ Notional > 0
        /\ MaxPrice \in 0..MaxPrice /\ "bid" \in Sides /\ "ask" \in Sides
        /\ Prices \subseteq Int
    BY LevelsAssumption DEF Sides, Prices
  <2>1. /\ l \in Levels /\ m \in Levels
        /\ known["ask"] \in SUBSET Prices /\ Part(l, m, "ask", known["ask"])
        /\ known["bid"] \in SUBSET Prices /\ Part(l, m, "bid", known["bid"])
    BY <1>1, <2>0, SyncedIsPart
  <2>2. TwoSided(l) /\ whole = UpTo(m, MaxPrice)
    BY DEF InSight, UpTo, Prices
  <2>3. \A p \in known["ask"] : Cost(l)[p] = Cost(m)[p]
    BY <2>1 DEF Cost, Part
  <2>4. CASE Remaining(l)[MaxPrice] > 0
    <3>1. known["ask"] = Prices
      BY <2>4 DEF InSight
    <3>2. UpTo(l, MaxPrice) = UpTo(m, MaxPrice)
      <4>1. IsFiniteSet(1..MaxPrice)
        BY <2>0, FS_Interval
      <4>2. \A p \in 1..MaxPrice : Cost(l)[p] = Cost(m)[p]
        BY <2>3, <3>1 DEF Prices
      <4> HIDE DEF l, m
      <4> QED BY <4>1, <4>2, SumAgrees DEF UpTo
    <3>3. Remaining(l)[MaxPrice] = Left(UpTo(l, MaxPrice))
      BY <2>0, <2>1, RemainingIsLeft
    <3>4. UpTo(l, MaxPrice) \in Nat
      BY <2>0, <2>1, UpToSteps
    <3> HIDE DEF l, m, whole
    <3>5. whole < Notional
      BY <2>0, <2>2, <2>4, <3>2, <3>3, <3>4 DEF Left
    <3> QED
      BY <2>4, <3>5 DEF PriceImpact
  <2>5. CASE ~(Remaining(l)[MaxPrice] > 0)
    <3>1. PICK z \in Prices : UpTo(l, z) >= Notional /\ Taken(l)[z] > 0
      <4> HIDE DEF l
      <4> QED BY <2>1, <2>5, DoneSomewhere
    <3>2. 1..z \subseteq known["ask"]
      <4> DEFINE dear == { p \in Prices : Taken(l)[p] > 0 }
      <4>1. z \in dear /\ dear \in SUBSET (0..MaxPrice)
        BY <2>0, <3>1 DEF Prices
      <4>2. 1..Max(dear) \subseteq known["ask"]
        BY <2>5 DEF InSight
      <4>3. \E g \in dear : \A p \in dear : g >= p
        <5>1. PICK g \in dear : \A p \in dear : p <= g
          <6> HIDE DEF dear
          <6> QED BY <2>0, <4>1, GreatestOf
        <5>2. \A p \in dear : g >= p
          BY <5>1
        <5> QED BY <5>2
      <4>4. Max(dear) \in dear /\ Max(dear) >= z
        <5> HIDE DEF dear
        <5> QED BY <4>1, <4>3 DEF Max
      <4>5. Max(dear) \in Int /\ z \in Int
        <5>1. dear \subseteq Int
          BY <2>0
        <5> HIDE DEF dear
        <5> QED BY <4>1, <4>4, <5>1
      <4> HIDE DEF dear
      <4> QED
        BY <4>2, <4>4, <4>5
    <3>3. /\ \A p \in Prices : Taken(l)[p] = BuyAt(m, p)
          /\ UpTo(m, MaxPrice) >= Notional
      <4>1. \A q \in 1..z : Cost(l)[q] = Cost(m)[q]
        BY <2>3, <3>2
      <4> HIDE DEF l, m
      <4> QED BY <2>1, <3>1, <4>1, FillsAgree
    <3>4. Taken(l) = [p \in Prices |-> BuyAt(m, p)]
      <4>1. Taken(l) = [p \in Prices |-> Taken(l)[p]]
        BY DEF Taken
      <4> HIDE DEF l, m
      <4> QED BY <3>3, <4>1
    <3>5. Best(l, "bid") = Best(m, "bid")
      <4>1. PricesOf(l, "bid") # {}
        BY <2>0, <2>2 DEF TwoSided
      <4>2. Best(l, "bid") \in Prices
        <5>1. PricesOf(l, "bid") \in SUBSET Prices
          BY DEF PricesOf
        <5> HIDE DEF l
        <5> QED BY <2>0, <4>1, <5>1, BestOf DEF Best
      <4>3. Best(l, "bid")..MaxPrice \subseteq known["bid"]
        BY DEF InSight
      <4>4. { q \in Prices : Better("bid", q, Best(l, "bid")) } \subseteq known["bid"]
        <5> HIDE DEF l
        <5> QED BY <2>0, <4>2, <4>3 DEF Better, Prices
      <4> HIDE DEF l, m
      <4> QED
        BY <2>0, <2>1, <4>1, <4>4, BestAgrees
    <3>6. Best(l, "ask") = Best(m, "ask")
      <4>1. PricesOf(l, "ask") # {} /\ PricesOf(l, "ask") \in SUBSET Prices
        BY <2>0, <2>2 DEF TwoSided, PricesOf
      <4>2. /\ Best(l, "ask") \in PricesOf(l, "ask")
            /\ \A q \in PricesOf(l, "ask") : ~Better("ask", q, Best(l, "ask"))
        <5> HIDE DEF l
        <5> QED BY <2>0, <4>1, BestOf DEF Best
      <4>3. PICK b \in 1..z : b \in PricesOf(l, "ask")
        <5>1. ASSUME \A q \in 1..z : q \notin PricesOf(l, "ask") PROVE FALSE
          <6>1. \A q \in 1..z : q \in Prices /\ Cost(l)[q] = 0
            <7>1. \A q \in 1..z : q \in Prices
              BY <2>0, <3>1 DEF Prices
            <7>2. \A q \in 1..z : l["ask"][q] = 0
              BY <2>0, <2>1, <5>1, <7>1, LevelsAssumption DEF PricesOf, Levels
            <7> HIDE DEF l
            <7> QED BY <2>0, <7>1, <7>2 DEF Cost
          <6>2. z \in 1..z /\ z \in 0..MaxPrice /\ z - 1 \in 0..MaxPrice
            BY <2>0, <3>1 DEF Prices
          <6>3. Taken(l)[z] = Left(UpTo(l, z - 1)) - Left(UpTo(l, z))
            <7> HIDE DEF l
            <7> QED BY <2>1, <3>1, <6>2, RemainingIsLeft DEF Taken
          <6>4. UpTo(l, z) = UpTo(l, z - 1) /\ UpTo(l, z) \in Nat
            <7> HIDE DEF l
            <7>1. /\ UpTo(l, z) = UpTo(l, z - 1) + Cost(l)[z]
                  /\ UpTo(l, z) \in Nat /\ UpTo(l, z - 1) \in Nat
              BY <2>1, <3>1, <6>2, UpToSteps
            <7> QED BY <6>1, <6>2, <7>1
          <6> HIDE DEF l
          <6> QED BY <2>0, <3>1, <6>3, <6>4 DEF Left
        <5> QED BY <5>1
      <4>4. Best(l, "ask") \in Prices /\ Best(l, "ask") <= b
        <5>1. ~(b < Best(l, "ask"))
          BY <4>2, <4>3 DEF Better
        <5>2. Best(l, "ask") \in Prices /\ Best(l, "ask") \in Int
          BY <2>0, <4>1, <4>2
        <5>3. z \in Int
          BY <2>0, <3>1
        <5>4. b \in Int
          BY <4>3, <5>3
        <5> HIDE DEF l
        <5> QED BY <5>1, <5>2, <5>4
      <4>5. { q \in Prices : Better("ask", q, Best(l, "ask")) } \subseteq known["ask"]
        <5> HIDE DEF l
        <5> QED BY <2>0, <3>1, <3>2, <4>3, <4>4 DEF Better, Prices
      <4> HIDE DEF l, m
      <4> QED
        BY <2>0, <2>1, <4>1, <4>5, BestAgrees
    <3>7. ~(whole < Notional)
      <4>1. UpTo(m, MaxPrice) \in Nat
        BY <2>0, <2>1, UpToSteps
      <4> HIDE DEF m, whole
      <4> QED BY <2>0, <2>2, <3>3, <4>1
    <3> HIDE DEF l, m, whole
    <3> QED
      BY <2>2, <2>5, <3>4, <3>5, <3>6, <3>7 DEF PriceImpact
  <2> QED
    BY <2>4, <2>5
<1> QED
  BY LevelsInit, LevelsStep, <1>1, PTL DEF Spec

=============================================================================
