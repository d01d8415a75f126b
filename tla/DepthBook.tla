----------------------------- MODULE DepthBook -----------------------------
(***************************************************************************)
(* DepthOrderBook of sources/websocket.py between the exchange's diff      *)
(* stream and its snapshots.  The matching engine numbers its updates      *)
(* 1, 2, 3, ...; a diff event carries those from U to u and, when it is    *)
(* sent, the last number pu of the event before.  Prices are left to       *)
(* DepthLevels: here a book is the set of updates it has taken in, and is  *)
(* right when that set has no gap.  So is the spread check, which          *)
(* DepthLevels shows to find nothing in such a book.                       *)
(***************************************************************************)
EXTENDS Integers

CONSTANTS
  MaxId,     \* bound: updates of the engine
  MaxDrops,  \* bound: connections lost
  PuSent,    \* whether an event carries pu: a subset of BOOLEAN
  NoPu       \* pu of an event without it

ASSUME DepthAssumption ==
  MaxId \in Nat /\ MaxDrops \in Nat /\ PuSent \subseteq BOOLEAN /\ NoPu \notin Int

VARIABLES
  engine,     \* the engine's last update
  sent,       \* the last update put into an event
  wire,       \* events sent to us and not handled yet
  connected,  \* the depth stream is open
  drops,      \* connections lost so far
  have,       \* the updates the book has taken in
  last,       \* _last_update_id, 0 for None
  synced,     \* _synchronized
  degraded,   \* _degraded
  buffer,     \* _buffer; kept as a set, its order is that of u
  replaying   \* what sync_from_snapshot has left to apply

stream == <<engine, sent, wire, connected, drops>>
book   == <<have, last, synced, degraded, buffer, replaying>>
bookVars == <<stream, book>>

Ids == 1..MaxId

Events == [U : Ids, u : Ids, pu : (0..MaxId) \union {NoPu}]

(* Events are handled in stream order, buffered ones in the order of their *)
(* final update id, which is the same.                                     *)
Earliest(e, events) == e \in events /\ \A f \in events : e.u <= f.u

BookTypeOK ==
  /\ engine \in 0..MaxId /\ sent \in 0..engine
  /\ wire \subseteq Events
  /\ connected \in BOOLEAN /\ drops \in 0..MaxDrops
  /\ have \subseteq Ids /\ last \in 0..MaxId
  /\ synced \in BOOLEAN /\ degraded \in BOOLEAN
  /\ buffer \subseteq Events /\ replaying \subseteq Events

BookInit ==
  /\ engine = 0 /\ sent = 0 /\ wire = {}
  /\ connected = FALSE /\ drops = 0
  /\ have = {} /\ last = 0
  /\ synced = FALSE /\ degraded = FALSE
  /\ buffer = {} /\ replaying = {}

-----------------------------------------------------------------------------
(* The exchange and the connection.                                        *)

EngineStep ==
  /\ engine < MaxId
  /\ engine' = engine + 1
  /\ UNCHANGED <<sent, wire, connected, drops, book>>

(* Every 100 ms the updates since the last event are sent as one; nobody   *)
(* gets an event that is sent while the connection is down.                *)
Emit ==
  /\ sent < engine
  /\ \E withPu \in PuSent :
       LET e == [U |-> sent + 1, u |-> engine,
                 pu |-> IF withPu THEN sent ELSE NoPu]
       IN wire' = IF connected THEN wire \union {e} ELSE wire
  /\ sent' = engine
  /\ UNCHANGED <<engine, connected, drops, book>>

Connect ==
  /\ ~ connected
  /\ connected' = TRUE
  /\ UNCHANGED <<engine, sent, wire, drops, book>>

Disconnect ==
  /\ connected
  /\ drops < MaxDrops
  /\ connected' = FALSE
  /\ wire' = {}
  /\ drops' = drops + 1
  /\ UNCHANGED <<engine, sent, book>>

-----------------------------------------------------------------------------
(* apply_event.  An event that fails the continuity check raises           *)
(* DepthSyncError; it is neither applied nor buffered.                     *)

Stale(e) == e.u <= last

(* Mutant: pu is there, so U is not looked at, and pu is not either.       *)
PuTrusted(e) == e.pu # NoPu \/ e.U <= last + 1

Continuous(e) == IF e.pu # NoPu THEN e.pu = last ELSE e.U <= last + 1

MarkDegraded == synced' = FALSE /\ degraded' = TRUE

(* Mutant: the event is buffered whether the book is synchronised or not.  *)
BufferAnyEvent(e) ==
  /\ buffer' = buffer \union {e}
  /\ UNCHANGED <<have, last, synced, degraded>>

BufferEvent(e) ==
  /\ ~ synced
  /\ buffer' = buffer \union {e}
  /\ UNCHANGED <<have, last, synced, degraded>>

SkipEvent(e) ==
  /\ synced /\ Stale(e)
  /\ UNCHANGED <<have, last, synced, degraded, buffer>>

ExtendBook(e) ==
  /\ synced /\ ~ Stale(e) /\ Continuous(e)
  /\ have' = have \union (e.U .. e.u)
  /\ last' = e.u
  /\ UNCHANGED <<synced, degraded, buffer>>

BreakBook(e) ==
  /\ synced /\ ~ Stale(e) /\ ~ Continuous(e)
  /\ MarkDegraded
  /\ UNCHANGED <<have, last, buffer>>

TakeIn(e) == BufferEvent(e) \/ SkipEvent(e) \/ ExtendBook(e)

(* The worker hands the next event of the stream to the book.              *)
Deliver(e) ==
  /\ Earliest(e, wire)
  /\ wire' = wire \ {e}
  /\ UNCHANGED <<engine, sent, connected, drops, replaying>>

-----------------------------------------------------------------------------
(* sync_from_snapshot: the book becomes the snapshot of update id, the     *)
(* buffer is emptied, and its events that are not older are applied if the *)
(* first of them spans the snapshot.                                       *)

Spans(e, id) == e.U <= id /\ id <= e.u

SyncFromSnapshot(id) ==
  LET pending == { e \in buffer : e.u >= id }
      spanned == \A e \in pending : Earliest(e, pending) => Spans(e, id)
  IN /\ replaying = {}
     /\ have' = 1..id
     /\ last' = id
     /\ buffer' = {}
     /\ synced' = spanned
     /\ degraded' = ~ spanned
     /\ replaying' = IF spanned THEN pending ELSE {}
     /\ UNCHANGED stream

(* One turn of its loop over apply_event; an exception drops the rest.     *)
ReplayEvent ==
  /\ \E e \in replaying :
       /\ Earliest(e, replaying)
       /\ \/ /\ SkipEvent(e) \/ ExtendBook(e)
             /\ replaying' = replaying \ {e}
          \/ /\ BreakBook(e)
             /\ replaying' = {}
  /\ UNCHANGED stream

-----------------------------------------------------------------------------
(* The book in the hands of any caller that hands it the stream in order   *)
(* and, whenever it likes, a snapshot the engine has produced.             *)

BookNext ==
  \/ EngineStep \/ Emit \/ Connect \/ Disconnect
  \/ /\ replaying = {}
     /\ \E e \in wire : Deliver(e) /\ (TakeIn(e) \/ BreakBook(e))
  \/ \E id \in 1..engine : SyncFromSnapshot(id)
  \/ ReplayEvent

BookSpec == BookInit /\ [][BookNext]_bookVars

-----------------------------------------------------------------------------
(* Properties.                                                             *)

(* A synchronised book has every update up to its last one and no other:   *)
(* whatever was lost with a connection, buffered, replayed or overtaken by *)
(* a snapshot, apply_event has noticed before it calls the book good.      *)
BookFaithful == synced => have = 1..last /\ ~ degraded

(* A book that is synchronised has nothing buffered that it would apply    *)
(* late: the buffer only holds what came since it lost the stream.         *)
BufferOnlyWhenLost == synced => buffer = {}
=============================================================================
