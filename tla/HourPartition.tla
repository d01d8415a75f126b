--------------------------- MODULE HourPartition ---------------------------
(***************************************************************************)
(* The rows of an hour partition and what writer/atomic.py and             *)
(* validation/ compute from them.  A row keeps only what the properties    *)
(* tell apart:                                                             *)
(*   hard   all HARD_REQUIRED columns are non-null;                        *)
(*   final  its candle had closed when it was fetched (the exchange also   *)
(*          returns the candle that is still open);                        *)
(*   live   it carries LIVE_ONLY data of a stream that was being recorded. *)
(* A frame, in memory or on disk, maps every minute of the model to its    *)
(* row, or to NoRow where it has none.                                     *)
(***************************************************************************)

CONSTANT NoRow

Row == [hard : BOOLEAN, final : BOOLEAN, live : BOOLEAN]

ASSUME NoRowAssumption == NoRow \notin Row

FramesOver(minutes) == [minutes -> Row \union {NoRow}]

EmptyFrame(minutes) == [m \in minutes |-> NoRow]

(* The minutes a frame has a row for: its timestamp column.                *)
Stamps(frame) == { m \in DOMAIN frame : frame[m] # NoRow }

(* Mutants: the old rows dropped; keep="first" for keep="last".            *)
MergeNewOnly(existing, new) == new

MergeKeepFirst(existing, new) ==
  [m \in DOMAIN new |-> IF existing[m] = NoRow THEN new[m] ELSE existing[m]]

(* _merge_partition_frames: one row per minute, the new one where both     *)
(* frames have it, except that live data is never dropped (coverage flags  *)
(* are OR-ed, other LIVE_ONLY columns coalesced).                          *)
Merge(existing, new) ==
  [m \in DOMAIN new |->
     IF new[m] = NoRow THEN existing[m]
     ELSE IF existing[m] = NoRow THEN new[m]
     ELSE [new[m] EXCEPT !.live = @ \/ existing[m].live]]

(* DQValidator.validate on a merged frame: columns and timestamps are      *)
(* right by construction of Merge, what is left to fail is a null.         *)
DQValid(frame) == \A m \in Stamps(frame) : frame[m].hard

(* audit_hour_partition_file for the expected minutes of the hour.         *)
AuditValid(file, expected) ==
  \A m \in expected : m \in Stamps(file) /\ file[m].hard

(* The ledger row of upsert_partition.  row_count, min_ts and max_ts are   *)
(* functions of the minutes of the frame that was validated; content_hash  *)
(* is taken from the file on disk afterwards.                              *)
LedgerEntry(validated, hashed) ==
  [minutes |-> Stamps(validated), content |-> hashed]
=============================================================================
