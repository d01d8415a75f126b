---------------------------- MODULE VisionCache -----------------------------
(***************************************************************************)
(* The daily files of Binance Vision and the cache of them on disk         *)
(* (VisionClient, VisionLoader).  A file is a pair of a stream and a day;  *)
(* of its rows only the minutes they are of are kept.  The name of a       *)
(* cached file never says whether the download of it was completed.        *)
(***************************************************************************)
EXTENDS TimeGrid

CONSTANTS
  DayLen,      \* minutes in a day, 1440 in the code
  LastMinute,  \* bound: the last minute of the model
  Loads,       \* streams, numbered in the order they are loaded in
  Holes        \* <<stream, minute>> that a published file has no row of

Minutes == 0..LastMinute
DayOf(m) == m \div DayLen
Days    == 0..DayOf(LastMinute)
Streams == 1..Loads
Objects == Streams \X Days

ASSUME DayLenAssumption == DayLen \in Nat \ {0} /\ DayLen % HourLen = 0
ASSUME LoadsAssumption == Loads \in Nat \ {0} /\ LastMinute \in Nat
ASSUME HolesAssumption == Holes \subseteq Streams \X Minutes

VARIABLES
  published,  \* the objects on Vision
  cache       \* object -> what is under its name in the cache directory

visionVars == <<published, cache>>

VisionTypeOK ==
  /\ published \subseteq Objects
  /\ cache \in [Objects -> {"none", "part", "whole"}]

VisionInit ==
  /\ published = {}
  /\ cache = [f \in Objects |-> "none"]

(* Vision publishes the file of a day, some time after the day.            *)
Publish(f) ==
  /\ f \in Objects \ published
  /\ published' = published \union {f}
  /\ UNCHANGED cache

(* _read_zip_csv finds nothing under the name and no object for it: any    *)
(* answer to HEAD that is not a success counts as none.                    *)
TakenForMissing(f) == cache[f] = "none" /\ UNCHANGED visionVars

(* download_zip opens the destination, then writes into it.                *)
BeginDownload(f) ==
  /\ cache[f] = "none" /\ f \in published
  /\ cache' = [cache EXCEPT ![f] = "part"]
  /\ UNCHANGED published

CompleteDownload(f) ==
  /\ cache[f] = "part"
  /\ cache' = [cache EXCEPT ![f] = "whole"]
  /\ UNCHANGED published

(* _days_in_window for a window from..to of minutes, which the loader is   *)
(* given with the minute after it; both ends count.                        *)
FirstDay(from) == DayOf(from)
LastDay(to)    == DayOf(to + 1)

(* Mutants: a minute too many; the row of the last minute dropped.         *)
RowsPast(f, from, to) == { m \in from..(to + 2) : DayOf(m) = f[2] }
RowsShort(f, from, to) ==
  { m \in Minutes : from <= m /\ m < to
                    /\ DayOf(m) = f[2] /\ <<f[1], m>> \notin Holes }

(* _filter_and_export, the part of one file: from both ends inclusive.     *)
Rows(f, from, to) ==
  { m \in Minutes : from <= m /\ m <= to + 1
                    /\ DayOf(m) = f[2] /\ <<f[1], m>> \notin Holes }
=============================================================================
