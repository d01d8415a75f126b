------------------------------- MODULE Repair -------------------------------
(***************************************************************************)
(* run_consistency_backfill on a lake whose partitions may be damaged, fed *)
(* by Vision files, the cache of them, and REST: which hours it repairs,   *)
(* which it leaves, and what it reports.  Failures of the network may hit  *)
(* every request, the process may crash at every step, and partitions are  *)
(* damaged while no backfill runs.  One backfill runs at a time.           *)
(***************************************************************************)
EXTENDS VisionCache, FiniteSets

CONSTANTS
  Hard,        \* the streams with HARD_REQUIRED columns, which REST has too
  Ranges,      \* the <<start, end>> a backfill may be asked for
  SliceSizes,  \* values of --max-missing-hours; 0 stands for no option
  MaxCrashes,  \* bound: crashes in a behaviour
  MaxDamages   \* bound: partitions damaged in a behaviour

ASSUME HardAssumption == Hard \subseteq Streams /\ Hard # {}
ASSUME RangesAssumption ==
  /\ Ranges \subseteq Minutes \X Minutes /\ Ranges # {}
  /\ \A r \in Ranges : r[1] <= r[2] /\ r[2] < LastMinute
  /\ SliceSizes \subseteq Nat /\ SliceSizes # {}
ASSUME BoundsAssumption == MaxCrashes \in Nat /\ MaxDamages \in Nat

Hours == { HourStart(m) : m \in Minutes }

(* What is in a partition file, for its readers: it cannot be read, it     *)
(* lacks a required column, it lacks another column, it has two rows for a *)
(* minute, or nothing of the kind.                                         *)
Shapes == {"torn", "required_lost", "other_lost", "twice", "sound"}

Partitions == [shape : Shapes, rows : SUBSET Minutes]
NoPartition == [shape |-> "sound", rows |-> {}]

VARIABLES
  files,      \* hour -> its partition; no rows for a missing or empty one
  pc,         \* where the backfill is
  args,       \* its arguments
  found,      \* the number of issues it works from
  todo,       \* target_issues left
  hour,       \* the issue in hand
  cold,       \* its band is COLD
  at,         \* the Vision object the loader is at
  got,        \* stream -> minutes of the rows collected
  repaired,   \* hours_repaired
  remaining,  \* issues_remaining
  hurt,       \* history: hours of this backfill a request failed for
  crashes, damages

jobVars == <<args, found, todo, hour, cold, at, got, repaired, remaining, hurt>>
vars == <<visionVars, files, pc, jobVars, crashes, damages>>

Arguments ==
  [range : Ranges, visionOnly : BOOLEAN, force : BOOLEAN, slice : SliceSizes]

Labels == {"idle", "next", "band", "load", "download", "fetch", "write",
           "ledger", "reported"}

NothingGot == [s \in Streams |-> {}]

TypeOK ==
  /\ VisionTypeOK
  /\ files \in [Hours -> Partitions]
  /\ pc \in Labels
  /\ args \in Arguments
  /\ found \in Nat /\ repaired \in Nat /\ remaining \in Nat
  /\ todo \subseteq Hours /\ hour \in Hours /\ hurt \subseteq Hours
  /\ cold \in BOOLEAN
  /\ at \in Objects
  /\ got \in [Streams -> SUBSET Minutes]
  /\ crashes \in 0..MaxCrashes /\ damages \in 0..MaxDamages

FirstArguments == CHOOSE a \in Arguments : TRUE

Fresh ==
  /\ args = FirstArguments /\ found = 0 /\ todo = {} /\ hour = 0
  /\ cold = FALSE /\ at = <<1, 0>> /\ got = NothingGot
  /\ repaired = 0 /\ remaining = 0 /\ hurt = {}

(* The locals of one turn of the loop go, then those of the call.          *)
ForgetTurn ==
  hour' = 0 /\ cold' = FALSE /\ at' = <<1, 0>> /\ got' = NothingGot

Forget ==
  /\ args' = FirstArguments /\ found' = 0 /\ todo' = {}
  /\ repaired' = 0 /\ remaining' = 0 /\ hurt' = {}
  /\ ForgetTurn

Init ==
  /\ VisionInit
  /\ files = [h \in Hours |-> NoPartition]
  /\ pc = "idle" /\ Fresh
  /\ crashes = 0 /\ damages = 0

-----------------------------------------------------------------------------
(* What the audit says of a partition, for the expected minutes.           *)
AuditValid(file, expected) ==
  file.shape \in {"sound", "other_lost"} /\ expected \subseteq file.rows

(* read_parquet and the concat of the merge raise on the one, the gate     *)
(* rejects the other: the join doubles the rows that are there twice.      *)
Mergeable(file) == file.shape = "sound"

Issues(range) ==
  { h \in IterHours(range[1], range[2]) :
      ~AuditValid(files[h], Window(range[1], range[2], h)) }

(* issues[:max_missing_hours].                                             *)
FirstOf(n, hours) ==
  { h \in hours : Cardinality({ g \in hours : g < h }) < n }

Expected == Window(args.range[1], args.range[2], hour)
From == IF args.range[1] <= hour THEN hour ELSE args.range[1]
To   == WindowEnd(args.range[2], hour)

Start(a) ==
  /\ pc = "idle" /\ pc' = "next"
  /\ args' = a
  /\ LET issues == IF a.force THEN IterHours(a.range[1], a.range[2])
                   ELSE Issues(a.range)
     IN /\ found' = Cardinality(issues)
        /\ todo' = IF a.slice > 0 THEN FirstOf(a.slice, issues) ELSE issues
  /\ UNCHANGED <<visionVars, files, hour, cold, at, got, repaired, remaining,
                 hurt, crashes, damages>>

(* The loop turns to the next issue; the age of the window, or the option  *)
(* of the loader, gives its band.                                          *)
NextIssue ==
  /\ pc = "next"
  /\ \E h \in todo, c \in BOOLEAN :
       /\ NextHour(h, todo) /\ (args.visionOnly => c)
       /\ hour' = h /\ todo' = todo \ {h} /\ cold' = c
       /\ pc' = IF c THEN "band" ELSE "fetch"
  /\ UNCHANGED <<visionVars, files, args, found, at, got, repaired, remaining,
                 hurt, crashes, damages>>

(* Mutant: the exception ends the loop.                                    *)
LeaveAll ==
  /\ pc' = "next" /\ todo' = {} /\ ForgetTurn
  /\ UNCHANGED <<args, found, repaired, remaining>>

(* An exception in the loop: the hour is counted as failed and left.       *)
Leave ==
  /\ pc' = "next" /\ ForgetTurn
  /\ UNCHANGED <<args, found, todo, repaired, remaining>>

(* A request fails: the probe of the availability, which nothing protects, *)
(* a HEAD, a download, a fetch from REST.  A cold window may have its hard *)
(* streams from Vision and still ask REST, for the aggregate trades; their *)
(* failure fails the hour too.                                             *)
RequestFails ==
  /\ \/ pc \in {"band", "download"}
     \/ pc = "load" /\ cache[at] = "none"
     \/ pc = "fetch" /\ ~args.visionOnly
  /\ Leave
  /\ hurt' = hurt \union {hour}
  /\ UNCHANGED <<visionVars, files, crashes, damages>>

(* _log_vision_availability is through, whatever it logged.                *)
Probe ==
  /\ pc = "band" /\ pc' = "load"
  /\ at' = <<1, FirstDay(From)>>
  /\ UNCHANGED <<visionVars, files, args, found, todo, hour, cold, got,
                 repaired, remaining, hurt, crashes, damages>>

(* The next day of the window, or the first of the next stream.            *)
Onward ==
  IF at[2] < LastDay(To) THEN at' = <<at[1], at[2] + 1>> /\ pc' = "load"
  ELSE IF at[1] < Loads THEN at' = <<at[1] + 1, FirstDay(From)>> /\ pc' = "load"
  ELSE at' = at /\ pc' = "fetch"

Collect(rows) ==
  /\ got' = [got EXCEPT ![at[1]] = @ \union rows]
  /\ Onward
  /\ UNCHANGED <<files, args, found, todo, hour, cold, repaired, remaining,
                 hurt, crashes, damages>>

LoadCached ==
  /\ pc = "load" /\ cache[at] = "whole"
  /\ Collect(Rows(at, From, To))
  /\ UNCHANGED visionVars

(* ZipFile raises on a file whose end is missing.                          *)
LoadPart ==
  /\ pc = "load" /\ cache[at] = "part"
  /\ Leave
  /\ UNCHANGED <<visionVars, files, hurt, crashes, damages>>

LoadMissing ==
  /\ pc = "load" /\ TakenForMissing(at)
  /\ Collect({})

Download ==
  /\ pc = "load" /\ BeginDownload(at)
  /\ pc' = "download"
  /\ UNCHANGED <<files, jobVars, crashes, damages>>

Downloaded ==
  /\ pc = "download" /\ CompleteDownload(at)
  /\ Collect(Rows(at, From, To))

(* A cold window asks REST for the streams Vision had no row of, if it may *)
(* fall back; the others ask it for all streams.  REST has every minute.   *)
Fetch ==
  /\ pc = "fetch" /\ pc' = "write"
  /\ got' = [s \in Streams |->
       IF s \in Hard /\ got[s] = {} /\ ~args.visionOnly
       THEN { m \in Minutes : From <= m /\ m <= To + 1 } ELSE got[s]]
  /\ UNCHANGED <<visionVars, files, args, found, todo, hour, cold, at,
                 repaired, remaining, hurt, crashes, damages>>

(* Mutant: the data-quality gate left out.                                 *)
GateOpen(whole) == TRUE

(* DQValidator: no null in a required column.                              *)
Gate(whole) == Expected \subseteq whole

(* The merge has the new rows of the window, the old rows of the rest; it  *)
(* is renamed into place if it passes the gate, or left.                   *)
Write ==
  /\ pc = "write"
  /\ LET whole == { m \in Expected : \A s \in Hard : m \in got[s] }
     IN IF Mergeable(files[hour]) /\ Gate(whole)
        THEN /\ files' = [files EXCEPT ![hour].rows = (@ \ Expected) \union whole]
             /\ pc' = "ledger" /\ UNCHANGED jobVars
        ELSE Leave /\ UNCHANGED <<files, hurt>>
  /\ UNCHANGED <<visionVars, crashes, damages>>

(* The hash and the ledger row; an error here counts the hour as failed.   *)
Record ==
  /\ pc = "ledger"
  /\ \/ Leave /\ UNCHANGED hurt
     \/ /\ pc' = "next" /\ repaired' = repaired + 1 /\ ForgetTurn
        /\ UNCHANGED <<args, found, todo, remaining, hurt>>
  /\ UNCHANGED <<visionVars, files, crashes, damages>>

(* Mutant: the targets counted instead of the issues.                      *)
RemainingOfTargets ==
  LET targets == IF args.slice > 0 /\ args.slice < found THEN args.slice
                 ELSE found
  IN targets - repaired

(* issues_remaining.                                                       *)
Remaining ==
  IF ~args.force /\ args.slice = 0 THEN Cardinality(Issues(args.range))
  ELSE found - repaired

Report ==
  /\ pc = "next" /\ todo = {} /\ pc' = "reported"
  /\ remaining' = Remaining
  /\ UNCHANGED <<visionVars, files, args, found, todo, hour, cold, at, got,
                 repaired, hurt, crashes, damages>>

Return ==
  /\ pc = "reported" /\ pc' = "idle" /\ Forget
  /\ UNCHANGED <<visionVars, files, crashes, damages>>

Crash ==
  /\ pc \notin {"idle", "reported"} /\ crashes < MaxCrashes
  /\ pc' = "idle" /\ Forget
  /\ crashes' = crashes + 1
  /\ UNCHANGED <<visionVars, files, damages>>

(* A partition is lost, cut, or written by something else.                 *)
Damage(h, shape, rows) ==
  /\ pc = "idle" /\ damages < MaxDamages
  /\ rows = {} => shape = "sound"
  /\ files' = [files EXCEPT ![h] = [shape |-> shape, rows |-> rows]]
  /\ damages' = damages + 1
  /\ UNCHANGED <<visionVars, pc, jobVars, crashes>>

Outside ==
  \/ \E f \in Objects : Publish(f)
                        /\ UNCHANGED <<files, pc, jobVars, crashes, damages>>
  \/ \E h \in Hours, shape \in Shapes :
       \E rows \in SUBSET files[h].rows : Damage(h, shape, rows)
  \/ Crash

Work ==
  \/ NextIssue \/ Probe \/ LoadCached \/ LoadPart \/ LoadMissing
  \/ Download \/ Downloaded \/ Fetch \/ Write \/ Record \/ Report \/ Return

Next ==
  \/ \E a \in Arguments : Start(a)
  \/ Work \/ RequestFails \/ Outside

Spec == Init /\ [][Next]_vars

(* A process goes on to its end, and the operator comes back to the whole  *)
(* range, with all its issues and with REST.                               *)
WholeRange(a) ==
  /\ a.slice = 0 /\ ~a.visionOnly
  /\ \A r \in Ranges : a.range[1] <= r[1] /\ r[2] <= a.range[2]

Fairness ==
  /\ WF_vars(Work)
  /\ SF_vars(\E a \in Arguments : WholeRange(a) /\ Start(a))

FairSpec == Spec /\ Fairness

-----------------------------------------------------------------------------
(* A backfill never reports fewer hours than are invalid when it returns,  *)
(* sliced, forced or not: what it counts as repaired passes the audit, and *)
(* what it does not count was an issue before (issues_remaining).          *)
RemainingNeverUnder ==
  pc = "reported" => remaining >= Cardinality(Issues(args.range))

(* No step of a backfill takes a row, or makes a partition unreadable: a   *)
(* failed or interrupted repair leaves what was there                      *)
(* (write_hour_partition).                                                 *)
NothingMadeWorse ==
  [][damages' = damages =>
       \A h \in Hours : /\ files[h].rows \subseteq files'[h].rows
                        /\ files[h].shape = files'[h].shape]_vars

(* What keeps an hour from repair for ever: a partition that cannot be     *)
(* merged with, a zip whose download did not end, a minute a published     *)
(* file has not, and, in the last hour of a day that Vision lacks, the     *)
(* first candle of the next day, which hides that there is none for the    *)
(* hour.                                                                   *)
NextDayHides(h, end, s) ==
  /\ DayOf(end + 1) # DayOf(h)
  /\ cache[<<s, DayOf(h)>>] = "none"
  /\ <<s, DayOf(end + 1)>> \in published

Blocked(h, range) ==
  LET expected == Window(range[1], range[2], h)
      end      == WindowEnd(range[2], h)
  IN \/ ~Mergeable(files[h])
     \/ \E f \in Objects : cache[f] = "part" /\ f[2] \in DayOf(h)..DayOf(end + 1)
     \/ \E s \in Hard, m \in expected :
          <<s, m>> \in Holes /\ <<s, DayOf(m)>> \in published
     \/ \E s \in Hard : NextDayHides(h, end, s)

(* A backfill of all issues with REST leaves an hour invalid only if a     *)
(* request failed for it or it is blocked: nothing else makes it pass over *)
(* an hour (run_consistency_backfill, _collect_and_transform).  Its ledger *)
(* row may be missing, its data is there.                                  *)
LeftInvalidExplained ==
  pc = "reported" /\ args.slice = 0 /\ ~args.visionOnly =>
    \A h \in Issues(args.range) : h \in hurt \/ Blocked(h, args.range)

(* If the operator keeps coming back, and from some time on requests are   *)
(* answered and the answers to HEAD are true, every hour of the range gets *)
(* valid, or is blocked by one of those (run_consistency_backfill).        *)
NetworkRecovers ==
  <>[][~RequestFails /\ ~(LoadMissing /\ at \in published)]_vars

RepairsComeThrough ==
  NetworkRecovers =>
    \A range \in { a.range : a \in { b \in Arguments : WholeRange(b) } } :
      \A h \in IterHours(range[1], range[2]) :
        []<>(h \notin Issues(range) \/ Blocked(h, range))
=============================================================================
