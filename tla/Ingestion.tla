----------------------------- MODULE Ingestion -----------------------------
(***************************************************************************)
(* The ingestion pipeline of one symbol: poll daemons (run_until_target),  *)
(* one-shot consistency backfills (run_consistency_backfill), the atomic   *)
(* writer they share, and the durable state they act on - the hour         *)
(* partitions on disk, the partition ledger and the watermark in SQLite.   *)
(*                                                                         *)
(* Every durable effect of a process is a step of its own, so that a crash *)
(* or another process may come between any two of them.  The code takes no *)
(* lock: nothing but the operator keeps two processes apart.  With         *)
(* Exclusive = TRUE the operator does; FALSE is what the code permits.     *)
(***************************************************************************)
EXTENDS TimeGrid, HourPartition, FiniteSets

CONSTANTS
  Daemons,      \* processes of run-daemon, run-forever, run-live-forever
  Commands,     \* processes of backfill-range, -years and -loader
  Exclusive,    \* the operator runs at most one process at a time
  SafetyLag,    \* settings.safety_lag_minutes
  Lookback,     \* settings.bootstrap_lookback_minutes
  Ranges,       \* the <<start, end>> a backfill may be asked for
  SliceSizes,   \* the --max-missing-hours it may be given; 0 is no option
  Late,         \* minutes the exchange may publish later than their time
  Recorded,     \* minutes a live stream is recorded in
  StartNow,     \* the minute the history starts in
  MaxNow,       \* bound: the last minute of the clock
  MaxCrashes,   \* bound: crashes in a behaviour
  None          \* no watermark row yet

Procs   == Daemons \union Commands
Minutes == 0..MaxNow
Hours   == { HourStart(m) : m \in Minutes }

ASSUME ProcsAssumption == Daemons \intersect Commands = {}
ASSUME ExclusiveAssumption == Exclusive \in BOOLEAN
ASSUME LagAssumption == SafetyLag \in Nat \ {0} /\ Lookback \in Nat \ {0}
ASSUME ClockAssumption ==
  /\ StartNow \in Nat /\ MaxNow \in Nat /\ StartNow <= MaxNow
  /\ Lookback + 1 + SafetyLag <= StartNow
ASSUME RangesAssumption ==
  /\ Ranges \subseteq { r \in Minutes \X Minutes : r[1] <= r[2] }
  /\ SliceSizes \subseteq Nat
ASSUME BoundsAssumption ==
  /\ MaxCrashes \in Nat
  /\ Late \subseteq Minutes /\ Recorded \subseteq Minutes
ASSUME NoneAssumption == None \notin Int

VARIABLES
  now,        \* wall clock, in minutes
  missing,    \* late minutes the exchange has not published yet
  files,      \* hour -> content of its part.parquet, NoFile if none
  ledger,     \* hour -> its row in the partitions table, NoEntry if none
  watermark,  \* last_complete_minute_utc, None if there is no row
  pc,         \* process -> where it is in its handler
  job,        \* process -> the local variables of that handler
  crashes,    \* crashes so far
  origin,     \* history: the watermark the lake was initialised with
  backfilled  \* history: hour -> what backfills have done to its file

durable == <<files, ledger, watermark, origin, backfilled>>
vars == <<now, missing, files, ledger, watermark, pc, job, crashes, origin,
          backfilled>>

Frames  == FramesOver(Minutes)
NoFile  == EmptyFrame(Minutes)

Entries == [minutes : SUBSET Minutes, content : Frames]
NoEntry == LedgerEntry(NoFile, NoFile)

(* A backfill has not written the hour, has replaced its file and not its  *)
(* row in the ledger, or has written both.                                 *)
Backfills == {"untouched", "replaced", "recorded"}

(* The locals of a handler: the range start..cap, the hours left to do,    *)
(* the hour being done, the frame collected (then merged), and the content *)
(* hashed.                                                                 *)
Jobs == [start  : Minutes,
         cap    : Minutes,
         todo   : SUBSET Hours,
         hour   : Hours,
         frame  : Frames,
         hashed : Frames]

NoJob == [start |-> 0, cap |-> 0, todo |-> {}, hour |-> HourStart(0),
          frame |-> NoFile, hashed |-> NoFile]

Labels == {"idle", "bootstrap", "collect", "merge", "replace", "hash",
           "ledger", "advance"}

TypeOK ==
  /\ now \in Minutes
  /\ missing \subseteq Minutes
  /\ files \in [Hours -> Frames]
  /\ ledger \in [Hours -> Entries]
  /\ watermark \in Minutes \union {None}
  /\ pc \in [Procs -> Labels]
  /\ job \in [Procs -> Jobs]
  /\ crashes \in 0..MaxCrashes
  /\ origin \in Minutes \union {None}
  /\ backfilled \in [Hours -> Backfills]

Init ==
  /\ now = StartNow
  /\ missing = Late
  /\ files = [h \in Hours |-> NoFile]
  /\ ledger = [h \in Hours |-> NoEntry]
  /\ watermark = None
  /\ pc = [p \in Procs |-> "idle"]
  /\ job = [p \in Procs |-> NoJob]
  /\ crashes = 0
  /\ origin = None
  /\ backfilled = [h \in Hours |-> "untouched"]

-----------------------------------------------------------------------------
(* The environment.                                                        *)

Tick ==
  /\ now < MaxNow
  /\ now' = now + 1
  /\ UNCHANGED <<missing, durable, pc, job, crashes>>

(* The exchange publishes the candle of a late minute.                     *)
Arrive(m) ==
  /\ m \in missing
  /\ m <= now
  /\ missing' = missing \ {m}
  /\ UNCHANGED <<now, durable, pc, job, crashes>>

(* What the exchange returns for a minute: every started candle but the    *)
(* late ones, the one still open included.                                 *)
Published(m) == m <= now /\ m \notin missing

MayStart(p) ==
  /\ pc[p] = "idle"
  /\ Exclusive => \A q \in Procs \ {p} : pc[q] = "idle"

-----------------------------------------------------------------------------
(* How a handler ends or goes on.                                          *)

Goto(p, label) == pc' = [pc EXCEPT ![p] = label]

(* The loop goes on with the hours of rest, or the handler returns.        *)
Continue(p, rest) ==
  /\ Goto(p, IF rest = {} THEN "idle" ELSE "collect")
  /\ job' = [job EXCEPT ![p] =
       IF rest = {} THEN NoJob
       ELSE [@ EXCEPT !.todo = rest, !.frame = NoFile, !.hashed = NoFile]]

(* An exception leaves run_until_target and is caught by the daemon's      *)
(* loop; run_consistency_backfill catches it per hour and goes on.         *)
Fail(p, h) ==
  Continue(p, IF p \in Daemons THEN {} ELSE job[p].todo \ {h})

(* The loop over iter_hours(start, cap) begins.                            *)
BeginLoop(p, start, cap, hours) ==
  /\ Goto(p, IF hours = {} THEN "idle" ELSE "collect")
  /\ job' = [job EXCEPT ![p] =
       IF hours = {} THEN NoJob
       ELSE [NoJob EXCEPT !.start = start, !.cap = cap, !.todo = hours]]

-----------------------------------------------------------------------------
(* run_once and run_until_target up to the loop.                           *)

Target == TargetHorizon(now, SafetyLag)

(* No watermark row: the horizon is kept and the row written next.         *)
PollEmpty(p) ==
  /\ MayStart(p)
  /\ watermark = None
  /\ Goto(p, "bootstrap")
  /\ job' = [job EXCEPT ![p] = [NoJob EXCEPT !.cap = Target]]
  /\ UNCHANGED <<now, missing, durable, crashes>>

Bootstrap(p) ==
  LET cap   == job[p].cap
      first == cap - (Lookback + 1)
  IN /\ pc[p] = "bootstrap"
     /\ watermark' = first
     /\ origin' = first
     /\ BeginLoop(p, first + 1, cap, IterHours(first + 1, cap))
     /\ UNCHANGED <<now, missing, files, ledger, crashes, backfilled>>

PollCaughtUp(p) ==
  /\ MayStart(p)
  /\ watermark # None
  /\ watermark >= Target
  /\ UNCHANGED vars

(* Mutant: start < target instead of start <= target.                      *)
PollWellBehind(p) ==
  /\ MayStart(p)
  /\ watermark # None
  /\ watermark + 1 < Target
  /\ BeginLoop(p, watermark + 1, Target, IterHours(watermark + 1, Target))
  /\ UNCHANGED <<now, missing, durable, crashes>>

PollBehind(p) ==
  /\ MayStart(p)
  /\ watermark # None
  /\ watermark < Target
  /\ BeginLoop(p, watermark + 1, Target, IterHours(watermark + 1, Target))
  /\ UNCHANGED <<now, missing, durable, crashes>>

-----------------------------------------------------------------------------
(* run_consistency_backfill up to the loop: the hours of the range whose   *)
(* partition the audit refuses, or all of them with force_repair, cut to   *)
(* the first n when a slice size is given.                                 *)

Issues(start, end) ==
  { h \in IterHours(start, end) :
      ~ AuditValid(files[h], Window(start, end, h)) }

FirstHours(hours, n) ==
  IF n = 0 THEN hours
  ELSE { h \in hours : Cardinality({ g \in hours : g < h }) < n }

StartBackfill(p) ==
  /\ MayStart(p)
  /\ \E r \in Ranges, n \in SliceSizes, force \in BOOLEAN :
       LET issues == IF force THEN IterHours(r[1], r[2])
                     ELSE Issues(r[1], r[2])
       IN BeginLoop(p, r[1], r[2], FirstHours(issues, n))
  /\ UNCHANGED <<now, missing, durable, crashes>>

-----------------------------------------------------------------------------
(* One hour of either loop.                                                *)

(* _collect_and_transform: a row for every minute of the window, its hard  *)
(* columns null where the exchange has no candle, its live columns set for *)
(* the minutes the live collector knows of.                                *)
CollectedRow(m, seen) ==
  [hard |-> Published(m), final |-> m < now, live |-> m \in seen]

Collect(p) ==
  /\ pc[p] = "collect"
  /\ \E h \in Hours :
       LET window == Window(job[p].start, job[p].cap, h)
       IN /\ NextHour(h, job[p].todo)
          /\ \E seen \in SUBSET (window \intersect Recorded) :
               job' = [job EXCEPT ![p].hour = h,
                                  ![p].frame =
                         [m \in Minutes |->
                            IF m \in window THEN CollectedRow(m, seen)
                            ELSE NoRow]]
  /\ Goto(p, "merge")
  /\ UNCHANGED <<now, missing, durable, crashes>>

(* A mandatory request fails after its retries.                            *)
CollectFails(p) ==
  /\ pc[p] = "collect"
  /\ \E h \in Hours : NextHour(h, job[p].todo) /\ Fail(p, h)
  /\ UNCHANGED <<now, missing, durable, crashes>>

(* write_hour_partition: read the file if there is one, merge, validate,   *)
(* and write the result to a temporary file no other process knows of.     *)
MergeAndStage(p) ==
  LET merged == Merge(files[job[p].hour], job[p].frame)
  IN /\ pc[p] = "merge"
     /\ IF DQValid(merged)
        THEN /\ job' = [job EXCEPT ![p].frame = merged]
             /\ Goto(p, "replace")
        ELSE Fail(p, job[p].hour)
     /\ UNCHANGED <<now, missing, durable, crashes>>

(* tmp_path.replace(final_path).                                           *)
Replace(p) ==
  /\ pc[p] = "replace"
  /\ files' = [files EXCEPT ![job[p].hour] = job[p].frame]
  /\ backfilled' = IF p \in Commands
                   THEN [backfilled EXCEPT ![job[p].hour] = "replaced"]
                   ELSE backfilled
  /\ Goto(p, "hash")
  /\ UNCHANGED <<now, missing, ledger, watermark, origin, job, crashes>>

(* _file_hash(final_path) reads whatever the final path holds by then.     *)
HashFile(p) ==
  /\ pc[p] = "hash"
  /\ job' = [job EXCEPT ![p].hashed = files[job[p].hour]]
  /\ Goto(p, "ledger")
  /\ UNCHANGED <<now, missing, durable, crashes>>

(* upsert_partition.  A backfill then goes on with its next hour.          *)
UpsertPartition(p) ==
  LET h == job[p].hour
  IN /\ pc[p] = "ledger"
     /\ ledger' = [ledger EXCEPT ![h] =
                     LedgerEntry(job[p].frame, job[p].hashed)]
     /\ backfilled' = [backfilled EXCEPT ![h] =
                         IF @ = "replaced" THEN "recorded" ELSE @]
     /\ IF p \in Daemons
        THEN Goto(p, "advance") /\ UNCHANGED job
        ELSE Continue(p, job[p].todo \ {h})
     /\ UNCHANGED <<now, missing, files, watermark, origin, crashes>>

(* Mutant: the watermark of the whole poll after its first hour.           *)
AdvanceToCap(p) ==
  /\ pc[p] = "advance"
  /\ watermark' = job[p].cap
  /\ Continue(p, job[p].todo \ {job[p].hour})
  /\ UNCHANGED <<now, missing, files, ledger, origin, crashes, backfilled>>

(* upsert_watermark(window_end), a daemon's last step for the hour.        *)
Advance(p) ==
  LET h == job[p].hour
  IN /\ pc[p] = "advance"
     /\ watermark' = WindowEnd(job[p].cap, h)
     /\ Continue(p, job[p].todo \ {h})
     /\ UNCHANGED <<now, missing, files, ledger, origin, crashes, backfilled>>

(* The process dies and is started again: its locals are gone.             *)
Crash(p) ==
  /\ pc[p] # "idle"
  /\ crashes < MaxCrashes
  /\ crashes' = crashes + 1
  /\ Goto(p, "idle")
  /\ job' = [job EXCEPT ![p] = NoJob]
  /\ UNCHANGED <<now, missing, durable>>

-----------------------------------------------------------------------------
Poll(d) == PollEmpty(d) \/ PollCaughtUp(d) \/ PollBehind(d)

HourStep(p) ==
  \/ Collect(p) \/ CollectFails(p) \/ MergeAndStage(p)
  \/ Replace(p) \/ HashFile(p) \/ UpsertPartition(p)

Next ==
  \/ Tick
  \/ \E m \in Minutes : Arrive(m)
  \/ \E d \in Daemons : Poll(d) \/ Bootstrap(d) \/ Advance(d)
  \/ \E c \in Commands : StartBackfill(c)
  \/ \E p \in Procs : HourStep(p) \/ Crash(p)

Spec == Init /\ [][Next]_vars

(* Time goes on and late candles appear; a daemon is never descheduled for *)
(* good; and a request that is made again and again is answered in the     *)
(* end.  Nothing is asked of the backfills but that they do not hold the   *)
(* lake for ever.                                                          *)
Fairness ==
  /\ WF_vars(Tick)
  /\ \A m \in Minutes : WF_vars(Arrive(m))
  /\ \A d \in Daemons :
       /\ SF_vars(PollEmpty(d) \/ PollBehind(d))
       /\ SF_vars(Collect(d))
       /\ WF_vars(Bootstrap(d))
       /\ WF_vars(Advance(d))
  /\ \A p \in Procs :
       /\ WF_vars(MergeAndStage(p))
       /\ WF_vars(Replace(p))
       /\ WF_vars(HashFile(p))
       /\ WF_vars(UpsertPartition(p))
  /\ \A c \in Commands : WF_vars(Collect(c) \/ CollectFails(c))

FairSpec == Spec /\ Fairness

-----------------------------------------------------------------------------
(* Properties.                                                             *)

FileOf(m) == files[HourStart(m)]

(* A minute is settled when its partition holds a complete row of a closed *)
(* candle for it.                                                          *)
SettledRow(row) == row # NoRow /\ row.hard /\ row.final

Settled(m) == SettledRow(FileOf(m)[m])

(* The watermark never stands past a minute that is not settled: whatever  *)
(* crashed, failed or was backfilled in between, every minute since the    *)
(* lake was initialised up to last_complete_minute_utc is on disk, with    *)
(* the values of its closed candle (run_until_target).                     *)
WatermarkCovered ==
  watermark # None => \A m \in Minutes :
                        (origin < m /\ m <= watermark) => Settled(m)

(* The ledger and the disk disagree, or the disk is ahead of the           *)
(* watermark, in two ways only: in the hour the next poll will redo, where *)
(* a daemon has died between rename, ledger and watermark; or in an hour a *)
(* backfill has written, which moves no watermark and which nobody redoes  *)
(* when it dies between rename and ledger.  For every other hour the       *)
(* ledger is exact (run_until_target, run_consistency_backfill).           *)
OnlyOpenHourDiffers ==
  \A h \in Hours :
    LET redone == watermark # None /\ h = HourStart(watermark + 1)
    IN /\ ledger[h] # LedgerEntry(files[h], files[h]) =>
            redone \/ backfilled[h] = "replaced"
       /\ \A m \in Stamps(files[h]) :
            (watermark = None \/ m > watermark) =>
               redone \/ backfilled[h] # "untouched"

(* A rewrite of a partition loses nothing: no minute disappears, no live   *)
(* data is dropped, and no closed candle is replaced by an open one        *)
(* (_merge_partition_frames under every caller).                           *)
NoRowLost(old, new) ==
  \A m \in Stamps(old) :
    /\ m \in Stamps(new)
    /\ old[m].live => new[m].live
    /\ old[m].final => new[m].final

RowsSurvive == [][\A h \in Hours : NoRowLost(files[h], files'[h])]_files

(* The lake seen as a graded table of minutes with a mark.                 *)
Grade(m) ==
  IF FileOf(m)[m] = NoRow THEN 0 ELSE IF FileOf(m)[m].final THEN 2 ELSE 1

Lake == INSTANCE MinuteLake WITH
          grade <- [m \in Minutes |-> Grade(m)],
          base  <- origin,
          mark  <- watermark

(* The pipeline implements the abstract lake: rows only get better, the    *)
(* watermark never moves back and moves over settled minutes only, though  *)
(* upsert_watermark and the rename would let anything happen.              *)
ImplementsLake == Lake!LakeSpec

(* Every minute that the safety lag has passed is covered by the watermark *)
(* in the end: failed requests, late candles and crashes only delay it.    *)
CatchesUp ==
  \A m \in Minutes :
    (m <= Target) ~> (watermark # None /\ watermark >= m)

-----------------------------------------------------------------------------
(* Why WatermarkCovered holds when one process runs at a time: an          *)
(* inductive strengthening of it.                                          *)

OneAtWork == \A p, q \in Procs : p # q => pc[p] = "idle" \/ pc[q] = "idle"

(* The watermark stays behind the clock by the safety lag, so a candle     *)
(* fetched later for a minute it covers is closed.                         *)
WatermarkLags ==
  watermark # None =>
    origin \in Minutes /\ origin <= watermark /\ watermark + SafetyLag <= now

InLoop == {"collect", "merge", "replace", "hash", "ledger", "advance"}

InHour == InLoop \ {"collect"}

(* A daemon in its loop has the hours after the watermark left to do.      *)
DaemonLoop(d) ==
  /\ pc[d] = "bootstrap" =>
       /\ watermark = None
       /\ Lookback + 1 <= job[d].cap /\ job[d].cap + SafetyLag <= now
  /\ pc[d] \in InLoop =>
       /\ watermark # None
       /\ job[d].start <= watermark + 1
       /\ watermark < job[d].cap /\ job[d].cap + SafetyLag <= now
       /\ job[d].todo = IterHours(watermark + 1, job[d].cap)

(* The minutes the watermark covers now or, if p is a daemon, will cover   *)
(* once the hour p is at is done.                                          *)
Owed(p) ==
  LET h == job[p].hour
      done == { m \in Minutes : /\ watermark # None
                                /\ origin < m /\ m <= watermark
                                /\ HourStart(m) = h }
  IN IF p \in Daemons THEN done \union Window(job[p].start, job[p].cap, h)
     ELSE done

(* What the frame a process carries, and then the file it has written,     *)
(* hold for those minutes.                                                 *)
HourInHand(p) ==
  /\ pc[p] \in InHour => NextHour(job[p].hour, job[p].todo)
  /\ pc[p] = "merge" =>
       /\ \A m \in Owed(p) : job[p].frame[m] # NoRow => job[p].frame[m].final
       /\ p \in Daemons =>
            \A m \in Window(job[p].start, job[p].cap, job[p].hour) :
               job[p].frame[m] # NoRow
  /\ pc[p] = "replace" => \A m \in Owed(p) : SettledRow(job[p].frame[m])
  /\ pc[p] \in {"hash", "ledger", "advance"} =>
       \A m \in Owed(p) : SettledRow(files[job[p].hour][m])

CoverInv ==
  /\ TypeOK
  /\ OneAtWork
  /\ WatermarkLags
  /\ WatermarkCovered
  /\ \A d \in Daemons : DaemonLoop(d)
  /\ \A p \in Procs : HourInHand(p)
=============================================================================
