-------------------------- MODULE Ingestion_proofs --------------------------
(***************************************************************************)
(* Theorems about the ingestion pipeline, for every value of its           *)
(* constants.                                                              *)
(***************************************************************************)
EXTENDS Ingestion, TimeGrid_proofs

(* Minutes are natural numbers and start at 0.                             *)
LEMMA MinutesAreNat == Minutes \subseteq Nat /\ 0 \in Minutes
  BY ClockAssumption DEF Minutes

(* The same, of one minute: what the arithmetic below needs.               *)
LEMMA MinuteIsInt == \A m \in Minutes : m \in Nat /\ m \in Int
  BY MinutesAreNat

(* The hour of a minute of the model is an hour of the model.              *)
LEMMA HourOfMinute == \A m \in Minutes : HourStart(m) \in Hours
  BY DEF Hours

(* iter_hours over a range of the model gives hours of the model.          *)
LEMMA IterHoursTyped ==
  ASSUME NEW a \in Nat, NEW b \in Minutes
  PROVE  IterHours(a, b) \subseteq Hours
<1>1. a..b \subseteq Minutes
  BY ClockAssumption DEF Minutes
<1> QED
  BY <1>1 DEF IterHours, Hours

(* No file is a frame.                                                     *)
LEMMA NoFileTyped == NoFile \in Frames
  BY DEF NoFile, Frames, EmptyFrame, FramesOver

(* No ledger row is an entry.                                              *)
LEMMA NoEntryTyped == NoEntry \in Entries
  BY NoFileTyped DEF NoEntry, LedgerEntry, Entries, Stamps, NoFile, EmptyFrame

(* A handler at rest has well-typed locals.                                *)
LEMMA NoJobTyped == NoJob \in Jobs
  BY NoFileTyped, MinutesAreNat, HourOfMinute DEF NoJob, Jobs

(* Merging two frames of the model gives one (_merge_partition_frames).    *)
LEMMA MergeTyped ==
  ASSUME NEW f \in Frames, NEW g \in Frames
  PROVE  Merge(f, g) \in Frames
<1>1. ASSUME NEW m \in Minutes
      PROVE  Merge(f, g)[m] \in Row \union {NoRow}
  <2>1. f[m] \in Row \union {NoRow} /\ g[m] \in Row \union {NoRow}
    BY DEF Frames, FramesOver
  <2>2. g[m] # NoRow /\ f[m] # NoRow =>
          [g[m] EXCEPT !.live = @ \/ f[m].live] \in Row
    BY <2>1 DEF Row
  <2> QED
    BY <2>1, <2>2 DEF Merge, Frames, FramesOver
<1>2. DOMAIN g = Minutes
  BY DEF Frames, FramesOver
<1> QED
  BY <1>1, <1>2 DEF Merge, Frames, FramesOver

(* upsert_partition writes a well-typed ledger row.                        *)
LEMMA EntryTyped ==
  ASSUME NEW f \in Frames, NEW g \in Frames
  PROVE  LedgerEntry(f, g) \in Entries
  BY DEF LedgerEntry, Entries, Stamps, Frames, FramesOver

(* Ending or going on with a handler keeps the control state typed.        *)
LEMMA ContinueTyped ==
  ASSUME TypeOK, NEW p \in Procs, NEW rest \in SUBSET Hours,
         Continue(p, rest)
  PROVE  pc' \in [Procs -> Labels] /\ job' \in [Procs -> Jobs]
<1>1. pc' \in [Procs -> Labels]
  BY DEF TypeOK, Continue, Goto, Labels
<1>2. [job[p] EXCEPT !.todo = rest, !.frame = NoFile, !.hashed = NoFile]
        \in Jobs
  BY NoFileTyped DEF TypeOK, Jobs
<1>3. job' \in [Procs -> Jobs]
  BY <1>2, NoJobTyped DEF TypeOK, Continue
<1> QED
  BY <1>1, <1>3

(* So does a handler that fails.                                           *)
LEMMA FailTyped ==
  ASSUME TypeOK, NEW p \in Procs, NEW h, Fail(p, h)
  PROVE  pc' \in [Procs -> Labels] /\ job' \in [Procs -> Jobs]
<1>1. (IF p \in Daemons THEN {} ELSE job[p].todo \ {h}) \in SUBSET Hours
  BY DEF TypeOK, Jobs
<1> QED
  BY <1>1, ContinueTyped DEF Fail

(* So does the beginning of a loop.                                        *)
LEMMA BeginLoopTyped ==
  ASSUME TypeOK, NEW p \in Procs, NEW a \in Minutes, NEW b \in Minutes,
         NEW hours \in SUBSET Hours, BeginLoop(p, a, b, hours)
  PROVE  pc' \in [Procs -> Labels] /\ job' \in [Procs -> Jobs]
<1>1. [NoJob EXCEPT !.start = a, !.cap = b, !.todo = hours] \in Jobs
  BY NoJobTyped DEF Jobs
<1>2. pc' \in [Procs -> Labels]
  BY DEF TypeOK, BeginLoop, Goto, Labels
<1>3. job' \in [Procs -> Jobs]
  BY <1>1, NoJobTyped DEF TypeOK, BeginLoop
<1> QED
  BY <1>2, <1>3

(* The horizon of a poll is a minute late enough to bootstrap from.        *)
LEMMA TargetTyped ==
  ASSUME TypeOK, now >= StartNow
  PROVE  Target \in Minutes /\ Target >= Lookback + 1
  BY ClockAssumption, LagAssumption DEF TypeOK, Target, TargetHorizon, Minutes

-----------------------------------------------------------------------------
(* Type correctness.  The clock and the horizon kept across Bootstrap are  *)
(* what makes it inductive: first = cap - (Lookback + 1) must be a minute. *)

TypeInv ==
  /\ TypeOK
  /\ StartNow <= now
  /\ \A d \in Daemons : pc[d] = "bootstrap" => Lookback + 1 <= job[d].cap

(* TypeInv holds when the store has been initialised.                      *)
LEMMA TypeInit == Init => TypeInv
<1> SUFFICES ASSUME Init PROVE TypeInv
  OBVIOUS
<1>1. TypeOK
  BY NoFileTyped, NoEntryTyped, NoJobTyped, ClockAssumption, BoundsAssumption
  DEF Init, TypeOK, Minutes, Labels, Backfills
<1> QED
  BY <1>1, ClockAssumption DEF Init, TypeInv, Procs

(* A step that only moves the control state of p keeps TypeInv if it types *)
(* it and does not bring p to "bootstrap".                                 *)
LEMMA ControlStepTyped ==
  ASSUME TypeInv, NEW p \in Procs,
         UNCHANGED <<now, missing, crashes>>,
         files' \in [Hours -> Frames], ledger' \in [Hours -> Entries],
         watermark' \in Minutes \union {None},
         origin' \in Minutes \union {None},
         backfilled' \in [Hours -> Backfills],
         pc' \in [Procs -> Labels], job' \in [Procs -> Jobs],
         pc'[p] # "bootstrap",
         \A q \in Procs \ {p} : pc'[q] = pc[q] /\ job'[q] = job[q]
  PROVE  TypeInv'
  BY DEF TypeInv, TypeOK, Procs

(* Every step preserves TypeInv.                                           *)
LEMMA TypeStep == TypeInv /\ [Next]_vars => TypeInv'
<1> SUFFICES ASSUME TypeInv, [Next]_vars PROVE TypeInv'
  OBVIOUS
<1> USE DEF TypeInv
<1>1. CASE UNCHANGED vars
  BY <1>1 DEF vars, TypeOK
<1>2. CASE Tick
  BY <1>2, ClockAssumption DEF Tick, TypeOK, durable, Minutes
<1>3. ASSUME NEW m \in Minutes, Arrive(m) PROVE TypeInv'
  BY <1>3 DEF Arrive, TypeOK, durable
<1>4. ASSUME NEW d \in Daemons, PollEmpty(d) PROVE TypeInv'
  <2>1. Target \in Minutes /\ Lookback + 1 <= Target
    BY TargetTyped DEF Minutes
  <2>2. [NoJob EXCEPT !.cap = Target] \in Jobs
    BY <2>1, NoJobTyped DEF Jobs
  <2>3. /\ pc' \in [Procs -> Labels]
        /\ job' \in [Procs -> Jobs]
    BY <1>4, <2>2 DEF PollEmpty, Goto, TypeOK, Labels
  <2>4. \A e \in Daemons : pc'[e] = "bootstrap" => Lookback + 1 <= job'[e].cap
    BY <1>4, <2>1, <2>2, NoJobTyped DEF PollEmpty, Goto, TypeOK, Procs, Jobs, NoJob
  <2> QED
    BY <1>4, <2>3, <2>4 DEF PollEmpty, TypeOK, durable
<1>5. ASSUME NEW d \in Daemons, Bootstrap(d) PROVE TypeInv'
  <2> DEFINE cap == job[d].cap
             first == cap - (Lookback + 1)
  <2>1. d \in Procs /\ cap \in Minutes /\ Lookback + 1 <= cap
    BY <1>5 DEF Bootstrap, Procs, TypeOK, Jobs
  <2>2. first \in Minutes /\ first + 1 \in Minutes
    BY <2>1, LagAssumption, ClockAssumption DEF Minutes
  <2>3. IterHours(first + 1, cap) \in SUBSET Hours
    BY <2>1, <2>2, IterHoursTyped, MinutesAreNat
  <2>4. BeginLoop(d, first + 1, cap, IterHours(first + 1, cap))
    BY <1>5 DEF Bootstrap
  <2>5. pc' \in [Procs -> Labels] /\ job' \in [Procs -> Jobs]
    BY <2>1, <2>2, <2>3, <2>4, BeginLoopTyped
  <2>6. /\ pc'[d] # "bootstrap"
        /\ \A q \in Procs \ {d} : pc'[q] = pc[q] /\ job'[q] = job[q]
    BY <2>1, <2>4 DEF BeginLoop, Goto, TypeOK
  <2>7. watermark' \in Minutes /\ origin' \in Minutes
    BY <1>5, <2>2 DEF Bootstrap
  <2> QED
    BY <1>5, <2>1, <2>5, <2>6, <2>7, ControlStepTyped DEF Bootstrap, TypeOK
<1>6. ASSUME NEW d \in Daemons, PollCaughtUp(d) PROVE TypeInv'
  BY <1>6 DEF PollCaughtUp, vars, TypeOK
<1>7. ASSUME NEW d \in Daemons, PollBehind(d) PROVE TypeInv'
  <2>1. d \in Procs /\ Target \in Minutes
    BY TargetTyped DEF Procs
  <2>2. watermark + 1 \in Minutes
    <3>1. watermark \in Minutes /\ watermark < Target
      BY <1>7 DEF PollBehind, TypeOK
    <3> QED
      BY <2>1, <3>1, ClockAssumption DEF Minutes
  <2>3. IterHours(watermark + 1, Target) \in SUBSET Hours
    BY <2>1, <2>2, IterHoursTyped, MinutesAreNat
  <2>4. BeginLoop(d, watermark + 1, Target, IterHours(watermark + 1, Target))
    BY <1>7 DEF PollBehind
  <2>5. pc' \in [Procs -> Labels] /\ job' \in [Procs -> Jobs]
    BY <2>1, <2>2, <2>3, <2>4, BeginLoopTyped
  <2>6. /\ pc'[d] # "bootstrap"
        /\ \A q \in Procs \ {d} : pc'[q] = pc[q] /\ job'[q] = job[q]
    BY <2>1, <2>4 DEF BeginLoop, Goto, TypeOK
  <2> QED
    BY <1>7, <2>1, <2>5, <2>6, ControlStepTyped
    DEF PollBehind, TypeOK, durable
<1>8. ASSUME NEW c \in Commands, StartBackfill(c) PROVE TypeInv'
  <2>1. PICK r \in Ranges, hours \in SUBSET Hours :
          r \in Minutes \X Minutes /\ BeginLoop(c, r[1], r[2], hours)
    <3>1. PICK r \in Ranges, n \in SliceSizes, force \in BOOLEAN :
            BeginLoop(c, r[1], r[2],
                      FirstHours(IF force THEN IterHours(r[1], r[2])
                                 ELSE Issues(r[1], r[2]), n))
      BY <1>8 DEF StartBackfill
    <3>2. r \in Minutes \X Minutes
      BY RangesAssumption
    <3>3. IterHours(r[1], r[2]) \subseteq Hours
      BY <3>2, IterHoursTyped, MinutesAreNat
    <3>4. FirstHours(IF force THEN IterHours(r[1], r[2])
                     ELSE Issues(r[1], r[2]), n) \subseteq Hours
      BY <3>3 DEF FirstHours, Issues
    <3> QED
      BY <3>1, <3>2, <3>4
  <2>2. c \in Procs /\ r[1] \in Minutes /\ r[2] \in Minutes
    BY <2>1 DEF Procs
  <2>3. pc' \in [Procs -> Labels] /\ job' \in [Procs -> Jobs]
    BY <2>1, <2>2, BeginLoopTyped
  <2>4. /\ pc'[c] # "bootstrap"
        /\ \A q \in Procs \ {c} : pc'[q] = pc[q] /\ job'[q] = job[q]
    BY <2>1, <2>2 DEF BeginLoop, Goto, TypeOK
  <2> QED
    BY <1>8, <2>2, <2>3, <2>4, ControlStepTyped
    DEF StartBackfill, TypeOK, durable
<1>9. ASSUME NEW p \in Procs, Collect(p) PROVE TypeInv'
  <2>1. PICK h \in Hours, seen \in SUBSET Minutes :
          job' = [job EXCEPT ![p].hour = h,
                             ![p].frame =
                    [m \in Minutes |->
                       IF m \in Window(job[p].start, job[p].cap, h)
                       THEN CollectedRow(m, seen) ELSE NoRow]]
    BY <1>9, BoundsAssumption DEF Collect
  <2>2. [m \in Minutes |-> IF m \in Window(job[p].start, job[p].cap, h)
                           THEN CollectedRow(m, seen) ELSE NoRow] \in Frames
    BY DEF Frames, FramesOver, CollectedRow, Row, Published
  <2>3. job' \in [Procs -> Jobs]
    BY <2>1, <2>2 DEF TypeOK, Jobs
  <2>4. pc' \in [Procs -> Labels]
    BY <1>9 DEF Collect, Goto, TypeOK, Labels
  <2>5. /\ pc'[p] # "bootstrap"
        /\ \A q \in Procs \ {p} : pc'[q] = pc[q] /\ job'[q] = job[q]
    BY <1>9, <2>1 DEF Collect, Goto, TypeOK
  <2> QED
    BY <1>9, <2>3, <2>4, <2>5, ControlStepTyped DEF Collect, TypeOK, durable
<1>10. ASSUME NEW p \in Procs, CollectFails(p) PROVE TypeInv'
  <2>1. PICK h \in Hours : Fail(p, h)
    BY <1>10 DEF CollectFails
  <2>2. pc' \in [Procs -> Labels] /\ job' \in [Procs -> Jobs]
    BY <2>1, FailTyped
  <2>3. /\ pc'[p] # "bootstrap"
        /\ \A q \in Procs \ {p} : pc'[q] = pc[q] /\ job'[q] = job[q]
    BY <2>1 DEF Fail, Continue, Goto, TypeOK
  <2> QED
    BY <1>10, <2>2, <2>3, ControlStepTyped DEF CollectFails, TypeOK, durable
<1>11. ASSUME NEW p \in Procs, MergeAndStage(p) PROVE TypeInv'
  <2> DEFINE merged == Merge(files[job[p].hour], job[p].frame)
  <2>1. merged \in Frames
    BY MergeTyped DEF TypeOK, Jobs
  <2>2. CASE DQValid(merged)
    <3>1. job' = [job EXCEPT ![p].frame = merged] /\ Goto(p, "replace")
      BY <1>11, <2>2 DEF MergeAndStage
    <3>2. pc' \in [Procs -> Labels] /\ job' \in [Procs -> Jobs]
      BY <2>1, <3>1 DEF Goto, TypeOK, Jobs, Labels
    <3>3. /\ pc'[p] # "bootstrap"
          /\ \A q \in Procs \ {p} : pc'[q] = pc[q] /\ job'[q] = job[q]
      BY <3>1 DEF Goto, TypeOK
    <3> QED
      BY <1>11, <3>2, <3>3, ControlStepTyped
      DEF MergeAndStage, TypeOK, durable
  <2>3. CASE ~ DQValid(merged)
    <3>1. Fail(p, job[p].hour)
      BY <1>11, <2>3 DEF MergeAndStage
    <3>2. pc' \in [Procs -> Labels] /\ job' \in [Procs -> Jobs]
      BY <3>1, FailTyped
    <3>3. /\ pc'[p] # "bootstrap"
          /\ \A q \in Procs \ {p} : pc'[q] = pc[q] /\ job'[q] = job[q]
      BY <3>1 DEF Fail, Continue, Goto, TypeOK
    <3> QED
      BY <1>11, <3>2, <3>3, ControlStepTyped
      DEF MergeAndStage, TypeOK, durable
  <2> QED
    BY <2>2, <2>3
<1>12. ASSUME NEW p \in Procs, Replace(p) PROVE TypeInv'
  <2>1. files' \in [Hours -> Frames]
    BY <1>12 DEF Replace, TypeOK, Jobs
  <2>2. pc' \in [Procs -> Labels] /\ pc'[p] # "bootstrap"
    BY <1>12 DEF Replace, Goto, TypeOK, Labels
  <2>3. backfilled' \in [Hours -> Backfills]
    BY <1>12 DEF Replace, TypeOK, Backfills
  <2> QED
    BY <1>12, <2>1, <2>2, <2>3, ControlStepTyped DEF Replace, Goto, TypeOK
<1>13. ASSUME NEW p \in Procs, HashFile(p) PROVE TypeInv'
  <2>1. job' \in [Procs -> Jobs]
    BY <1>13 DEF HashFile, TypeOK, Jobs
  <2>2. pc' \in [Procs -> Labels] /\ pc'[p] # "bootstrap"
    BY <1>13 DEF HashFile, Goto, TypeOK, Labels
  <2> QED
    BY <1>13, <2>1, <2>2, ControlStepTyped DEF HashFile, Goto, TypeOK, durable
<1>14. ASSUME NEW p \in Procs, UpsertPartition(p) PROVE TypeInv'
  <2>1. ledger' \in [Hours -> Entries]
    BY <1>14, EntryTyped DEF UpsertPartition, TypeOK, Jobs
  <2>b. backfilled' \in [Hours -> Backfills]
    BY <1>14 DEF UpsertPartition, TypeOK, Backfills
  <2>2. CASE p \in Daemons
    <3>1. Goto(p, "advance") /\ UNCHANGED job
      BY <1>14, <2>2 DEF UpsertPartition
    <3>2. pc' \in [Procs -> Labels] /\ pc'[p] # "bootstrap"
      BY <3>1 DEF Goto, TypeOK, Labels
    <3> QED
      BY <1>14, <2>1, <2>b, <3>1, <3>2, ControlStepTyped
      DEF UpsertPartition, Goto, TypeOK
  <2>3. CASE p \notin Daemons
    <3>1. Continue(p, job[p].todo \ {job[p].hour})
      BY <1>14, <2>3 DEF UpsertPartition
    <3>2. job[p].todo \ {job[p].hour} \in SUBSET Hours
      BY DEF TypeOK, Jobs
    <3>3. pc' \in [Procs -> Labels] /\ job' \in [Procs -> Jobs]
      BY <3>1, <3>2, ContinueTyped
    <3>4. /\ pc'[p] # "bootstrap"
          /\ \A q \in Procs \ {p} : pc'[q] = pc[q] /\ job'[q] = job[q]
      BY <3>1 DEF Continue, Goto, TypeOK
    <3> QED
      BY <1>14, <2>1, <2>b, <3>3, <3>4, ControlStepTyped
      DEF UpsertPartition, TypeOK
  <2> QED
    BY <2>2, <2>3
<1>15. ASSUME NEW d \in Daemons, Advance(d) PROVE TypeInv'
  <2>1. /\ d \in Procs /\ job[d].cap \in Minutes /\ job[d].hour \in Hours
        /\ job[d].todo \ {job[d].hour} \in SUBSET Hours
    BY DEF Procs, TypeOK, Jobs
  <2>2. WindowEnd(job[d].cap, job[d].hour) \in Minutes
    <3>1. job[d].hour \in Nat
      BY <2>1, HourStartBounds DEF Hours, Minutes
    <3> QED
      BY <2>1, <3>1, ClockAssumption, HourLenAssumption DEF WindowEnd, Minutes
  <2>3. Continue(d, job[d].todo \ {job[d].hour})
    BY <1>15 DEF Advance
  <2>4. pc' \in [Procs -> Labels] /\ job' \in [Procs -> Jobs]
    BY <2>1, <2>3, ContinueTyped
  <2>5. /\ pc'[d] # "bootstrap"
        /\ \A q \in Procs \ {d} : pc'[q] = pc[q] /\ job'[q] = job[q]
    BY <2>1, <2>3 DEF Continue, Goto, TypeOK
  <2> QED
    BY <1>15, <2>1, <2>2, <2>4, <2>5, ControlStepTyped DEF Advance, TypeOK
<1>16. ASSUME NEW p \in Procs, Crash(p) PROVE TypeInv'
  <2>1. job' \in [Procs -> Jobs] /\ pc' \in [Procs -> Labels]
    BY <1>16, NoJobTyped DEF Crash, Goto, TypeOK, Labels
  <2>2. crashes' \in 0..MaxCrashes
    BY <1>16, BoundsAssumption DEF Crash, TypeOK
  <2>3. \A d \in Daemons :
           pc'[d] = "bootstrap" => pc[d] = "bootstrap" /\ job'[d] = job[d]
    BY <1>16 DEF Crash, Goto, TypeOK, Procs
  <2> QED
    BY <1>16, <2>1, <2>2, <2>3 DEF Crash, TypeOK, durable
<1> QED
  BY <1>1, <1>2, <1>3, <1>4, <1>5, <1>6, <1>7, <1>8, <1>9, <1>10, <1>11,
     <1>12, <1>13, <1>14, <1>15, <1>16
  DEF Next, Poll, HourStep

(* Every value the pipeline holds has its type, whatever the processes,    *)
(* the crashes and the order of their steps.                               *)
THEOREM TypeCorrect == Spec => []TypeOK
<1>1. TypeInv => TypeOK
  BY DEF TypeInv
<1> QED
  BY <1>1, TypeInit, TypeStep, PTL DEF Spec

-----------------------------------------------------------------------------
(* The watermark covers settled minutes only.  CoverInv (Ingestion) is the *)
(* inductive invariant; it needs one process at a time, since a second     *)
(* one may replace a partition between the read and the rename of the      *)
(* first.                                                                  *)

FullInv == TypeInv /\ CoverInv

(* The whole invariant holds at first.                                     *)
LEMMA FullInit == Init => FullInv
<1> SUFFICES ASSUME Init PROVE FullInv
  OBVIOUS
<1>1. TypeInv
  BY TypeInit
<1>2. \A p \in Procs : pc[p] = "idle"
  BY DEF Init
<1>3. OneAtWork /\ \A p \in Procs : HourInHand(p)
  BY <1>2 DEF OneAtWork, HourInHand, InHour, InLoop
<1>4. \A d \in Daemons : DaemonLoop(d)
  BY <1>2 DEF DaemonLoop, InLoop, Procs
<1>5. WatermarkLags /\ WatermarkCovered
  BY DEF Init, WatermarkLags, WatermarkCovered
<1> QED
  BY <1>1, <1>3, <1>4, <1>5 DEF FullInv, CoverInv, TypeInv

(* A process that has left "idle" is the only one that has.                *)
LEMMA OthersIdle ==
  ASSUME OneAtWork, NEW p \in Procs, pc[p] # "idle"
  PROVE  \A q \in Procs \ {p} : pc[q] = "idle"
  BY DEF OneAtWork

(* For a step of p, with the others idle, only what speaks of p is to be   *)
(* shown again.                                                            *)
LEMMA StepAlone ==
  ASSUME NEW p \in Procs, TypeInv',
         \A q \in Procs \ {p} : pc[q] = "idle" /\ pc'[q] = pc[q],
         p \in Daemons => DaemonLoop(p)', HourInHand(p)',
         WatermarkLags', WatermarkCovered'
  PROVE  FullInv'
<1>1. OneAtWork'
  BY DEF OneAtWork
<1>2. \A d \in Daemons : DaemonLoop(d)'
  <2> SUFFICES ASSUME NEW d \in Daemons, d # p PROVE DaemonLoop(d)'
    OBVIOUS
  <2>1. pc'[d] = "idle"
    BY DEF Procs
  <2> QED
    BY <2>1 DEF DaemonLoop, InLoop
<1>3. \A q \in Procs : HourInHand(q)'
  <2> SUFFICES ASSUME NEW q \in Procs, q # p PROVE HourInHand(q)'
    OBVIOUS
  <2>1. pc'[q] = "idle"
    OBVIOUS
  <2> QED
    BY <2>1 DEF HourInHand, InHour, InLoop
<1> QED
  BY <1>1, <1>2, <1>3 DEF FullInv, CoverInv, TypeInv

(* A step that leaves the durable state and the clock alone.               *)
LEMMA DurableKept ==
  ASSUME WatermarkLags, WatermarkCovered, UNCHANGED <<now, durable>>
  PROVE  WatermarkLags' /\ WatermarkCovered'
  BY DEF WatermarkLags, WatermarkCovered, durable, Settled, FileOf

(* A process that returns or goes to its next hour carries no frame; a     *)
(* daemon that fails goes to sleep.                                        *)
LEMMA ContinueHolds ==
  ASSUME TypeOK, NEW p \in Procs, NEW rest, Continue(p, rest),
         p \in Daemons => rest = {}
  PROVE  /\ \A q \in Procs \ {p} : pc'[q] = pc[q]
         /\ p \in Daemons => DaemonLoop(p)'
         /\ HourInHand(p)'
<1>1. /\ pc'[p] \in {"idle", "collect"}
      /\ p \in Daemons => pc'[p] = "idle"
      /\ \A q \in Procs \ {p} : pc'[q] = pc[q]
  BY DEF Continue, Goto, TypeOK
<1> QED
  BY <1>1 DEF DaemonLoop, HourInHand, InHour, InLoop

(* The same of a handler that fails.                                       *)
LEMMA FailHolds ==
  ASSUME TypeOK, NEW p \in Procs, NEW h, Fail(p, h)
  PROVE  /\ \A q \in Procs \ {p} : pc'[q] = pc[q]
         /\ p \in Daemons => DaemonLoop(p)'
         /\ HourInHand(p)'
  BY ContinueHolds DEF Fail

(* A poll that finds no watermark row.                                     *)
LEMMA PollEmptyStep ==
  ASSUME FullInv, Exclusive, TypeInv', NEW d \in Daemons, PollEmpty(d)
  PROVE  FullInv'
<1> USE DEF FullInv, CoverInv
<1>1. d \in Procs /\ \A q \in Procs \ {d} : pc[q] = "idle" /\ pc'[q] = pc[q]
  BY DEF PollEmpty, MayStart, Goto, TypeOK, Procs
<1>2. Target \in Minutes /\ Lookback + 1 <= Target /\ Target + SafetyLag <= now
  BY TargetTyped, ClockAssumption, LagAssumption
  DEF TypeInv, TypeOK, Target, TargetHorizon, Minutes
<1>3. pc'[d] = "bootstrap" /\ job'[d].cap = Target
  BY <1>1 DEF PollEmpty, Goto, TypeOK, NoJob
<1>4. DaemonLoop(d)'
  BY <1>2, <1>3 DEF DaemonLoop, InLoop, PollEmpty, durable
<1>5. HourInHand(d)'
  BY <1>3 DEF HourInHand, InHour, InLoop
<1> QED
  BY <1>1, <1>4, <1>5, DurableKept, StepAlone DEF PollEmpty

(* A poll that finds the watermark behind the horizon.                     *)
LEMMA PollBehindStep ==
  ASSUME FullInv, Exclusive, TypeInv', NEW d \in Daemons, PollBehind(d)
  PROVE  FullInv'
<1> USE DEF FullInv, CoverInv
<1> DEFINE hours == IterHours(watermark + 1, Target)
<1>1. d \in Procs /\ \A q \in Procs \ {d} : pc[q] = "idle" /\ pc'[q] = pc[q]
  BY DEF PollBehind, MayStart, BeginLoop, Goto, TypeOK, Procs
<1>2. Target \in Minutes /\ Target + SafetyLag <= now
  BY TargetTyped, ClockAssumption, LagAssumption
  DEF TypeInv, TypeOK, Target, TargetHorizon, Minutes
<1>3. BeginLoop(d, watermark + 1, Target, hours)
  BY DEF PollBehind
<1>4. \/ pc'[d] = "idle"
      \/ /\ pc'[d] = "collect"
         /\ job'[d].start = watermark + 1 /\ job'[d].cap = Target
         /\ job'[d].todo = hours
  BY <1>1, <1>3 DEF BeginLoop, Goto, TypeOK, NoJob
<1>5. watermark' = watermark /\ now' = now /\ watermark # None
      /\ watermark < Target
  BY DEF PollBehind, durable
<1>6. watermark \in Int
  BY <1>5, MinutesAreNat DEF TypeOK
<1>7. DaemonLoop(d)'
  BY <1>2, <1>4, <1>5, <1>6 DEF DaemonLoop, InLoop
<1>8. HourInHand(d)'
  BY <1>4 DEF HourInHand, InHour, InLoop
<1> QED
  BY <1>1, <1>7, <1>8, DurableKept, StepAlone DEF PollBehind

(* The watermark row is written for the first time.                        *)
LEMMA BootstrapStep ==
  ASSUME FullInv, TypeInv', NEW d \in Daemons, Bootstrap(d)
  PROVE  FullInv'
<1> USE DEF FullInv, CoverInv
<1> DEFINE cap == job[d].cap
           first == cap - (Lookback + 1)
           hours == IterHours(first + 1, cap)
<1>1. d \in Procs /\ pc[d] = "bootstrap"
  BY DEF Bootstrap, Procs
<1>2. \A q \in Procs \ {d} : pc[q] = "idle" /\ pc'[q] = pc[q]
  BY <1>1, OthersIdle DEF Bootstrap, BeginLoop, Goto, TypeOK
<1>3. cap \in Minutes /\ Lookback + 1 <= cap /\ cap + SafetyLag <= now
  BY <1>1 DEF DaemonLoop, TypeOK, Jobs
<1>4. first \in Minutes /\ first < cap /\ first + SafetyLag <= now
  BY <1>3, LagAssumption, ClockAssumption DEF Minutes, TypeOK
<1>5. watermark' = first /\ origin' = first /\ now' = now
  BY DEF Bootstrap
<1>6. first \in Int /\ first # None
  <2> HIDE DEF first
  <2>1. first \in Int
    BY <1>4, MinutesAreNat
  <2> QED
    BY <2>1, NoneAssumption
<1>7. \/ pc'[d] = "idle"
      \/ /\ pc'[d] = "collect"
         /\ job'[d].start = first + 1 /\ job'[d].cap = cap
         /\ job'[d].todo = hours
  BY <1>1 DEF Bootstrap, BeginLoop, Goto, TypeOK, NoJob
<1>8. DaemonLoop(d)'
  BY <1>3, <1>4, <1>5, <1>6, <1>7 DEF DaemonLoop, InLoop
<1>9. HourInHand(d)'
  BY <1>7 DEF HourInHand, InHour, InLoop
<1>10. WatermarkLags' /\ WatermarkCovered'
  <2> HIDE DEF first
  <2>1. \A m \in Minutes : ~ (first < m /\ m <= first)
    BY <1>6, MinutesAreNat
  <2> QED
    BY <1>4, <1>5, <1>6, <2>1 DEF WatermarkLags, WatermarkCovered
<1> QED
  BY <1>1, <1>2, <1>8, <1>9, <1>10, StepAlone

(* A backfill begins.                                                      *)
LEMMA StartBackfillStep ==
  ASSUME FullInv, Exclusive, TypeInv', NEW c \in Commands, StartBackfill(c)
  PROVE  FullInv'
<1> USE DEF FullInv, CoverInv
<1>1. c \in Procs /\ c \notin Daemons
  BY ProcsAssumption DEF Procs
<1>2. PICK a, b, hours : BeginLoop(c, a, b, hours)
  BY DEF StartBackfill
<1>3. \A q \in Procs \ {c} : pc[q] = "idle" /\ pc'[q] = pc[q]
  BY <1>1, <1>2 DEF StartBackfill, MayStart, BeginLoop, Goto, TypeOK
<1>4. pc'[c] \in {"idle", "collect"}
  BY <1>1, <1>2 DEF BeginLoop, Goto, TypeOK
<1>5. HourInHand(c)'
  BY <1>4 DEF HourInHand, InHour, InLoop
<1> QED
  BY <1>1, <1>3, <1>5, DurableKept, StepAlone DEF StartBackfill

(* A frame is collected for the next hour.                                 *)
LEMMA CollectStep ==
  ASSUME FullInv, TypeInv', NEW p \in Procs, Collect(p)
  PROVE  FullInv'
<1> USE DEF FullInv, CoverInv
<1>1. \A q \in Procs \ {p} : pc[q] = "idle" /\ pc'[q] = pc[q]
  BY OthersIdle DEF Collect, Goto, TypeOK
<1>2. PICK h \in Hours :
        LET window == Window(job[p].start, job[p].cap, h)
        IN /\ NextHour(h, job[p].todo)
           /\ \E seen \in SUBSET (window \intersect Recorded) :
                job' = [job EXCEPT ![p].hour = h,
                                   ![p].frame =
                          [m \in Minutes |->
                             IF m \in window THEN CollectedRow(m, seen)
                             ELSE NoRow]]
  BY DEF Collect
<1> DEFINE window == Window(job[p].start, job[p].cap, h)
<1>3. /\ pc'[p] = "merge"
      /\ job'[p].hour = h /\ job'[p].todo = job[p].todo
      /\ job'[p].start = job[p].start /\ job'[p].cap = job[p].cap
      /\ \A m \in Minutes :
           IF m \in window
           THEN job'[p].frame[m] # NoRow /\ job'[p].frame[m].final = (m < now)
           ELSE job'[p].frame[m] = NoRow
  <2>1. PICK seen :
          job' = [job EXCEPT ![p].hour = h,
                             ![p].frame =
                    [m \in Minutes |->
                       IF m \in window THEN CollectedRow(m, seen)
                       ELSE NoRow]]
    BY <1>2
  <2>2. \A m \in Minutes : CollectedRow(m, seen) # NoRow
                          /\ CollectedRow(m, seen).final = (m < now)
    <3>1. \A m \in Minutes : CollectedRow(m, seen) \in Row
      BY DEF CollectedRow, Row, Published
    <3> QED
      BY <3>1, NoRowAssumption DEF CollectedRow
  <2>3. pc'[p] = "merge"
    BY DEF Collect, Goto, TypeOK
  <2> QED
    BY <2>1, <2>2, <2>3 DEF TypeOK, Jobs
<1>4. now' = now /\ watermark' = watermark /\ origin' = origin
  BY DEF Collect, durable
<1>5. p \in Daemons => DaemonLoop(p)'
  BY <1>3, <1>4 DEF DaemonLoop, InLoop, Collect
<1>6. \A m \in window : m \in Minutes /\ (p \in Daemons => m < now)
  <2>1. job[p].start \in Minutes /\ job[p].cap \in Minutes /\ now \in Minutes
    BY DEF TypeOK, Jobs
  <2>2. p \in Daemons => job[p].cap + SafetyLag <= now
    BY DEF DaemonLoop, InLoop, Collect
  <2> QED
    BY <2>1, <2>2, ClockAssumption, LagAssumption DEF Window, Minutes
<1>7. \A m \in Minutes : watermark # None /\ m <= watermark => m < now
  BY ClockAssumption, LagAssumption DEF WatermarkLags, TypeOK, Minutes
<1>8. HourInHand(p)'
  <2>1. ASSUME NEW m \in Owed(p)'
        PROVE  m \in Minutes /\ (job'[p].frame[m] # NoRow => m < now)
    BY <1>3, <1>4, <1>6, <1>7, <2>1 DEF Owed
  <2>2. \A m \in Owed(p)' : job'[p].frame[m] # NoRow => job'[p].frame[m].final
    BY <1>3, <2>1
  <2>3. \A m \in window : job'[p].frame[m] # NoRow
    BY <1>3, <1>6
  <2>4. NextHour(job'[p].hour, job'[p].todo)
    BY <1>2, <1>3
  <2> QED
    BY <1>3, <2>2, <2>3, <2>4 DEF HourInHand, InHour, InLoop
<1> QED
  BY <1>1, <1>5, <1>8, DurableKept, StepAlone DEF Collect

(* A merge keeps what the file already covers and adds what was collected; *)
(* validation then leaves no null in it (_merge_partition_frames).         *)
LEMMA MergeSettles ==
  ASSUME NEW old \in Frames, NEW new \in Frames, NEW m \in Minutes,
         DQValid(Merge(old, new)),
         new[m] # NoRow => new[m].final,
         new[m] = NoRow => SettledRow(old[m])
  PROVE  SettledRow(Merge(old, new)[m])
<1>1. DOMAIN new = Minutes /\ new[m] \in Row \union {NoRow}
                          /\ old[m] \in Row \union {NoRow}
  BY DEF Frames, FramesOver
<1>2. m \in DOMAIN Merge(old, new)
  BY <1>1 DEF Merge
<1>3. CASE new[m] = NoRow
  BY <1>1, <1>3 DEF Merge
<1>4. CASE new[m] # NoRow /\ old[m] = NoRow
  <2>1. Merge(old, new)[m] = new[m]
    BY <1>1, <1>4 DEF Merge
  <2>2. new[m].hard
    BY <1>2, <1>4, <2>1 DEF DQValid, Stamps
  <2> QED
    BY <1>4, <2>1, <2>2 DEF SettledRow
<1>5. CASE new[m] # NoRow /\ old[m] # NoRow
  <2> DEFINE row == [new[m] EXCEPT !.live = @ \/ old[m].live]
  <2>1. Merge(old, new)[m] = row
    BY <1>1, <1>5 DEF Merge
  <2>2. row \in Row /\ row.final = new[m].final
    BY <1>1, <1>5 DEF Row
  <2>3. row # NoRow
    BY <2>2, NoRowAssumption
  <2>4. row.hard
    BY <1>2, <2>1, <2>3 DEF DQValid, Stamps
  <2> QED
    BY <1>5, <2>1, <2>2, <2>3, <2>4 DEF SettledRow
<1> QED
  BY <1>3, <1>4, <1>5

(* The frame is merged with the file and validated.                        *)
LEMMA MergeAndStageStep ==
  ASSUME FullInv, TypeInv', NEW p \in Procs, MergeAndStage(p)
  PROVE  FullInv'
<1> USE DEF FullInv, CoverInv
<1> DEFINE h == job[p].hour
           merged == Merge(files[h], job[p].frame)
<1>1. /\ \A q \in Procs \ {p} : pc[q] = "idle"
      /\ pc[p] = "merge"
  BY OthersIdle DEF MergeAndStage
<1>2. CASE DQValid(merged)
  <2>1. /\ pc' = [pc EXCEPT ![p] = "replace"]
        /\ job' = [job EXCEPT ![p].frame = merged]
    BY <1>2 DEF MergeAndStage, Goto
  <2>2. /\ pc'[p] = "replace" /\ job'[p].frame = merged
        /\ job'[p].hour = h /\ job'[p].todo = job[p].todo
        /\ job'[p].start = job[p].start /\ job'[p].cap = job[p].cap
        /\ \A q \in Procs \ {p} : pc'[q] = pc[q]
    BY <2>1 DEF TypeOK, Jobs
  <2>3. now' = now /\ watermark' = watermark /\ origin' = origin
    BY DEF MergeAndStage, durable
  <2>4. p \in Daemons => DaemonLoop(p)'
    BY <1>1, <2>2, <2>3 DEF DaemonLoop, InLoop
  <2>5. Owed(p)' = Owed(p)
    BY <2>2, <2>3 DEF Owed
  <2>6. ASSUME NEW m \in Owed(p)
        PROVE  SettledRow(merged[m])
    <3>1. m \in Minutes
      BY <2>6, ClockAssumption DEF Owed, Window, TypeOK, Jobs, Minutes
    <3>2. job[p].frame[m] # NoRow => job[p].frame[m].final
      BY <1>1, <2>6 DEF HourInHand
    <3>3. job[p].frame[m] = NoRow => SettledRow(files[h][m])
      <4> SUFFICES ASSUME job[p].frame[m] = NoRow
                   PROVE  SettledRow(files[h][m])
        OBVIOUS
      <4>1. /\ watermark # None /\ origin < m /\ m <= watermark
            /\ HourStart(m) = h
        BY <1>1, <2>6 DEF HourInHand, Owed
      <4> QED
        BY <3>1, <4>1 DEF WatermarkCovered, Settled, FileOf
    <3>4. files[h] \in Frames /\ job[p].frame \in Frames
      BY DEF TypeOK, Jobs
    <3> QED
      BY <1>2, <3>1, <3>2, <3>3, <3>4, MergeSettles
  <2>7. HourInHand(p)'
    <3>1. NextHour(job'[p].hour, job'[p].todo)
      BY <1>1, <2>2 DEF HourInHand, InHour, InLoop
    <3> QED
      BY <2>2, <2>5, <2>6, <3>1 DEF HourInHand, InHour, InLoop
  <2> QED
    BY <1>1, <2>2, <2>4, <2>7, DurableKept, StepAlone DEF MergeAndStage
<1>3. CASE ~ DQValid(merged)
  <2>1. Fail(p, h)
    BY <1>3 DEF MergeAndStage
  <2> QED
    BY <1>1, <2>1, FailHolds, DurableKept, StepAlone DEF MergeAndStage
<1> QED
  BY <1>2, <1>3

(* The merged frame becomes the file.                                      *)
LEMMA ReplaceStep ==
  ASSUME FullInv, TypeInv', NEW p \in Procs, Replace(p)
  PROVE  FullInv'
<1> USE DEF FullInv, CoverInv
<1> DEFINE h == job[p].hour
<1>1. /\ pc[p] = "replace" /\ pc'[p] = "hash"
      /\ \A q \in Procs \ {p} : pc[q] = "idle" /\ pc'[q] = pc[q]
  BY OthersIdle DEF Replace, Goto, TypeOK
<1>2. /\ files' = [files EXCEPT ![h] = job[p].frame] /\ job' = job
      /\ now' = now /\ watermark' = watermark /\ origin' = origin
  BY DEF Replace
<1>3. h \in Hours /\ files'[h] = job[p].frame
  BY <1>2 DEF TypeOK, Jobs
<1>4. \A m \in Owed(p) : SettledRow(job[p].frame[m])
  BY <1>1 DEF HourInHand
<1>5. p \in Daemons => DaemonLoop(p)'
  BY <1>1, <1>2 DEF DaemonLoop, InLoop
<1>6. HourInHand(p)'
  <2>1. Owed(p)' = Owed(p)
    BY <1>2 DEF Owed
  <2>2. NextHour(h, job[p].todo)
    BY <1>1 DEF HourInHand, InHour, InLoop
  <2> QED
    BY <1>1, <1>2, <1>3, <1>4, <2>1, <2>2 DEF HourInHand, InHour, InLoop
<1>7. WatermarkCovered'
  <2> SUFFICES ASSUME watermark # None,
                      NEW m \in Minutes, origin < m, m <= watermark
               PROVE  Settled(m)'
    BY <1>2 DEF WatermarkCovered
  <2>1. CASE HourStart(m) = h
    <3>1. m \in Owed(p)
      BY <2>1 DEF Owed
    <3> QED
      BY <1>3, <1>4, <2>1, <3>1 DEF Settled, FileOf
  <2>2. CASE HourStart(m) # h
    <3>1. files'[HourStart(m)] = files[HourStart(m)]
      BY <1>2, <2>2, HourOfMinute DEF TypeOK
    <3> QED
      BY <3>1 DEF WatermarkCovered, Settled, FileOf
  <2> QED
    BY <2>1, <2>2
<1>8. WatermarkLags'
  BY <1>2 DEF WatermarkLags
<1> QED
  BY <1>1, <1>5, <1>6, <1>7, <1>8, StepAlone

(* The file is hashed.                                                     *)
LEMMA HashFileStep ==
  ASSUME FullInv, TypeInv', NEW p \in Procs, HashFile(p)
  PROVE  FullInv'
<1> USE DEF FullInv, CoverInv
<1>1. /\ pc[p] = "hash" /\ pc'[p] = "ledger"
      /\ \A q \in Procs \ {p} : pc[q] = "idle" /\ pc'[q] = pc[q]
  BY OthersIdle DEF HashFile, Goto, TypeOK
<1>2. /\ job'[p].hour = job[p].hour /\ job'[p].todo = job[p].todo
      /\ job'[p].start = job[p].start /\ job'[p].cap = job[p].cap
      /\ files' = files /\ watermark' = watermark /\ origin' = origin
      /\ now' = now
  BY DEF HashFile, TypeOK, Jobs, durable
<1>3. p \in Daemons => DaemonLoop(p)'
  BY <1>1, <1>2 DEF DaemonLoop, InLoop
<1>4. HourInHand(p)'
  <2>1. Owed(p)' = Owed(p)
    BY <1>2 DEF Owed
  <2>2. /\ NextHour(job[p].hour, job[p].todo)
        /\ \A m \in Owed(p) : SettledRow(files[job[p].hour][m])
    BY <1>1 DEF HourInHand, InHour, InLoop
  <2> QED
    BY <1>1, <1>2, <2>1, <2>2 DEF HourInHand, InHour, InLoop
<1> QED
  BY <1>1, <1>3, <1>4, DurableKept, StepAlone DEF HashFile

(* The ledger row is written.                                              *)
LEMMA UpsertPartitionStep ==
  ASSUME FullInv, TypeInv', NEW p \in Procs, UpsertPartition(p)
  PROVE  FullInv'
<1> USE DEF FullInv, CoverInv
<1>1. /\ pc[p] = "ledger"
      /\ \A q \in Procs \ {p} : pc[q] = "idle"
  BY OthersIdle DEF UpsertPartition
<1>2. /\ now' = now /\ files' = files /\ watermark' = watermark
      /\ origin' = origin
  BY DEF UpsertPartition
<1>3. WatermarkLags' /\ WatermarkCovered'
  BY <1>2 DEF WatermarkLags, WatermarkCovered, Settled, FileOf
<1>4. CASE p \in Daemons
  <2>1. job' = job /\ pc' = [pc EXCEPT ![p] = "advance"]
    BY <1>4 DEF UpsertPartition, Goto
  <2>2. pc'[p] = "advance" /\ \A q \in Procs \ {p} : pc'[q] = pc[q]
    BY <2>1 DEF TypeOK
  <2>3. DaemonLoop(p)'
    BY <1>1, <1>2, <1>4, <2>1, <2>2 DEF DaemonLoop, InLoop
  <2>4. HourInHand(p)'
    <3>1. Owed(p)' = Owed(p)
      BY <1>2, <2>1 DEF Owed
    <3>2. /\ NextHour(job[p].hour, job[p].todo)
          /\ \A m \in Owed(p) : SettledRow(files[job[p].hour][m])
      BY <1>1 DEF HourInHand, InHour, InLoop
    <3> QED
      BY <1>2, <2>1, <2>2, <3>1, <3>2 DEF HourInHand, InHour, InLoop
  <2> QED
    BY <1>1, <1>3, <2>2, <2>3, <2>4, StepAlone
<1>5. CASE p \notin Daemons
  <2>1. Continue(p, job[p].todo \ {job[p].hour})
    BY <1>5 DEF UpsertPartition
  <2> QED
    BY <1>1, <1>3, <1>5, <2>1, ContinueHolds, StepAlone
<1> QED
  BY <1>4, <1>5

(* The watermark moves to the end of the window.                           *)
LEMMA AdvanceStep ==
  ASSUME FullInv, TypeInv', NEW d \in Daemons, Advance(d)
  PROVE  FullInv'
<1> USE DEF FullInv, CoverInv
<1> DEFINE h == job[d].hour
           cap == job[d].cap
           e == WindowEnd(cap, h)
<1>1. /\ d \in Procs /\ pc[d] = "advance"
      /\ \A q \in Procs \ {d} : pc[q] = "idle" /\ pc'[q] = pc[q]
  BY OthersIdle DEF Advance, Continue, Goto, TypeOK, Procs
<1>2. /\ watermark # None /\ watermark < cap /\ cap + SafetyLag <= now
      /\ job[d].start <= watermark + 1
      /\ job[d].todo = IterHours(watermark + 1, cap)
  BY <1>1 DEF DaemonLoop, InLoop
<1>3. NextHour(h, IterHours(watermark + 1, cap))
  BY <1>1, <1>2 DEF HourInHand, InHour, InLoop
<1>4. /\ watermark \in Minutes /\ cap \in Minutes /\ now \in Minutes
      /\ job[d].start \in Minutes
  BY <1>1, <1>2 DEF TypeOK, Jobs
<1>5. watermark \in Int /\ cap \in Int /\ now \in Int /\ job[d].start \in Int
  BY <1>4, MinuteIsInt
<1>6. /\ e \in Int /\ watermark < e /\ e <= cap
      /\ \A m \in Int : watermark < m /\ m <= e => HourStart(m) = h
      /\ IterHours(watermark + 1, cap) \ {h} = IterHours(e + 1, cap)
      /\ IterHours(e + 1, cap) = {} <=> e = cap
  <2> HIDE DEF h, cap
  <2> QED
    BY <1>2, <1>3, <1>5, LoopStep
<1>7. watermark' = e /\ files' = files /\ origin' = origin /\ now' = now
  BY DEF Advance
<1>8. e # None
  BY <1>6, NoneAssumption
<1>9. Continue(d, IterHours(e + 1, cap))
  BY <1>2, <1>6 DEF Advance
<1>10. /\ pc'[d] \in {"idle", "collect"}
       /\ pc'[d] = "collect" =>
            /\ e # cap
            /\ job'[d].start = job[d].start /\ job'[d].cap = cap
            /\ job'[d].todo = IterHours(e + 1, cap)
  <2>1. CASE e = cap
    BY <1>1, <1>6, <1>9, <2>1 DEF Continue, Goto, TypeOK
  <2>2. CASE e # cap
    <3>1. IterHours(e + 1, cap) # {}
      BY <1>6, <2>2
    <3>2. job'[d] = [job[d] EXCEPT !.todo = IterHours(e + 1, cap),
                                   !.frame = NoFile, !.hashed = NoFile]
      BY <1>1, <1>9, <3>1 DEF Continue, TypeOK
    <3>3. job[d] \in Jobs
      BY <1>1 DEF TypeOK
    <3> QED
      BY <1>1, <1>9, <2>2, <3>1, <3>2, <3>3 DEF Continue, Goto, TypeOK, Jobs
  <2> QED
    BY <2>1, <2>2
<1> HIDE DEF e
<1>11. DaemonLoop(d)'
  BY <1>2, <1>5, <1>6, <1>7, <1>8, <1>10 DEF DaemonLoop, InLoop
<1>12. HourInHand(d)'
  BY <1>10 DEF HourInHand, InHour, InLoop
<1>13. WatermarkLags'
  <2>1. origin \in Minutes /\ origin <= watermark /\ origin \in Int
    BY <1>2, MinuteIsInt DEF WatermarkLags
  <2> QED
    BY <1>2, <1>5, <1>6, <1>7, <2>1, LagAssumption DEF WatermarkLags
<1>14. WatermarkCovered'
  <2> SUFFICES ASSUME NEW m \in Minutes, origin < m, m <= e
               PROVE  Settled(m)
    BY <1>7 DEF WatermarkCovered, Settled, FileOf
  <2>1. m \in Int
    BY MinutesAreNat
  <2>2. CASE m <= watermark
    BY <1>2, <2>2 DEF WatermarkCovered
  <2>3. CASE watermark < m
    <3>1. HourStart(m) = h
      BY <1>6, <2>1, <2>3
    <3>2. m \in job[d].start..cap
      BY <1>2, <1>5, <1>6, <2>1, <2>3
    <3>3. m \in Owed(d)
      BY <3>1, <3>2 DEF Owed, Window
    <3>4. SettledRow(files[h][m])
      BY <1>1, <3>3 DEF HourInHand
    <3> QED
      BY <3>1, <3>4 DEF Settled, FileOf
  <2> QED
    BY <1>5, <2>1, <2>2, <2>3
<1> QED
  BY <1>1, <1>11, <1>12, <1>13, <1>14, StepAlone

(* Every step preserves the whole invariant.                               *)
LEMMA FullStep ==
  ASSUME Exclusive
  PROVE  FullInv /\ [Next]_vars => FullInv'
<1> SUFFICES ASSUME FullInv, [Next]_vars PROVE FullInv'
  OBVIOUS
<1> USE DEF FullInv, CoverInv
<1>t. TypeInv'
  BY TypeStep
<1>1. CASE UNCHANGED vars
  BY <1>t, <1>1
  DEF vars, TypeInv, OneAtWork, WatermarkLags, WatermarkCovered, DaemonLoop,
      HourInHand, Owed, Settled, FileOf
<1>2. CASE Tick
  <2>1. /\ now' = now + 1 /\ now \in Int
        /\ UNCHANGED <<files, watermark, origin, pc, job>>
    BY <1>2, MinutesAreNat DEF Tick, durable, TypeOK
  <2>2. WatermarkLags'
    <3>1. watermark # None => watermark \in Int
      BY MinutesAreNat DEF TypeOK
    <3> QED
      BY <2>1, <3>1, LagAssumption DEF WatermarkLags
  <2>3. \A d \in Daemons : DaemonLoop(d)'
    <3> SUFFICES ASSUME NEW d \in Daemons PROVE DaemonLoop(d)'
      OBVIOUS
    <3>1. job[d].cap \in Int
      BY MinuteIsInt DEF TypeOK, Jobs, Procs
    <3> QED
      BY <2>1, <3>1, LagAssumption DEF DaemonLoop
  <2> QED
    BY <1>t, <2>1, <2>2, <2>3
    DEF TypeInv, OneAtWork, WatermarkCovered, HourInHand, Owed, Settled, FileOf
<1>3. ASSUME NEW m \in Minutes, Arrive(m) PROVE FullInv'
  BY <1>t, <1>3
  DEF Arrive, durable, TypeInv, OneAtWork, WatermarkLags, WatermarkCovered,
      DaemonLoop, HourInHand, Owed, Settled, FileOf
<1>4. ASSUME NEW d \in Daemons, PollCaughtUp(d) PROVE FullInv'
  BY <1>1, <1>4 DEF PollCaughtUp
<1>5. ASSUME NEW p \in Procs, CollectFails(p) PROVE FullInv'
  <2>1. PICK h \in Hours : Fail(p, h)
    BY <1>5 DEF CollectFails
  <2>2. \A q \in Procs \ {p} : pc[q] = "idle"
    BY <1>5, OthersIdle DEF CollectFails
  <2> QED
    BY <1>t, <1>5, <2>1, <2>2, FailHolds, DurableKept, StepAlone
    DEF CollectFails
<1>6. ASSUME NEW p \in Procs, Crash(p) PROVE FullInv'
  <2>1. /\ pc'[p] = "idle"
        /\ \A q \in Procs \ {p} : pc[q] = "idle" /\ pc'[q] = pc[q]
    BY <1>6, OthersIdle DEF Crash, Goto, TypeOK
  <2>2. (p \in Daemons => DaemonLoop(p)') /\ HourInHand(p)'
    BY <2>1 DEF DaemonLoop, HourInHand, InHour, InLoop
  <2> QED
    BY <1>t, <1>6, <2>1, <2>2, DurableKept, StepAlone DEF Crash
<1> QED
  BY <1>t, <1>1, <1>2, <1>3, <1>4, <1>5, <1>6, PollEmptyStep, PollBehindStep,
     BootstrapStep, StartBackfillStep, CollectStep, MergeAndStageStep,
     ReplaceStep, HashFileStep, UpsertPartitionStep, AdvanceStep
  DEF Next, Poll, HourStep

(* As long as one process runs at a time, last_complete_minute_utc never   *)
(* covers a minute that is not on disk with all its mandatory columns and  *)
(* the values of its closed candle: for every number of daemons, backfills *)
(* and crashes, every safety lag, and whatever candles come late.          *)
THEOREM WatermarkIsCovered ==
  ASSUME Exclusive
  PROVE  Spec => []WatermarkCovered
<1>1. FullInv => WatermarkCovered
  BY DEF FullInv, CoverInv
<1> QED
  BY <1>1, FullInit, FullStep, PTL DEF Spec

(* CoverInv, the reason why, is an invariant itself.                       *)
THEOREM CoverHolds ==
  ASSUME Exclusive
  PROVE  Spec => []CoverInv
<1>1. FullInv => CoverInv
  BY DEF FullInv
<1> QED
  BY <1>1, FullInit, FullStep, PTL DEF Spec

-----------------------------------------------------------------------------
(* A rewrite of a partition loses nothing, and the pipeline implements     *)
(* MinuteLake.  Beyond CoverInv this needs what the frame at hand has to   *)
(* do with the file it is going to replace.                                *)

Closed(frame) ==
  \A m \in Minutes : frame[m] # NoRow /\ frame[m].final => m < now

KeepInHand(p) ==
  LET file  == files[job[p].hour]
      frame == job[p].frame
  IN /\ pc[p] = "merge" =>
          /\ Closed(frame)
          /\ \A m \in Minutes :
               frame[m] # NoRow /\ file[m] # NoRow /\ file[m].final
                 => frame[m].final
     /\ pc[p] = "replace" => Closed(frame) /\ NoRowLost(file, frame)

(* The frame at hand and the files hold no final row of an open candle,    *)
(* and the frame is no worse than the file it replaces.                    *)
KeepInv ==
  /\ \A h \in Hours : Closed(files[h])
  /\ \A p \in Procs : KeepInHand(p)

AllInv == FullInv /\ KeepInv

(* At first there are no rows.                                             *)
LEMMA KeepInit == Init => KeepInv
  BY DEF Init, KeepInv, KeepInHand, Closed, NoFile, EmptyFrame

(* The frame a merge makes is no worse than the file, and has no final row *)
(* of an open candle.                                                      *)
LEMMA MergeKeeps ==
  ASSUME NEW old \in Frames, NEW new \in Frames, Closed(old), Closed(new),
         \A m \in Minutes :
           new[m] # NoRow /\ old[m] # NoRow /\ old[m].final => new[m].final
  PROVE  Closed(Merge(old, new)) /\ NoRowLost(old, Merge(old, new))
<1> DEFINE merged == Merge(old, new)
<1>1. /\ DOMAIN old = Minutes /\ DOMAIN merged = Minutes
      /\ \A m \in Minutes : /\ old[m] \in Row \union {NoRow}
                            /\ new[m] \in Row \union {NoRow}
  BY DEF Frames, FramesOver, Merge
<1>2. ASSUME NEW m \in Minutes
      PROVE  /\ merged[m] # NoRow /\ merged[m].final => m < now
             /\ old[m] # NoRow =>
                  /\ merged[m] # NoRow
                  /\ old[m].live => merged[m].live
                  /\ old[m].final => merged[m].final
  <2>1. CASE new[m] = NoRow
    BY <1>1, <2>1 DEF Merge, Closed
  <2>2. CASE new[m] # NoRow /\ old[m] = NoRow
    BY <1>1, <2>2 DEF Merge, Closed
  <2>3. CASE new[m] # NoRow /\ old[m] # NoRow
    <3> DEFINE row == [new[m] EXCEPT !.live = @ \/ old[m].live]
    <3>1. merged[m] = row
      BY <1>1, <2>3 DEF Merge
    <3>2. /\ row \in Row /\ row.final = new[m].final
          /\ old[m].live => row.live
      BY <1>1, <2>3 DEF Row
    <3>3. row # NoRow
      BY <3>2, NoRowAssumption
    <3> QED
      BY <1>1, <2>3, <3>1, <3>2, <3>3 DEF Closed
  <2> QED
    BY <2>1, <2>2, <2>3
<1> QED
  BY <1>1, <1>2 DEF NoRowLost, Stamps, Closed

(* Everybody but p is at rest, before and after a step of p.               *)
LEMMA KeepAlone ==
  ASSUME NEW p \in Procs, \A h \in Hours : Closed(files[h])',
         \A q \in Procs \ {p} : pc'[q] = "idle", KeepInHand(p)'
  PROVE  KeepInv'
<1>1. \A q \in Procs \ {p} : KeepInHand(q)'
  BY DEF KeepInHand
<1> QED
  BY <1>1 DEF KeepInv

(* What is closed stays closed.                                            *)
LEMMA ClosedKept ==
  ASSUME TypeInv, NEW frame, Closed(frame), now' \in {now, now + 1}
  PROVE  \A m \in Minutes : frame[m] # NoRow /\ frame[m].final => m < now'
<1>1. now \in Int /\ \A m \in Minutes : m \in Int
  BY MinutesAreNat DEF TypeInv, TypeOK
<1> QED
  BY <1>1 DEF Closed

(* Every step preserves it.                                                *)
LEMMA KeepStep ==
  ASSUME Exclusive
  PROVE  AllInv /\ [Next]_vars => AllInv'
<1> SUFFICES ASSUME AllInv, [Next]_vars PROVE KeepInv'
  BY FullStep DEF AllInv
<1> USE DEF AllInv, FullInv, CoverInv
<1>t. TypeInv /\ TypeInv' /\ TypeOK
  BY FullStep DEF TypeInv
<1>o. OneAtWork'
  BY FullStep
<1>1. CASE UNCHANGED <<files, pc, job>> /\ now' \in {now, now + 1}
  <2>1. \A h \in Hours : Closed(files[h])'
    BY <1>1, <1>t, ClosedKept DEF KeepInv, Closed
  <2>2. ASSUME NEW p \in Procs PROVE KeepInHand(p)'
    <3>1. Closed(job[p].frame) => Closed(job[p].frame)'
      BY <1>1, <1>t, ClosedKept DEF Closed
    <3> QED
      BY <1>1, <3>1 DEF KeepInv, KeepInHand
  <2> QED
    BY <2>1, <2>2 DEF KeepInv
<1>2. CASE UNCHANGED <<files, now>> /\ \A p \in Procs : pc'[p] \notin {"merge", "replace"}
  BY <1>2 DEF KeepInv, KeepInHand, Closed
<1>3. ASSUME NEW p \in Procs, pc[p] # "idle" \/ MayStart(p),
             UNCHANGED <<files, now>>,
             pc'[p] \notin {"merge", "replace"},
             \A q \in Procs \ {p} : pc'[q] = pc[q]
      PROVE  KeepInv'
  <2>1. \A q \in Procs \ {p} : pc[q] = "idle"
    BY <1>3 DEF MayStart, OneAtWork
  <2> QED
    BY <1>3, <2>1, <1>2
<1>4. ASSUME NEW p \in Procs, NEW rest, Continue(p, rest),
             pc[p] # "idle", UNCHANGED <<files, now>>
      PROVE  KeepInv'
  <2>1. /\ pc'[p] \in {"idle", "collect"}
        /\ \A q \in Procs \ {p} : pc'[q] = pc[q]
    BY <1>4 DEF Continue, Goto, TypeOK
  <2> QED
    BY <1>3, <1>4, <2>1
<1>5. ASSUME NEW p \in Procs, NEW h, Fail(p, h),
             pc[p] # "idle", UNCHANGED <<files, now>>
      PROVE  KeepInv'
  BY <1>4, <1>5 DEF Fail
<1>6. ASSUME NEW p \in Procs, NEW start, NEW cap, NEW hours,
             BeginLoop(p, start, cap, hours),
             pc[p] # "idle" \/ MayStart(p), UNCHANGED <<files, now>>
      PROVE  KeepInv'
  <2>1. /\ pc'[p] \in {"idle", "collect"}
        /\ \A q \in Procs \ {p} : pc'[q] = pc[q]
    BY <1>6 DEF BeginLoop, Goto, TypeOK
  <2> QED
    BY <1>3, <1>6, <2>1
<1>7. ASSUME NEW d \in Daemons, Poll(d) \/ Bootstrap(d) \/ Advance(d)
      PROVE  KeepInv'
  <2>1. d \in Procs
    BY DEF Procs
  <2>2. CASE PollEmpty(d)
    <3>1. pc'[d] = "bootstrap" /\ \A q \in Procs \ {d} : pc'[q] = pc[q]
      BY <2>1, <2>2 DEF PollEmpty, Goto, TypeOK
    <3> QED
      BY <1>3, <2>1, <2>2, <3>1 DEF PollEmpty, durable
  <2>3. CASE PollCaughtUp(d)
    BY <1>1, <2>3 DEF PollCaughtUp, vars
  <2>4. CASE PollBehind(d)
    BY <1>6, <2>1, <2>4 DEF PollBehind, durable
  <2>5. CASE Bootstrap(d)
    BY <1>6, <2>1, <2>5 DEF Bootstrap
  <2>6. CASE Advance(d)
    BY <1>4, <2>1, <2>6 DEF Advance
  <2> QED
    BY <1>7, <2>2, <2>3, <2>4, <2>5, <2>6 DEF Poll
<1>8. ASSUME NEW c \in Commands, StartBackfill(c) PROVE KeepInv'
  <2>1. c \in Procs
    BY DEF Procs
  <2> QED
    BY <1>6, <1>8, <2>1 DEF StartBackfill, durable
<1>9. ASSUME NEW p \in Procs, Collect(p) PROVE KeepInv'
  <2>1. /\ pc'[p] = "merge"
        /\ \A q \in Procs \ {p} : pc'[q] = "idle"
    BY <1>9, <1>o DEF Collect, Goto, TypeOK, OneAtWork
  <2>2. \A m \in Minutes : job'[p].frame[m] # NoRow =>
                              job'[p].frame[m].final = (m < now)
    <3>1. PICK h \in Hours, seen \in SUBSET Minutes :
            job' = [job EXCEPT ![p].hour = h,
                               ![p].frame =
                      [m \in Minutes |->
                         IF m \in Window(job[p].start, job[p].cap, h)
                         THEN CollectedRow(m, seen) ELSE NoRow]]
      BY <1>9, BoundsAssumption DEF Collect
    <3> QED
      BY <3>1 DEF TypeOK, Jobs, CollectedRow
  <2>3. files' = files /\ now' = now
    BY <1>9 DEF Collect, durable
  <2>4. job'[p].hour \in Hours
    BY <1>t DEF TypeInv, TypeOK, Jobs
  <2>5. KeepInHand(p)'
    BY <2>1, <2>2, <2>3, <2>4 DEF KeepInHand, KeepInv, Closed
  <2> QED
    BY <2>1, <2>3, <2>5, KeepAlone DEF KeepInv, Closed
<1>10. ASSUME NEW p \in Procs, MergeAndStage(p) PROVE KeepInv'
  <2> DEFINE old == files[job[p].hour]
             new == job[p].frame
  <2>1. pc[p] = "merge" /\ UNCHANGED <<files, now>>
    BY <1>10 DEF MergeAndStage, durable
  <2>2. CASE DQValid(Merge(old, new))
    <3>1. /\ pc'[p] = "replace"
          /\ job'[p].hour = job[p].hour /\ job'[p].frame = Merge(old, new)
          /\ \A q \in Procs \ {p} : pc'[q] = "idle"
      BY <1>10, <1>o, <2>2 DEF MergeAndStage, Goto, TypeOK, Jobs, OneAtWork
    <3>2. old \in Frames /\ new \in Frames /\ Closed(old) /\ Closed(new)
      BY <2>1 DEF TypeOK, Jobs, KeepInv, KeepInHand
    <3>3. Closed(Merge(old, new)) /\ NoRowLost(old, Merge(old, new))
      BY <2>1, <3>2, MergeKeeps DEF KeepInv, KeepInHand
    <3>4. KeepInHand(p)'
      BY <2>1, <3>1, <3>3 DEF KeepInHand, Closed
    <3> QED
      BY <2>1, <3>1, <3>4, KeepAlone DEF KeepInv, Closed
  <2>3. CASE ~ DQValid(Merge(old, new))
    BY <1>5, <1>10, <2>1, <2>3 DEF MergeAndStage
  <2> QED
    BY <2>2, <2>3
<1>11. ASSUME NEW p \in Procs, Replace(p) PROVE KeepInv'
  <2>1. /\ pc'[p] = "hash" /\ now' = now
        /\ \A q \in Procs \ {p} : pc'[q] = "idle"
    BY <1>11, <1>o DEF Replace, Goto, TypeOK, OneAtWork
  <2>2. \A h \in Hours : Closed(files[h])'
    BY <1>11, <2>1 DEF Replace, TypeOK, Jobs, KeepInv, KeepInHand, Closed
  <2> QED
    BY <2>1, <2>2, KeepAlone DEF KeepInHand
<1>12. ASSUME NEW p \in Procs, HashFile(p) PROVE KeepInv'
  <2>1. /\ pc[p] = "hash" /\ pc'[p] = "ledger" /\ UNCHANGED <<files, now>>
        /\ \A q \in Procs \ {p} : pc'[q] = pc[q]
    BY <1>12 DEF HashFile, Goto, TypeOK, durable
  <2> QED
    BY <1>3, <2>1
<1>13. ASSUME NEW p \in Procs, UpsertPartition(p) PROVE KeepInv'
  <2>1. pc[p] = "ledger" /\ UNCHANGED <<files, now>>
    BY <1>13 DEF UpsertPartition
  <2>2. CASE p \in Daemons
    <3>1. pc'[p] = "advance" /\ \A q \in Procs \ {p} : pc'[q] = pc[q]
      BY <1>13, <2>2 DEF UpsertPartition, Goto, TypeOK
    <3> QED
      BY <1>3, <2>1, <3>1
  <2>3. CASE p \notin Daemons
    BY <1>4, <1>13, <2>1, <2>3 DEF UpsertPartition
  <2> QED
    BY <2>2, <2>3
<1>14. ASSUME NEW p \in Procs, CollectFails(p) PROVE KeepInv'
  BY <1>5, <1>14 DEF CollectFails, durable
<1>15. ASSUME NEW p \in Procs, Crash(p) PROVE KeepInv'
  <2>1. pc'[p] = "idle" /\ \A q \in Procs \ {p} : pc'[q] = pc[q]
    BY <1>15 DEF Crash, Goto, TypeOK
  <2> QED
    BY <1>3, <1>15, <2>1 DEF Crash, durable
<1>16. CASE UNCHANGED vars
  BY <1>1, <1>16 DEF vars
<1>17. CASE Tick
  BY <1>1, <1>17 DEF Tick, durable
<1>18. ASSUME NEW m \in Minutes, Arrive(m) PROVE KeepInv'
  BY <1>1, <1>18 DEF Arrive, durable
<1> QED
  BY <1>7, <1>8, <1>9, <1>10, <1>11, <1>12, <1>13, <1>14, <1>15, <1>16, <1>17,
     <1>18 DEF Next, HourStep

(* Only the rename changes a file, only the first poll and the end of an   *)
(* hour change the watermark.                                              *)
LEMMA FilesChange ==
  ASSUME [Next]_vars, files' # files
  PROVE  \E p \in Procs : Replace(p) /\ UNCHANGED <<watermark, origin>>
  BY DEF Next, vars, durable, Tick, Arrive, Poll, PollEmpty, PollCaughtUp,
         PollBehind, Bootstrap, Advance, StartBackfill, HourStep, Collect,
         CollectFails, MergeAndStage, Replace, HashFile, UpsertPartition, Crash

(* With one process at a time, a rewrite of an hour partition loses no     *)
(* minute, drops no live data and turns no closed candle into an open one: *)
(* for any number of daemons, backfills, crashes and late candles.         *)
THEOREM RewritesLoseNothing ==
  ASSUME Exclusive
  PROVE  Spec => RowsSurvive
<1>1. AllInv /\ [Next]_vars => [\A h \in Hours : NoRowLost(files[h], files'[h])]_files
  <2> SUFFICES ASSUME AllInv, [Next]_vars, files' # files, NEW h \in Hours
               PROVE  NoRowLost(files[h], files'[h])
    OBVIOUS
  <2>1. PICK p \in Procs : Replace(p)
    BY FilesChange
  <2>2. CASE h = job[p].hour
    BY <2>1, <2>2 DEF Replace, AllInv, FullInv, TypeInv, TypeOK, KeepInv, KeepInHand
  <2>3. CASE h # job[p].hour
    <3>1. files'[h] = files[h]
      BY <2>1, <2>3 DEF Replace, AllInv, FullInv, TypeInv, TypeOK
    <3> QED
      BY <3>1 DEF NoRowLost
  <2> QED
    BY <2>2, <2>3
<1>2. Init => AllInv
  BY FullInit, KeepInit DEF AllInv
<1> QED
  BY <1>1, <1>2, KeepStep, PTL DEF Spec, RowsSurvive

(* At the end of an hour the watermark moves forward.                      *)
LEMMA WatermarkMoves ==
  ASSUME AllInv, NEW d \in Daemons, Advance(d)
  PROVE  /\ WindowEnd(job[d].cap, job[d].hour) \in Minutes
         /\ watermark < WindowEnd(job[d].cap, job[d].hour)
<1> USE DEF AllInv, FullInv, CoverInv
<1> DEFINE h == job[d].hour
           cap == job[d].cap
<1>1. d \in Procs /\ pc[d] = "advance"
  BY DEF Advance, Procs
<1>2. /\ watermark # None /\ watermark < cap
      /\ NextHour(h, IterHours(watermark + 1, cap))
  BY <1>1 DEF DaemonLoop, HourInHand, InHour, InLoop
<1>3. watermark \in Minutes /\ cap \in Minutes
  BY <1>1, <1>2 DEF TypeOK, Jobs
<1>4. watermark \in Int /\ cap \in Int
  BY <1>3, MinuteIsInt
<1>5. /\ WindowEnd(cap, h) \in Int
      /\ watermark < WindowEnd(cap, h) /\ WindowEnd(cap, h) <= cap
  <2> HIDE DEF h, cap
  <2> QED BY <1>2, <1>4, LoopStep
<1> QED
  BY <1>3, <1>5, ClockAssumption DEF Minutes

(* The lake starts empty.                                                  *)
LEMMA LakeStarts == Init => Lake!LakeInit
  BY HourOfMinute DEF Init, Lake!LakeInit, Grade, FileOf, NoFile, EmptyFrame

(* Every step of a process is a step of the lake or none.                  *)
LEMMA LakeStep ==
  ASSUME Exclusive, AllInv, [Next]_vars
  PROVE  [Lake!LakeNext]_Lake!lakeVars
<1> USE DEF AllInv, FullInv, CoverInv
<1>t. TypeOK /\ WatermarkCovered'
  BY FullStep DEF TypeInv
<1>1. CASE files' # files
  <2>1. PICK p \in Procs : Replace(p) /\ UNCHANGED <<watermark, origin>>
    BY <1>1, FilesChange
  <2>2. ASSUME NEW m \in Minutes PROVE Grade(m)' >= Grade(m)
    <3>1. CASE HourStart(m) = job[p].hour
      <4>1. files'[HourStart(m)] = job[p].frame
        BY <1>t, <2>1, <3>1, HourOfMinute DEF Replace, TypeOK
      <4>2. NoRowLost(files[HourStart(m)], job[p].frame)
        BY <2>1, <3>1 DEF Replace, KeepInv, KeepInHand
      <4>3. DOMAIN files[HourStart(m)] = Minutes /\ DOMAIN job[p].frame = Minutes
        BY <1>t, <2>1, HourOfMinute DEF TypeOK, Jobs, Frames, FramesOver
      <4> QED
        BY <4>1, <4>2, <4>3 DEF NoRowLost, Stamps, Grade, FileOf
    <3>2. CASE HourStart(m) # job[p].hour
      <4>1. files'[HourStart(m)] = files[HourStart(m)]
        BY <1>t, <2>1, <3>2, HourOfMinute DEF Replace, TypeOK
      <4> QED
        BY <4>1 DEF Grade, FileOf
    <3> QED
      BY <3>1, <3>2
  <2>3. \A m \in Minutes : Grade(m)' \in 0..2
    BY DEF Grade
  <2>4. Lake!Upsert
    BY <2>1, <2>2, <2>3 DEF Lake!Upsert, Lake!Grades
  <2> QED
    BY <2>4 DEF Lake!LakeNext
<1>2. CASE files' = files
  <2> DEFINE table == [m \in Minutes |-> Grade(m)]
  <2>1. table' = table
    BY <1>2 DEF Grade, FileOf
  <2>2. CASE UNCHANGED <<watermark, origin>>
    BY <2>1, <2>2 DEF Lake!lakeVars
  <2>3. ASSUME NEW d \in Daemons, Bootstrap(d)
        PROVE  Lake!Open
    <3>1. watermark = None
      BY <2>3 DEF Bootstrap, DaemonLoop
    <3>2. watermark' = origin' /\ watermark' = job[d].cap - (Lookback + 1)
      BY <2>3 DEF Bootstrap
    <3>3. /\ job[d].cap \in Minutes /\ Lookback + 1 <= job[d].cap
      BY <1>t, <2>3 DEF Bootstrap, DaemonLoop, TypeOK, Jobs, Procs
    <3>4. origin' \in Minutes
      BY <3>2, <3>3, ClockAssumption, LagAssumption DEF Minutes
    <3> QED
      BY <2>1, <3>1, <3>2, <3>4 DEF Lake!Open
  <2>4. ASSUME NEW d \in Daemons, Advance(d)
        PROVE  Lake!MoveMark
    <3> DEFINE e == WindowEnd(job[d].cap, job[d].hour)
    <3>1. /\ watermark # None /\ watermark' = e /\ origin' = origin
          /\ watermark \in Minutes /\ origin \in Minutes
          /\ origin <= watermark
      BY <1>t, <2>4 DEF Advance, DaemonLoop, InLoop, TypeOK, WatermarkLags
    <3>2. e \in Minutes /\ watermark < e
      BY <1>t, <2>4, WatermarkMoves
    <3>3. ASSUME NEW m \in Minutes, watermark < m, m <= e
          PROVE  Grade(m) = 2
      <4>1. origin < m
        BY <3>1, <3>3, MinuteIsInt
      <4>2. e # None
        BY <3>2, MinuteIsInt, NoneAssumption
      <4>3. Settled(m)'
        BY <1>t, <3>1, <3>3, <4>1, <4>2 DEF WatermarkCovered
      <4> QED
        BY <1>2, <4>3 DEF Settled, SettledRow, Grade, FileOf
    <3> HIDE DEF e
    <3> QED
      BY <2>1, <3>1, <3>2, <3>3 DEF Lake!MoveMark
  <2>5. \/ UNCHANGED <<watermark, origin>>
        \/ \E d \in Daemons : Bootstrap(d) \/ Advance(d)
    BY DEF Next, vars, durable, Tick, Arrive, Poll, PollEmpty, PollCaughtUp,
           PollBehind, StartBackfill, HourStep, Collect, CollectFails,
           MergeAndStage, Replace, HashFile, UpsertPartition, Crash
  <2> QED
    BY <2>2, <2>3, <2>4, <2>5 DEF Lake!LakeNext
<1> QED
  BY <1>1, <1>2

(* With one process at a time the pipeline implements MinuteLake: its      *)
(* table of minutes only gets better, and the watermark, though            *)
(* upsert_watermark would write anything, moves forward over settled       *)
(* minutes only.                                                           *)
THEOREM PipelineImplementsLake ==
  ASSUME Exclusive
  PROVE  Spec => ImplementsLake
<1>1. Init => AllInv
  BY FullInit, KeepInit DEF AllInv
<1>2. AllInv /\ [Next]_vars => [Lake!LakeNext]_Lake!lakeVars
  BY LakeStep
<1> QED
  BY <1>1, <1>2, KeepStep, LakeStarts, PTL DEF Spec, ImplementsLake, Lake!LakeSpec

-----------------------------------------------------------------------------
(* The ledger differs from the disk for the hour after the watermark and   *)
(* for hours a backfill has died in, and for no other.                     *)

OfHour(frame, h) == \A m \in Minutes : frame[m] # NoRow => HourStart(m) = h

Exact(h) == ledger[h] = LedgerEntry(files[h], files[h])

LedgerInHand(p) ==
  LET h == job[p].hour
  IN /\ pc[p] \in {"merge", "replace"} => OfHour(job[p].frame, h)
     /\ pc[p] \in {"hash", "ledger"} => files[h] = job[p].frame
     /\ pc[p] = "ledger" => job[p].hashed = files[h]
     /\ pc[p] = "advance" => Exact(h)

(* A file has minutes of its hour, and what a process has in hand is what  *)
(* it will enter in the ledger.                                            *)
LedgerInv ==
  /\ \A h \in Hours : OfHour(files[h], h)
  /\ OnlyOpenHourDiffers
  /\ \A p \in Procs : LedgerInHand(p)

LedgerAllInv == FullInv /\ LedgerInv

(* At first there is neither file nor entry.                               *)
LEMMA LedgerInit == Init => LedgerInv
<1> SUFFICES ASSUME Init PROVE LedgerInv
  OBVIOUS
<1>1. \A h \in Hours : Exact(h) /\ \A m \in Minutes : files[h][m] = NoRow
  BY DEF Init, Exact, NoEntry, NoFile, EmptyFrame
<1>2. OnlyOpenHourDiffers
  BY <1>1 DEF OnlyOpenHourDiffers, Exact, Stamps, Init, NoFile, EmptyFrame
<1>3. \A p \in Procs : LedgerInHand(p)
  BY DEF Init, LedgerInHand
<1> QED
  BY <1>1, <1>2, <1>3 DEF LedgerInv, OfHour

(* The hour a daemon is at is the one after its watermark.                 *)
LEMMA OpenHour ==
  ASSUME FullInv, NEW d \in Daemons, pc[d] \in InHour
  PROVE  /\ watermark # None /\ watermark \in Int
         /\ job[d].hour = HourStart(watermark + 1)
<1> USE DEF FullInv, CoverInv
<1> DEFINE cap == job[d].cap
           h == job[d].hour
<1>1. d \in Procs /\ pc[d] \in InLoop
  BY DEF Procs, InHour
<1>2. /\ watermark # None /\ watermark < cap
      /\ NextHour(h, IterHours(watermark + 1, cap))
  BY <1>1 DEF DaemonLoop, HourInHand
<1>3. watermark \in Int /\ cap \in Int
  BY <1>1, <1>2, MinuteIsInt DEF TypeOK, Jobs
<1> HIDE DEF cap, h
<1>4. h = HourStart(watermark + 1)
  BY <1>2, <1>3, LoopStep
<1> QED
  BY <1>2, <1>3, <1>4 DEF h

(* A merge of rows of the hour are rows of the hour.                       *)
LEMMA MergeOfHour ==
  ASSUME NEW h, NEW old \in Frames, NEW new \in Frames,
         OfHour(old, h), OfHour(new, h)
  PROVE  OfHour(Merge(old, new), h)
<1> SUFFICES ASSUME NEW m \in Minutes, Merge(old, new)[m] # NoRow
             PROVE  HourStart(m) = h
  BY DEF OfHour
<1>1. old[m] # NoRow \/ new[m] # NoRow
  BY DEF Merge, Frames, FramesOver
<1> QED
  BY <1>1 DEF OfHour

(* Every step preserves it.                                                *)
LEMMA LedgerStep ==
  ASSUME Exclusive
  PROVE  LedgerAllInv /\ [Next]_vars => LedgerAllInv'
<1> SUFFICES ASSUME LedgerAllInv, [Next]_vars PROVE LedgerInv'
  BY FullStep DEF LedgerAllInv
<1> USE DEF LedgerAllInv, FullInv, CoverInv
<1>t. TypeOK /\ TypeOK' /\ FullInv'
  BY FullStep DEF TypeInv
<1>o. OneAtWork /\ OneAtWork'
  BY <1>t
<1>d. Daemons \subseteq Procs /\ Commands \subseteq Procs
  BY DEF Procs
<1>1. CASE UNCHANGED <<files, ledger, watermark, backfilled, pc, job>>
  BY <1>1
  DEF LedgerInv, LedgerInHand, OnlyOpenHourDiffers, OfHour, Exact
<1>2. ASSUME NEW p \in Procs,
             UNCHANGED <<files, ledger, watermark, backfilled>>,
             \A q \in Procs \ {p} : pc'[q] = "idle", LedgerInHand(p)'
      PROVE  LedgerInv'
  <2>1. \A q \in Procs : LedgerInHand(q)'
    BY <1>2 DEF LedgerInHand
  <2> QED
    BY <1>2, <2>1 DEF LedgerInv, OnlyOpenHourDiffers, OfHour
<1>3. ASSUME NEW p \in Procs, pc[p] # "idle" \/ MayStart(p),
             UNCHANGED <<files, ledger, watermark, backfilled>>,
             pc'[p] \notin InHour,
             \A q \in Procs \ {p} : pc'[q] = pc[q]
      PROVE  LedgerInv'
  <2>1. \A q \in Procs \ {p} : pc'[q] = "idle"
    BY <1>3, <1>t, <1>o DEF MayStart, OneAtWork
  <2>2. LedgerInHand(p)'
    BY <1>3 DEF LedgerInHand, InHour, InLoop
  <2> QED
    BY <1>2, <1>3, <2>1, <2>2
<1>4. ASSUME NEW p \in Procs, NEW h, Fail(p, h), pc[p] # "idle",
             UNCHANGED <<files, ledger, watermark, backfilled>>
      PROVE  LedgerInv'
  <2>1. /\ pc'[p] \in {"idle", "collect"}
        /\ \A q \in Procs \ {p} : pc'[q] = pc[q]
    BY <1>4, <1>t DEF Fail, Continue, Goto, TypeOK
  <2> QED
    BY <1>3, <1>4, <2>1 DEF InHour, InLoop
<1>5. ASSUME NEW p \in Daemons, PollEmpty(p) PROVE LedgerInv'
  <2>1. pc'[p] = "bootstrap" /\ \A q \in Procs \ {p} : pc'[q] = pc[q]
    BY <1>5, <1>t, <1>d DEF PollEmpty, Goto, TypeOK
  <2> QED
    BY <1>3, <1>5, <1>d, <2>1 DEF PollEmpty, durable, InHour, InLoop
<1>6. ASSUME NEW p \in Daemons, PollBehind(p) PROVE LedgerInv'
  <2>1. /\ pc'[p] \in {"idle", "collect"}
        /\ \A q \in Procs \ {p} : pc'[q] = pc[q]
    BY <1>6, <1>t, <1>d DEF PollBehind, BeginLoop, Goto, TypeOK
  <2> QED
    BY <1>3, <1>6, <1>d, <2>1 DEF PollBehind, durable, InHour, InLoop
<1>7. ASSUME NEW p \in Daemons, Bootstrap(p) PROVE LedgerInv'
  <2>1. /\ pc[p] = "bootstrap" /\ pc'[p] \in {"idle", "collect"}
        /\ UNCHANGED <<files, ledger, backfilled>>
        /\ \A q \in Procs \ {p} : pc'[q] = pc[q]
    BY <1>7, <1>t, <1>d DEF Bootstrap, BeginLoop, Goto, TypeOK
  <2>2. watermark = None
    BY <1>7, <2>1 DEF DaemonLoop
  <2>3. OnlyOpenHourDiffers'
    BY <2>1, <2>2 DEF LedgerInv, OnlyOpenHourDiffers
  <2>4. \A q \in Procs : pc'[q] \in {"idle", "collect"}
    BY <1>t, <1>o, <1>d, <2>1 DEF OneAtWork
  <2> QED
    BY <2>1, <2>3, <2>4 DEF LedgerInv, LedgerInHand, OfHour
<1>8. ASSUME NEW p \in Procs, Collect(p) PROVE LedgerInv'
  <2>1. /\ pc'[p] = "merge"
        /\ UNCHANGED <<files, ledger, watermark, backfilled>>
        /\ \A q \in Procs \ {p} : pc'[q] = "idle"
    BY <1>8, <1>t, <1>o DEF Collect, Goto, TypeOK, OneAtWork, durable
  <2>2. PICK h \in Hours, seen \in SUBSET Minutes :
          job' = [job EXCEPT ![p].hour = h,
                             ![p].frame =
                    [m \in Minutes |->
                       IF m \in Window(job[p].start, job[p].cap, h)
                       THEN CollectedRow(m, seen) ELSE NoRow]]
    BY <1>8, BoundsAssumption DEF Collect
  <2>3. OfHour(job'[p].frame, job'[p].hour)
    BY <1>t, <2>2 DEF OfHour, TypeOK, Jobs, Window
  <2> QED
    BY <1>2, <2>1, <2>3 DEF LedgerInHand, OfHour
<1>9. ASSUME NEW p \in Procs, MergeAndStage(p) PROVE LedgerInv'
  <2> DEFINE h == job[p].hour
             merged == Merge(files[h], job[p].frame)
  <2>1. pc[p] = "merge" /\ UNCHANGED <<files, ledger, watermark, backfilled>>
    BY <1>9 DEF MergeAndStage, durable
  <2>2. CASE DQValid(merged)
    <3>1. /\ pc'[p] = "replace" /\ job'[p].hour = h /\ job'[p].frame = merged
          /\ \A q \in Procs \ {p} : pc'[q] = "idle"
      BY <1>9, <1>t, <1>o, <2>2
      DEF MergeAndStage, Goto, TypeOK, Jobs, OneAtWork
    <3>2. /\ h \in Hours /\ files[h] \in Frames /\ job[p].frame \in Frames
      BY <1>t DEF TypeOK, Jobs
    <3>3. OfHour(merged, h)
      BY <2>1, <3>2, MergeOfHour DEF LedgerInv, LedgerInHand
    <3> QED
      BY <1>2, <2>1, <3>1, <3>3 DEF LedgerInHand, OfHour
  <2>3. CASE ~ DQValid(merged)
    BY <1>4, <1>9, <2>1, <2>3 DEF MergeAndStage
  <2> QED
    BY <2>2, <2>3
<1>10. ASSUME NEW p \in Procs, Replace(p) PROVE LedgerInv'
  <2> DEFINE h == job[p].hour
  <2>1. /\ pc[p] = "replace" /\ pc'[p] = "hash"
        /\ files' = [files EXCEPT ![h] = job[p].frame]
        /\ UNCHANGED <<ledger, watermark, job>>
        /\ \A q \in Procs \ {p} : pc'[q] = "idle"
    BY <1>10, <1>t, <1>o DEF Replace, Goto, TypeOK, OneAtWork
  <2>2. h \in Hours
    BY <1>t DEF TypeOK, Jobs
  <2>3. files'[h] = job[p].frame /\ \A g \in Hours \ {h} : files'[g] = files[g]
    BY <1>t, <2>1, <2>2 DEF TypeOK
  <2>4. OfHour(job[p].frame, h)
    BY <2>1 DEF LedgerInv, LedgerInHand
  <2>5. \A g \in Hours : OfHour(files[g], g)'
    BY <2>3, <2>4 DEF LedgerInv, OfHour
  <2>6. /\ p \in Daemons => watermark # None /\ h = HourStart(watermark + 1)
        /\ p \notin Daemons => backfilled'[h] = "replaced"
        /\ \A g \in Hours \ {h} : backfilled'[g] = backfilled[g]
        /\ p \in Daemons => backfilled' = backfilled
    <3>1. p \in Daemons => watermark # None /\ h = HourStart(watermark + 1)
      BY <2>1, OpenHour DEF InHour, InLoop
    <3>2. p \in Daemons => p \notin Commands
      BY ProcsAssumption
    <3>3. p \notin Daemons => p \in Commands
      BY DEF Procs
    <3> QED
      BY <1>10, <1>t, <2>2, <3>1, <3>2, <3>3 DEF Replace, TypeOK
  <2>7. OnlyOpenHourDiffers'
    BY <2>1, <2>2, <2>3, <2>6 DEF OnlyOpenHourDiffers, LedgerInv
  <2>8. \A q \in Procs : LedgerInHand(q)'
    BY <2>1, <2>3 DEF LedgerInHand
  <2> QED
    BY <2>5, <2>7, <2>8 DEF LedgerInv
<1>11. ASSUME NEW p \in Procs, HashFile(p) PROVE LedgerInv'
  <2>1. /\ pc[p] = "hash" /\ pc'[p] = "ledger"
        /\ UNCHANGED <<files, ledger, watermark, backfilled>>
        /\ job'[p].hour = job[p].hour /\ job'[p].frame = job[p].frame
        /\ job'[p].hashed = files[job[p].hour]
        /\ \A q \in Procs \ {p} : pc'[q] = "idle"
    BY <1>11, <1>t, <1>o
    DEF HashFile, Goto, TypeOK, Jobs, OneAtWork, durable
  <2>2. LedgerInHand(p)'
    BY <2>1 DEF LedgerInHand, LedgerInv
  <2> QED
    BY <1>2, <2>1, <2>2
<1>12. ASSUME NEW p \in Procs, UpsertPartition(p) PROVE LedgerInv'
  <2> DEFINE h == job[p].hour
  <2>1. /\ pc[p] = "ledger" /\ pc'[p] \in {"advance", "idle", "collect"}
        /\ pc'[p] = "advance" => job' = job
        /\ ledger' = [ledger EXCEPT ![h] =
                        LedgerEntry(job[p].frame, job[p].hashed)]
        /\ UNCHANGED <<files, watermark>>
        /\ \A q \in Procs \ {p} : pc'[q] = "idle"
    BY <1>12, <1>t, <1>o
    DEF UpsertPartition, Continue, Goto, TypeOK, OneAtWork
  <2>2. h \in Hours /\ job[p].frame = files[h] /\ job[p].hashed = files[h]
    BY <1>t, <2>1 DEF TypeOK, Jobs, LedgerInv, LedgerInHand
  <2>3. /\ ledger'[h] = LedgerEntry(files[h], files[h])
        /\ \A g \in Hours \ {h} : ledger'[g] = ledger[g]
    BY <1>t, <2>1, <2>2 DEF TypeOK
  <2>4. /\ \A g \in Hours \ {h} : backfilled'[g] = backfilled[g]
        /\ backfilled[h] # "untouched" => backfilled'[h] # "untouched"
    BY <1>12, <1>t, <2>2 DEF UpsertPartition, TypeOK
  <2>5. OnlyOpenHourDiffers'
    BY <2>1, <2>2, <2>3, <2>4 DEF OnlyOpenHourDiffers, LedgerInv
  <2>6. \A q \in Procs : LedgerInHand(q)'
    BY <2>1, <2>3 DEF LedgerInHand, Exact
  <2> QED
    BY <2>1, <2>5, <2>6 DEF LedgerInv, OfHour
<1>13. ASSUME NEW d \in Daemons, Advance(d) PROVE LedgerInv'
  <2> DEFINE h == job[d].hour
             e == WindowEnd(job[d].cap, h)
  <2>1. /\ pc[d] = "advance" /\ pc'[d] \in {"idle", "collect"}
        /\ watermark' = e /\ UNCHANGED <<files, ledger, backfilled>>
        /\ \A q \in Procs \ {d} : pc'[q] = "idle"
    BY <1>13, <1>t, <1>o, <1>d
    DEF Advance, Continue, Goto, TypeOK, OneAtWork
  <2>2. /\ watermark # None /\ watermark \in Int
        /\ h = HourStart(watermark + 1) /\ h \in Hours
    BY <1>t, <1>d, <2>1, OpenHour DEF InHour, InLoop, TypeOK, Jobs
  <2>3. /\ e \in Int /\ watermark < e /\ e # None
        /\ \A m \in Minutes : HourStart(m) = h /\ e < m => HourStart(e + 1) = h
    <3> DEFINE cap == job[d].cap
    <3>1. /\ watermark < cap /\ cap \in Minutes
          /\ NextHour(h, IterHours(watermark + 1, cap))
      BY <1>t, <1>d, <2>1
      DEF DaemonLoop, HourInHand, InHour, InLoop, TypeOK, Jobs
    <3>2. cap \in Int
      BY <3>1, MinuteIsInt
    <3>3. /\ e \in Int /\ watermark < e
          /\ \A m \in Int : watermark < m /\ m <= e => HourStart(m) = h
      <4> HIDE DEF h, cap
      <4> QED BY <2>2, <3>1, <3>2, LoopStep DEF cap
    <3>4. ASSUME NEW m \in Minutes, HourStart(m) = h, e < m
          PROVE  HourStart(e + 1) = h
      <4> HIDE DEF e, h
      <4>1. m \in Int /\ HourStart(e) = h
        BY <3>3, MinuteIsInt
      <4>2. h \in Int /\ h <= e + 1 /\ e + 1 < h + HourLen
        BY <3>3, <3>4, <4>1, HourStartBounds, HourLenAssumption
      <4> QED
        BY <3>3, <4>1, <4>2, HourIsBlock
    <3> QED
      BY <3>3, <3>4, NoneAssumption
  <2> HIDE DEF e
  <2>4. \A g \in Hours : Exact(g) \/ backfilled[g] = "replaced"
    BY <1>d, <2>1, <2>2
    DEF LedgerInv, LedgerInHand, OnlyOpenHourDiffers, Exact
  <2>5. ASSUME NEW g \in Hours, NEW m \in Stamps(files[g]), m > e,
               backfilled[g] = "untouched"
        PROVE  g = HourStart(e + 1)
    <3>1. m \in Minutes /\ files[g][m] # NoRow /\ m \in Int
      BY <1>t, MinuteIsInt DEF Stamps, TypeOK, Frames, FramesOver
    <3>2. m > watermark
      BY <2>2, <2>3, <2>5, <3>1
    <3>3. g = h
      BY <2>2, <2>5, <3>2 DEF LedgerInv, OnlyOpenHourDiffers
    <3>4. HourStart(m) = h
      BY <3>1, <3>3 DEF LedgerInv, OfHour
    <3> QED
      BY <2>3, <2>5, <3>1, <3>3, <3>4
  <2>6. OnlyOpenHourDiffers'
    BY <2>1, <2>3, <2>4, <2>5 DEF OnlyOpenHourDiffers, Exact
  <2>7. \A q \in Procs : LedgerInHand(q)'
    BY <1>d, <2>1 DEF LedgerInHand
  <2> QED
    BY <2>1, <2>3, <2>6, <2>7 DEF LedgerInv, OfHour
<1>14. ASSUME NEW p \in Procs, CollectFails(p) PROVE LedgerInv'
  BY <1>4, <1>14 DEF CollectFails, durable
<1>15. ASSUME NEW p \in Procs, Crash(p) PROVE LedgerInv'
  <2>1. pc'[p] = "idle" /\ \A q \in Procs \ {p} : pc'[q] = pc[q]
    BY <1>15, <1>t DEF Crash, Goto, TypeOK
  <2> QED
    BY <1>3, <1>15, <2>1 DEF Crash, durable, InHour, InLoop
<1>16. CASE Tick \/ (\E m \in Minutes : Arrive(m)) \/ UNCHANGED vars
            \/ (\E d \in Daemons : PollCaughtUp(d))
  BY <1>1, <1>16 DEF Tick, Arrive, PollCaughtUp, vars, durable
<1>17. ASSUME NEW p \in Commands, StartBackfill(p) PROVE LedgerInv'
  <2>1. /\ pc'[p] \in {"idle", "collect"}
        /\ \A q \in Procs \ {p} : pc'[q] = pc[q]
    BY <1>17, <1>t, <1>d DEF StartBackfill, BeginLoop, Goto, TypeOK
  <2> QED
    BY <1>3, <1>17, <1>d, <2>1 DEF StartBackfill, durable, InHour, InLoop
<1> QED
  BY <1>t, <1>5, <1>6, <1>7, <1>8, <1>9, <1>10, <1>11, <1>12, <1>13, <1>14,
     <1>15, <1>16, <1>17 DEF Next, Poll, HourStep

(* As long as one process runs at a time, whatever number of crashes comes *)
(* between rename, ledger and watermark, the ledger is exact for every     *)
(* hour but the one after the watermark, which the next poll redoes, and   *)
(* the hours a backfill has died in after its rename, which nobody does;   *)
(* and only those and the hours of completed backfills are ahead of it.    *)
THEOREM LedgerIsExact ==
  ASSUME Exclusive
  PROVE  Spec => []OnlyOpenHourDiffers
<1>1. LedgerAllInv => OnlyOpenHourDiffers
  BY DEF LedgerAllInv, LedgerInv
<1>2. Init => LedgerAllInv
  BY FullInit, LedgerInit DEF LedgerAllInv
<1> QED
  BY <1>1, <1>2, LedgerStep, PTL DEF Spec
=============================================================================
