# Verification of Crypto-Data-Scheduler

TLA+ specifications of the Binance minute lake, the TLC runs that check them and
the proofs of what matters most. Paths below are relative to
`src/binance_minute_lake/`; `docs/` and `REQUIREMENTS_ADDENDUM.md` are those of the
repository.

## 1. Inventory

| Part | State it keeps | Operations | Talks to |
| --- | --- | --- | --- |
| State store (`state/store.py`) | SQLite: one watermark row per symbol, one ledger row per hour | `get_watermark`, `upsert_watermark`, `upsert_partition` | called by orchestrator and writer |
| Atomic writer (`writer/atomic.py`) | `part.parquet` of every hour; `.tmp/<uuid>.parquet` | `write_hour_partition`: read, merge, validate, stage, rename, hash, ledger | DQ gate, state store |
| DQ gate, audit (`validation/`) | none | `validate`; `audit_hour_partition_file` | writer; backfill scan |
| Orchestrator (`pipeline/orchestrator.py`) | locals only | `run_once` / `run_until_target`, `run_consistency_backfill`, collection of a window | sources, transform, writer, store |
| Transform (`transforms/minute_builder.py`) | none | `build_canonical_frame` | called by collection |
| REST and Vision clients (`sources/rest.py`, `vision*.py`) | HTTP client; day cache on disk | requests with retries; download, load | exchange |
| Depth book (`sources/websocket.py`) | book, `_last_update_id`, `_buffer`, `_synchronized`, `_degraded` | `apply_event`, `sync_from_snapshot` | collector |
| Live collector | minute buckets, books, heartbeats; one lock | ingestion of depth, liquidation, trade and funding events; `snapshot_for_minute` | event store, orchestrator |
| Live event store | SQLite: depth, latency, liquidation and trade events, heartbeats | appends (a transaction each), retention, snapshot of a minute | collector, `cleanup-live-state` |
| Stream workers, supervisor | threads, connection state | connect, receive, reconnect; snapshot at start and on a break; heartbeats | exchange, collector |
| CLI (`cli/app.py`) | none | `run-once`, `run-daemon`, `run-forever`, `run-live-forever`, `backfill-*`, `cleanup-live-state`, inspection | everything |

A poll daemon reads the watermark, takes the hours up to `now - safety lag` in order,
collects a frame for each, hands it to the writer and then moves the watermark. A
backfill scans the partitions of a range and rewrites the hours the audit refuses; it
never touches the watermark. Both end in the same writer, on the same files and the
same SQLite database. In `run-live-forever` four websocket threads feed the live
collector, which feeds its SQLite store; the pipeline thread asks the collector for each
minute it commits.

What is hard here:

* **Crashes.** Rename, ledger upsert and watermark upsert are three durable steps.
* **Several processes.** Nothing but the operator keeps a daemon and a backfill apart;
  read, merge and rename are not atomic together.
* **Time.** The exchange also returns the candle that is still open, late candles come
  after their minute, live events after their minute's end.
* **Failure of one of several.** A failed hour ends a poll but not a backfill.
* **The diff stream.** Lost events, snapshots older or newer than the stream, a snapshot
  request that fails in a handler, minutes that end during a resync.
* **Two stores of the same event.** Memory is lost in a restart, SQLite rows to retention
  and to failed transactions; what is reported is picked from the two per family.

Correctness of the parts:

* store, writer, orchestrator: what the watermark covers is on disk and final; a rewrite
  loses nothing; the ledger describes the files; the daemon catches up;
* depth book and worker: a synchronised book has no gap, and the market's levels as far as it
  was told of them; a broken one gets resynced; the minutes reported as degraded are those a
  break has hurt;
* live collector and event store: a committed minute has all events of it that reached
  the program; a minute recovered after a restart has the values memory would have given;
* REST client: a call makes a bounded number of requests, waits as long as it was told
  to, and keeps the client's pace over retries and calls;
* aggregate trades: no trade counts twice, a page boundary loses as little as it can;
* consistency backfill, Vision cache: what is reported covers what is left, a repair
  takes nothing, and what cannot be repaired can be told apart;
* transform and merge of the enriched columns: a value does not depend on how an hour
  was cut into windows, and a rewrite nulls no value for which its source answered.

## 2. Modules

| Module | Models | Kind |
| --- | --- | --- |
| `TimeGrid` | `core/time_utils.py`, the window arithmetic of `run_until_target` | operators |
| `HourPartition` | rows, the merge, DQ gate, audit and ledger entry of `writer/` and `validation/` | operators |
| `MinuteLake` | what ingestion promises: rows only get better, the mark moves forward over settled minutes | abstract spec |
| `Ingestion` | daemons, backfills, writer, store; extends `TimeGrid`, `HourPartition` | state machine, refines `MinuteLake` |
| `MCIngestion` | the ranges a backfill may be given in the runs | instance |
| `DepthBook` | `DepthOrderBook` against exchange and connection; any caller | state machine |
| `DepthLevels` | the levels of `DepthOrderBook`, its spread check, price impact and health metrics; extends `DepthBook` and refines its specification | state machine |
| `MCDepthLevels` | the market the run begins with | instance |
| `DepthSync` | depth worker, resync and minute buckets; extends `DepthBook` and refines its specification | state machine |
| `LiveMinutes` | event, bucket, SQLite tables, snapshot, partition row | state machine |
| `MinuteFeatures` | latency, update-id and liquidation columns of a minute: as counted in memory, and as recovered from SQLite | state machine |
| `MCMinuteFeatures` | the payloads of its runs | instance |
| `RestCall` | what a caller of the REST client may count on | abstract spec |
| `RestClient` | `_get`: rate limiter, retries, Retry-After, backoff | state machine, refines `RestCall` |
| `TradeFetch` | the aggregate trades of a window: choice of the source, pagination; extends `RestClient`, whose calls are its requests | state machine |
| `VisionCache` | the daily files of Vision and the cache of them; extends `TimeGrid` | actions |
| `Repair` | `run_consistency_backfill` over damaged partitions, fed by Vision and REST; extends `VisionCache` | state machine |
| `MCRepair` | holes and ranges of the run | instance |
| `Columns` | ratio, funding and predicted funding of an hour: request, transform, merge | state machine |
| `TimeGrid_proofs`, `Ingestion_proofs`, `DepthSync_proofs` (with `DepthLevels`), `LiveMinutes_proofs` (with `MinuteFeatures`), `TradeFetch_proofs`, `Columns_proofs`, `Repair_proofs` | theorems about the module, and the lemmas they rest on | proofs |
| `Induction` | induction over naturals and finite subsets, extremes, and sums by fold, for the proofs above | proofs |

Definitions introduced by a comment that begins with "Mutant" are not part of a
specification: each is a plausible bug of the definition it stands next to, and
`PROJECT.json` names the property that finds it.

### Ingestion

`files`, `ledger` and `watermark` are the partitions on disk and the two SQLite tables;
`now` and `missing` are the clock and the exchange. `pc[p]` says where process `p` is and
`job[p]` holds its locals. The steps of an hour are `Collect` (or `CollectFails`),
`MergeAndStage` (`final_path.exists()` to `write_parquet(tmp_path)`), `Replace`
(`tmp_path.replace`), `HashFile`, `UpsertPartition` and, for a daemon, `Advance`. `Crash`
may come anywhere and leaves durable state alone. `PollEmpty` and `Bootstrap` are two
actions because the code reads and writes the watermark in two transactions.

A row keeps three bits: its HARD_REQUIRED columns are non-null, its candle was closed
when it was fetched, it carries LIVE_ONLY data. Reading the old file and merging are one
step: the file is only ever replaced whole, so nothing can come between them that does
not also show before or after. Left out: orphans in `.tmp`, which nobody reads; the
`--at` and `--max-hours` options; `rewind_watermark`, which has no caller. One
assumption about a library: the merge concatenates old and new rows, sorts by timestamp
and keeps the last of each; the model takes the new row, which needs `polars` to keep
the order of equal keys (as `tests/test_atomic_writer.py` relies on).

`OnlyOpenHourDiffers` says that the pipeline redoes what it crashed in, the ledger row
included, for the daemon's open hour. A backfill that dies between rename and ledger upsert
is not redone: the audit looks at the file, finds it valid, and the ledger row stays as it
was. The history `backfilled` tells such an hour (`replaced`) from one whose backfill was
also recorded (`recorded`), so that the property excepts the first and nothing else.

`Exclusive = TRUE` is a deployment assumption (one process at a time), not something
the code enforces; `ingestion_concurrent` shows what happens without it to a
partition. That a second daemon would also move the watermark back (`store.py:87` takes any
value) is not exercised by a run.

### DepthBook and DepthSync

The engine's updates are numbered, an event carries the updates since the event before,
and the book is the set of updates it has taken in: prices do not matter for being
right, only gaps do. `DepthBook` lets any caller hand over the stream in order and any
snapshot at any time; it is checked with its levels (run `depth_levels`) and in the hands of the
worker (run `depth_sync`). `DepthSync` is the real caller: `FetchOk`/`FetchFails` and
`SetSnapshot` are `_resync_depth_book`, before the stream opens and inside the handler
(`pc`), and `HandleEvent` is `_on_depth_message` with `ingest_depth_diff`. The bucket of
a minute keeps what decides about `depth_degraded`; the spread, quantity and fillability
thresholds are left out. `sync_from_snapshot` can replay buffered events one by one
(`ReplayEvent`); the worker never gets there, as it asks for its first snapshot before the
stream is opened and for a later one in the handler of the event that broke the book, when
the buffer is empty (`WorkerInv` in `DepthSync_proofs`). That is not the procedure the docs
lay down (section 3). `BlindOnlyByFailure` says that it does no harm by itself: while the
stream is read the book is synchronised unless a request has failed.

### DepthLevels

The market is what the engine's updates (`log`) leave of each level. A diff event carries the
last quantity of every level its updates change, zero for a level that is gone, and replaces
what the book has (`ApplyDeltas`); a snapshot lists the best levels only (`Listed`,
`depth_snapshot_limit`) and replaces the book (`SnapshotLevels`). `TakeLevels` and `Sync` are
`ExtendBook` and `SyncFromSnapshot` of `DepthBook` with the levels; the check of the spread that
follows an event is in `TakeLevels`, that the one after a snapshot never raises is `SpreadHolds`.
The engine itself never leaves a bid at or above an ask.

A book fed by cut snapshots has holes: levels below the last one listed, until an event changes
them. `known` is a history of the levels it was told of. `LevelsTrue` says that it is right there
and empty elsewhere, whatever overlaps or is replayed; `ImpactTrue` and `HealthTrue` say that
price impact and health metrics are the market's when the order, or the average, ends within
what is known (`InSight`, `TopKnown`). Beyond it they need not be: an order that walks past a
hole is priced too high, which is the limit of 1000 levels and not an error of the walk. An
average is modelled by its sum and count, the average price by the amounts taken at each price;
the `1e-9` of the float comparison is left out.

### LiveMinutes

An event is counted in memory and written in one transaction per table (`todo` is what
its handler has left to do); `WriteMinute` is the pipeline's `snapshot_for_minute`, the
merge into the partition and, unless it crashes first, the watermark. The collector's
lock is held for a whole event and a whole snapshot, hence `cur = None` in
`WriteMinute`; retention takes no such lock. The numbers of a minute are represented by
the set of events they are computed from.

### MinuteFeatures

What those numbers are: `CountDepth` and `CountLiq` are the running totals of
`ingest_depth_diff` and `ingest_liquidation_event`, `Counted` what `snapshot_for_minute` of the
collector makes of them, `Recovered` what the method of the same name of the event store computes
from its rows. `TakesDepth` and `TakesLiq` are the payloads the processor does not drop. Rows are
kept as bags, for the order of events in a minute makes no difference to either side; averages
and ratios are pairs, so that the rounding of float sums is left out. Prices, impact and
`depth_degraded` are `DepthLevels`' and `DepthSync`'s.

### RestClient and TradeFetch

Time is kept as distances: `nap` is what is left of the client's sleep, `gap` how long ago
`_last_request_monotonic` was set, `ask` and `since` are histories of what the exchange
asked for and of the last request. `Send` is the rate limiter and the request, `Lost`,
`Busy`, `Refused` and `Answered` are the four ways it comes back, `SleepAndRepeat` the
delay and the next turn of the loop. `Call` begins any of the `fetch_...` methods.
Two things the model shows and the properties say: what the exchange asked of a call that
gave up is forgotten by the next call (`RetryAfterHonoured` speaks of one call), and a
request that is lost is not noted by the rate limiter (`rest.py:50-54`), so that a call
which ends in a lost request may be followed by the next one at once (`RequestsSpaced`).

In `TradeFetch` a trade is its place on the tape of the exchange and what matters of it is
its millisecond; every tape is tried. `ChooseSource` is the choice by band, Vision file and
live trades; `AskPage`, `PageArrives` and `PageFails` are the loop of
`_fetch_agg_trades_paginated`. `End` is `window_end_inclusive`, the first millisecond after
the window, which the request includes.

### VisionCache and Repair

A Vision object is a stream and a day. `cache[f]` says what lies under its name: nothing,
a part (the download was begun, `BeginDownload`, and perhaps died there) or all of it
(`CompleteDownload`). The loader goes through the streams in order and for each through the
days of the window; it takes any answer to HEAD that is not a success for a missing file.

A partition is its shape and its rows: it can be unreadable, lack a required or another
column, have rows twice, or be sound. `Start` is the scan or `force_repair`, cut by
`--max-missing-hours`; then hour after hour comes `NextIssue` with its band, `Probe`
(`_log_vision_availability`, whose HEAD nothing protects), the loading of the Vision files,
`Fetch` (REST, per stream, where Vision had no row and the options allow it), `Write` and
`Record`. `RequestFails` may hit every request, `LoadPart` is a zip that cannot be opened:
both leave the hour as failed. The aggregate trades of a cold window, which come from REST
when neither Vision nor the live trades have any, are among those requests. `Report` computes `issues_remaining` as the code does.
`Damage` happens while no backfill runs. `vision_only` here covers `--vision-only`; that the
loader then also cuts the range to completed days is left out, so the model allows more.

What a backfill can never repair is spelt out by `Blocked`: a partition the writer cannot
read or merge with, although the audit lists it (`README.md:72` of the repository: the
backfill "validates each hour folder/file and repairs missing/invalid hours only"); a cached
zip whose download did not end; a minute a published file has no row of; and, in the last
hour of a day Vision lacks, the first candle of the next day's file, which is within the
inclusive range the loader is given and so hides that there is none for the hour itself.

### Columns

A value is the minute it was observed for. `Write` collects a window `from..to` of the hour,
builds its rows and merges them; `off` are the enrichment requests that failed (or were not
made), `late` and `keepSeed` are the two things the code leaves to chance about a funding in
the last minute of a window. `Tick` and `Restart` are the collector's memory of the premium
stream. Two writes show every rewrite: what a merge sees of the past is one old row. `Points`
are the ratio points the exchange retains (30 days); that one leaves them between two writes is
not modelled.

Two properties have exceptions that are costs of the code, not of the model. When the funding
history fails, an old window gets today's premium rate (`minute_builder.py:502`), which
`FundingInForce` excepts; when an optional request fails in a rewrite, the value an earlier
write had from it becomes null (`orchestrator.py:458` and its like), which `NullsExplained`
excepts. Section 3 lists both among the divergences.

## 3. Runs

| Run | Checks | Bounds |
| --- | --- | --- |
| `ingestion_backfill` | `TypeOK`, `WatermarkCovered`, `CoverInv`, `OnlyOpenHourDiffers`, `RowsSurvive`, `ImplementsLake`, `CatchesUp` | 1 daemon, 1 backfill taking turns; hours of 2 minutes, clock 3..5, one late candle, one recorded minute, ranges that cut hours at both ends and reach into the open minute, slices of none and 1 hour, 2 crashes; fairness of section 4 |
| `ingestion_concurrent` | `RowsSurvive` fails | the same two processes without exclusion |
| `depth_sync` | `SyncTypeOK`, `BlindOnlyByFailure`, `DegradedWhereHurt`, `HandlesBookWell` | 5 updates, with and without `pu`, 2 lost connections, 1 failed request, 3 minutes |
| `depth_resync` | `BrokenBookIsResynced` fails | 1 failed request |
| `depth_levels` | `LevelsTypeOK`, `BookFaithful`, `BufferOnlyWhenLost`, `SpreadHolds`, `LevelsTrue`, `ImpactTrue`, `HealthTrue`, `ImplementsBook` | 3 updates of any of 4 prices on both sides to a quantity up to 2, 1 lost connection, events with and without `pu`, snapshots of 1 level, averages of 2, an order of 5 |
| `live_minutes` | `LiveTypeOK`, `CommittedMinuteComplete` | 1 depth event, 2 liquidations, delay 1, lag 2, retention 2, 5 minutes, 1 restart |
| `live_restart` | `LiquidationsSummed` fails | the same |
| `minute_features` | `FeaturesTypeOK`, `RecoveredAsCounted` | up to 20 depth events of 5 payloads and 2 liquidations of 6, with and without `T`, `U`, `ap` and `l` |
| `trade_fetch` | `TypeOK`, `NoTradeTwice`, `PagesLoseOnlyTies`, `RetryAfterHonoured`, `RequestsSpaced`, `ImplementsCall`, `FetchEnds` | every tape of 5 trades over 5 milliseconds, a window that begins and ends inside it, pages of 2, 2 pages; 2 attempts, Retry-After of 0, 3 or none, jitter 0..1; fairness of section 4 |
| `repair` | `TypeOK`, `RemainingNeverUnder`, `LeftInvalidExplained`, `NothingMadeWorse`, `RepairsComeThrough` | 2 days of 2 hours of 2 minutes (the last one begun), 1 stream, a hole in its files, one range that cuts its first hour, slices of none and 1, 1 crash, 1 damage; fairness of section 4 |
| `columns` | `TypeOK`, `RatioCutFree`, `FundingInForce`, `NullsExplained` | an hour of 3 minutes after a funding, fundings every 3, two ratio points, tolerance and lookback 2, 2 writes, clock to 10 |
| `columns_rewrite` | `RecordedKept` fails | the same |

Why the bounds are enough: two minutes to the hour already give a window cut at its
start, at its end, at neither and at both; the clock crosses an hour boundary behind the
lag, so a poll has one hour and two hours to do; one late candle makes the DQ gate
refuse an hour. In `DepthSync` five updates allow an event of several updates, a gap, a snapshot after it, and a second gap after the resync; the
three of `DepthLevels` a snapshot before, inside and after a buffered event, a replay that
breaks, and a move of both best prices and of one level behind them. Two asks of one and a
snapshot of one level make the order of 5 end in, at and after what is known.
In `MinuteFeatures` it takes 20 events for the percentile to differ from the maximum. In
`LiveMinutes` two events of one family with a restart between them are what tells a full from a cut
minute, and the later minutes let retention reach a minute that is not
committed. In `TradeFetch` five trades fill two pages and leave one, a tie may lie on, before
and after a page's end, and a wait of 3 is longer than the backoff. In `Repair` the window of
an hour reaches into the next day, a crash can leave a part of a file, and a slice leaves an
hour for the next backfill; an instance of two streams (`Loads = 2`, `Hard = {1, 2}`,
`LastMinute = 4`, range `<<1, 3>>`, 3.3 million states) passes as well and is left out for its
time. In `Columns` an hour can be cut in each of its minutes, a ratio point lies before the
hour and one after it. Deadlock is checked in the ingestion runs; the other models end when the
bounded exchange and clock have nothing left to do, so their runs do not check it.

### What the failing runs show

1. `ingestion_concurrent`: two processes read the same file, each merges its own rows and
   renames; the first one's rows are gone, though every ledger row says `COMMITTED`.
2. `depth_resync`: the exception of a snapshot request is logged and forgotten; an
   unsynchronised book only buffers, which never asks for a snapshot again.
3. `live_restart`: a minute cut by a restart is taken from memory alone.
4. `columns_rewrite`: the premium snapshot of now is put at the start of the window, however old
   (`orchestrator.py:350`), so a rewrite overwrites the predicted funding recorded for that
   minute, or fills a NULL that `REQUIREMENTS_ADDENDUM.md:107` and `:254` want kept.

Eight more places where the code does not do what `docs/missing_fields_implementation.md` or
`REQUIREMENTS_ADDENDUM.md` say are visible in the models, without a run of their own:

* The snapshot is fetched before the stream is opened, and after a break with an empty buffer.
  B.4 wants the stream opened and its events buffered first, then the snapshot, then the buffer
  dropped or replayed ("do not improvise", lines 197-205; `SetSnapshot` in `DepthSync`). An
  event between snapshot and stream is a gap, which the code pays for with one more resync.
* `apply_event` tests `pu` against the snapshot's id (`websocket.py:295`), so the spanning event
  of B.4, step 5 is refused (`Continuous`).
* A gap degrades the minute of the first event after it (`websocket.py:1331`), not the one
  whose events were lost (`DegradedWhereHurt` states what does hold).
* A minute recovered from SQLite has `depth_degraded` None, which the transform fills with False
  (`minute_builder.py:525-528`, `Snapshot` in `LiveMinutes`).
* `ws_latency_bad` is set by any event above 500 ms (`websocket.py:1277`), not by the percentiles
  of A.5 (`Slow` in `MinuteFeatures`).
* One recorded trade in a window is taken for all of them (`orchestrator.py:581`, `ChooseSource`
  in `TradeFetch`), so that its sums are over a part of its trades although REST has them all
  (`REQUIREMENTS_ADDENDUM.md:118`).
* When the funding history fails, the rate of an old window is that of today's premium snapshot
  (`minute_builder.py:502`, excepted by `FundingInForce`), where the addendum has the last settled
  rate carried forward ("ffill; settles every 8h", line 253).
* A rewrite whose optional request failed nulls what an earlier write had from it
  (`orchestrator.py:458`, excepted by `NullsExplained`), where the docs want idempotent upserts
  (`docs/missing_fields_implementation.md:121`).

## 4. Fairness

Three properties need any.

`CatchesUp` (run `ingestion_backfill`). Time goes on (`Tick`) and late candles appear
(`Arrive`). The poll loop of a daemon starts a poll again and again; strong fairness,
because a backfill may hold the lake in between. A request repeated for ever succeeds in
the end (`Collect`, strong, because `CollectFails` is enabled with it). Every other step
of a process is ordinary code that runs on (weak). Of a backfill nothing is asked but
that its steps are taken and that it fails or succeeds at each hour; it ends because its
list of hours is finite. Without the `Collect` part the daemon may fail for ever, which is
the case the code's catching loop is for.

`FetchEnds` (run `trade_fetch`): time passes while the client sleeps, it sends when its sleep
is over, every request is answered or times out (`httpx` has a timeout), and the loop over the
pages runs on (all weak). Nothing is asked of what the answers are.

`RepairsComeThrough` (run `repair`): the steps of a backfill are taken (weak on `Work`), and
the operator comes back to the whole range with all issues and with REST (strong, since there
is a backfill under way in between). That requests are answered from some time on, and that
HEAD then tells the truth, is the premise of the property itself (`NetworkRecovers`), not
fairness: the code promises nothing without it.

## 5. Proofs

Every invariant and every action property of a passing run is a theorem; liveness is not. A
theorem assumes what the ASSUMEs of the module say of its constants and, where this is said
below, a condition of its own.

`TypeCorrect`: `Spec => []TypeOK` for any processes, ranges, bounds, with or without
exclusion. The delicate part is that the first watermark is a minute, which needs the
clock to start late enough for lookback and lag (`ClockAssumption`) and the horizon of a
bootstrap to be remembered.

`WatermarkIsCovered`, `CoverHolds`: assuming `Exclusive`, `Spec => []WatermarkCovered`. The
property is not inductive: a daemon advances the watermark on the strength of what it did
several steps ago. `CoverInv` adds that one process is at work (`OneAtWork`), that the watermark
stays behind the clock by the lag (`WatermarkLags`, so that a refetched candle is a
closed one), that a daemon in its loop has exactly the hours after the watermark left
(`DaemonLoop`), and what the frame in hand and then the file hold for the minutes it is
about to cover (`HourInHand`). A backfill that rewrites a covered hour is the interesting
case: its frame may be incomplete, but what it has is closed, and the merge and the DQ
gate do the rest. TLC checks `CoverInv` in `ingestion_backfill`. The proof has one lemma
per action (`Ingestion_proofs`) and lemmas on the window arithmetic (`TimeGrid_proofs`).

`RewritesLoseNothing`, `PipelineImplementsLake`: assuming `Exclusive`. `KeepInv` adds to
`CoverInv` that no file and no frame holds a final row of an open candle, and that a merged
frame is no worse than the file it will replace (`MergeKeeps`, from what `Merge` does row by
row). Then every rename is a rewrite of `MinuteLake`, every end of an hour an advance, and all
else a stutter.

`LedgerIsExact`: assuming `Exclusive`; backfills are covered, the one that died before its
ledger row excepted by `backfilled`. `LedgerInv` follows the frame
in hand through rename, hash and upsert and says that a file has minutes of its own hour only;
that a watermark at the end of a window leaves nothing behind it ahead of itself is the
arithmetic of `LoopStep`.

`BookIsFaithful`, `BufferIsEmptyWhenSynced`, `BookTypeCorrect`: for any number of updates,
connections and snapshots. The invariant adds that events on the wire and in the buffer are
proper (`pu` is the update before `U`) and that a replay never skips.
`WorkerHandlesBookWell`: every step of the worker is a step of the book's specification
or a stutter, so `WorkerBookIsFaithful` follows from the theorem about the book.
`BlindByFailureOnly` and `SyncTypeCorrect` are proved with it. `DegradedMinutesAreHurt` needs
the pairing of the book's state with the bucket of the minute at hand.

`LevelsAreTrue`, `LevelsImplementBook`, `SpreadCheckNeverFires`, `LevelsTypeCorrect`: for any
prices, quantities, opening market, snapshot limit, with and without `pu`. `LevelsInv` adds to
the invariant of `DepthBook` that no event is ahead of the engine and that the market was never
crossed. Three facts carry the steps: what the market was does not change when the engine goes
on (`MarketStays`), a level that an event does not mention is what it was at the end of the book
(`MarketBetween`, which is where continuity is needed), and a snapshot lists the levels it tells
of and no other (`ListedIsTold`, by counting the better levels). A book that is part of an
uncrossed market is uncrossed (`PartNotCrossed`), so the spread check never breaks a book, and a
step of the levels is one of `DepthBook`: `BookIsFaithful` holds of it too.

`HealthIsTrue`, `ImpactIsTrue`: what `LevelsTrue` says of single levels, carried to the numbers
computed from them. What is known is known from the top (`SyncedIsPart`, `BestAgrees`), so an
average over levels that are all known is over the same levels of the market (`TopAgrees`). The
walk of the order is a recursive function of the ask prices; at each price what is left of the
order is the order less the cost of the asks below it, or nothing (`RemainingIsLeft`, by
induction on the price). So the walk depends on nothing behind the price it ends at, and up to
there book and market agree (`FillsAgree`). No bound on prices, levels, depth of the average or
notional is assumed.

`CommittedMinutesAreComplete`: assuming `Delay < SafetyLag`, the one thing the live daemon
needs of its settings. The invariant says where an event is that is neither lost nor
committed: in every table of its families or in memory, and in memory if it came in this run
of the process (`Held`, `Current`); a family taken from memory is then whole unless the minute
was cut by a restart. `LiveTypeCorrect` gives the order of a handler's steps.

`RecoveryIsExact`, `FeaturesTypeCorrect`: for any payloads, a payload being a record of numbers
and missing fields (`PayloadsAssumption`), and any number of events. `FeaturesInv` says that
every field of the bucket is what its name says of the rows (`BucketOf`): extremes of a field,
the bag of the latencies, sums and counts by side. Two fields are not functions of the rows:
`orig` and `executed` stop at the first order that does not say what was filled, so the
invariant ties them to the rows only as long as there was none, which is when they are reported.
The step lemmas say what one more row does to a count, a sum, a bag of values and an extreme
(`CountAdded`, `TurnoverAdded`, `ValuesAdded`, `LargestSoFar`).

`TradesAreCountedOnce`, `OnlyTiesAreLost`, `FetchTypeCorrect`: pages leave no hole before their
newest trade (`PageHasNoHole`), so what has been fetched is all of the tape from the window's
start to the cursor but for ties. `WaitsAreHonoured`, `RequestsAreSpaced`,
`ClientImplementsCall`: from `RestInv`, which ties the sleep that is left to the wait that was
asked for; `FetchUsesClient` carries the first over to the fetch. The client's arithmetic needs
that its delays are no shorter than the interval of its rate limiter (`DelaysAssumption`; 1 and
60 seconds against the fraction of a second in the code) and that powers of two are positive
(`PowersAssumption`, which TLC evaluates: exponentiation has no theory in the prover).

`RatioIsCutFree`, `FundingIsInForce`, `NullsAreExplained`: for any hour, any
points, and any cut. What carries the first is that a window reaches back at least as far as
the join (`Tolerance <= Lookback`, an assumption on the code's two constants of 30 minutes),
what carries the second that a seed is in force until the next funding, that fundings fall on
hours, and that a fill may go through an hour (`FillLimit`).

`RemainingIsUpperBound`, `RepairsTakeNothing`, `RepairTypeCorrect`: `RepairInv` counts. The
invalid hours of the range, those left to do and the one in hand are together no more than
found minus repaired: an hour counts as repaired only after its data is valid, and nothing a
backfill does makes a valid hour invalid.

`LeftIsExplained`: the property speaks of the report, its invariant (`ExplainedInv`) of every
hour the backfill is through with: it was hurt by a failed request or is `Barred`, which is
`Blocked` by something no later step of the run takes away (`BarredStays`). That a reason stays
is the point. The part of a file that a failed download left is never completed, since its name
is taken (`CacheStep`). The next day's file hides a missing one only until that one is fetched,
which a later hour does not do, because hours come in ascending order (`Ascending`,
`LaterHourLaterDay`). And an hour that gets as far as its writing with a row short lacks it for
such a reason: what the loader has passed is collected, a hole or not in the cache
(`Collected`), and REST is asked for the whole of a stream when Vision had nothing of it
(`FetchLacks`, `GotOrLacking`).

`Induction` is what the arguments about levels, columns, buckets and trades rest on. The provers
cannot instantiate a theorem over a predicate, so a property of numbers or of finite sets is
given as the set of those that have it, and induction follows from the existence of a least
member (`LeastOf`, `AllNaturals`, `AllSubsets`). From it the sums that the community modules
define by a fold are shown to add up (`SumsAdd`, `SumTakes`) and a finite set of integers to have
extremes (`FiniteExtremes`).

Only model-checked: `CatchesUp`, `FetchEnds`, `RepairsComeThrough` (liveness under fairness is
out of the prover's reach) and all counterexamples.

## 6. Not modelled

* Column formulas of trades and candles, column types, coercion of numbers, CSV and JSON parsing:
  data.
* Book ticker and open interest of a REST window: snapshots of the time of the call, put at the
  start of the window, as the premium snapshot of `Columns` but with no history to be wrong
  about.
* DuckDB and IntelliJ helpers, metrics inspector, logging, scripts: no state of the pipeline.
* Heartbeats beyond their place in a handler: they are written, but nothing reads them, and
  `_heartbeat_for` has no caller. `ingest_ws_event` and `rewind_watermark` have none either.
* `cleanup-live-state`'s VACUUM: a lock on the event store that a handler waits for or fails
  at, which `StoreFails` already allows at any time.
* `stop` of supervisor and workers: the process ends after it; `Restart` covers it.
* The `--at` and `--max-hours` options of `run-once`, and the year windows of `backfill-years`
  and `backfill-loader`: they choose the arguments that `Ingestion` and `Repair` take as any.
* The growth of `_minutes` and `_heartbeats`, and hours that can never be repaired starving
  later ones under `--max-missing-hours`: facts by construction, listed as hazards.

## 7. What is left

A larger `Repair` with two backfills at a time, as `ingestion_concurrent` has for the plain
pipeline; and the collector's trade and funding buckets in `LiveMinutes`, which follow the
pattern of the three families that are there.
