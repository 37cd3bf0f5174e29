# Verification project for the UOA detector

The repository is a Python detector of unusual options activity: a library
(`src/uoa_detector`), a web application with its background loops (`webapp`), and
scripts. This directory holds TLA+ models of the parts where order, failure and
concurrency decide correctness, the TLC configurations that check them, and TLAPS proofs
of what holds for every value of the constants. Paths below are relative to the root of
the repository; `X.py:n` is a line.

`tlc -config C.cfg M` runs a configuration `C` of a module `M`, `tlapm M.tla` checks the
proofs of a module. `PROJECT.json` lists the runs, the mutants that show each property can
fail, the source lines behind each definition, the hazards, the findings and the theorems.

## 1. The system

Prints (single option trades or vendor alerts) come from *sources*, are reconciled by
*fusion*, pass the *pipeline* of stages m21 to m39, are scored, labelled and sized, and are
stored per *run* in the backtest store. The same path serves backtests over downloaded
parquet files and, in one process with the web application, the live worker. Further
supervised loops of that process read the stored signals: the board refresher and its daily
jobs, Live Alpha with its PAPER ledger, timed measurement, shadow capture and several
research observers. They share Postgres tables, the vendor's daily request quota, and
nothing else: there are no callbacks between loops. A deployment starts the new process
before the old one has stopped, so every loop may run twice for a while.

| Component | State | Operations | Hard behaviour | What makes it correct |
|---|---|---|---|---|
| Download checkpoint and orchestrator (`historical/state.py`, `historical/orchestrator.py`) | state file, shared `DownloadState`, semaphore | initialise, begin, list, batch, complete, save, resume | crash between save and work, partial failure, concurrent saves | done means mostly on disk; done stays done; every task settles |
| ThetaData downloader (`sources/thetadata/historical.py`) | parquet files | skip, fetch, write | stub after a crash, retries | complete files are never rewritten |
| Fusion (`fusion/source.py`) | queue, watermarks, open buckets | feed, accept, drop late, end, stall, flush, drain | unordered and late prints, stalled and ending sources | each print in one bucket; disjoint spans; no late falsification; watermark monotone |
| Agreement (`fusion/agreement.py`) | none | classify a bucket | several prints of one source | pure |
| Live Alpha PAPER ledger (`webapp/live_alpha/job.py`, `store.py`) | `alfa_live_rec`, `alfa_live_paper`, `alfa_live_event` | decide, record, publish, fill, expire, signal, close, abandon | overlapping cycles, crash between two transactions, stale prices | one life per position; no look-ahead; complete history; settlement |
| Live flow source (`unusual_whales/flow_poll.py`) | seen set, polled set, quota flag | poll, filter, emit, back off | restart, failed fetch, cap of the seen set | each alert once per run; no flood |
| Live worker (`webapp/worker.py`) | active run, source, rollover task | adopt or start a run, restart, roll over | midnight, restart, two processes | a print is in its day's run |
| Backtest store (`backtest/sqlite_store.py`) | runs, signals, errors, buffers | start, add, flush, finish | failed batch, duplicates, lost update | counters equal rows; unique events |
| Pipeline (`pipeline/orchestrator.py`) | per event | stages in order, timeouts, store | a stage fails or times out | every print is stored or recorded as an error |
| M28 validator (`pipeline/validators/m28_next_day_oi.py`) | pending confirmations | settle on the next session's open interest | weekends, missing data | settled once |
| HTTP base and vendor clients (`sources/_http_base.py`, `unusual_whales/client.py`, `thetadata/client.py`) | tokens, breaker, daily count | acquire, send, retry, trip, probe | many tasks wake together; failures of stragglers; the breaker is asked once per call | bounded rate; what an open breaker still costs is bounded; it lets calls through again |
| Quota ledger (`board/quota_ledger.py`) | the day's row of `alfa_uw_quota` | raise the floor to what the vendor counted, reserve if it fits | several consumers at the cap, some of which send without reserving | the shared cap is never crossed by what was granted |
| Timed measurement (`timed_measurement/`) | targets, claims, slots, packets, completions, assessments, day halt, cooldown; what a process remembers | discover, plan, claim, reserve, send, record, complete, assess, halt | overlapping workers, crash or failed database between any two writes, a refusal that was never stored | caps kept; no request twice; a refusal stands; an observed result rests on one real pair; every target is assessed |
| Board refresher and daily jobs (`board/refresher.py`, `board/daily_jobs.py`) | job markers, the loop | due, mark started, run, mark finished, stop at the soft cap | crash between the marks, a body that outlasts its day, errors that end the tick | a job starts no more often than its attempts allow |
| Options Alpha PAPER (`board/options_paper.py`, `options_alpha/tracking.py`, `exits.py`) and `board/daily_close.py` | positions, marks, outcome; stored sessions | register, mark, decide, close | late rows, rows left out, degraded fetches, a session stored below newer ones, crash between marks and outcome, holidays | the frozen outcome agrees with what it was decided on; late rows count; a position the calendar covers settles |
| Shadow capture, desk, opening, news | append-only rows | capture, settle | restart, late data | append-only, settled once |
| Options Alpha selection and structures (`options_alpha`) | none | select, price | stale quotes | pure |
| Scoring, labels, risk, calibration, studies | none | pure functions | numeric edges | agree with their definition |
| Web pages | none | read | none | display |

`PROJECT.json` repeats the list with the source files and the state of each part.

## 2. Modules

| Module | Models |
|---|---|
| `Downloader` | the resumable download; `MCDownloader` instances, `DownloaderProofs` |
| `Fusion` | the multi-source watermark loop; `MCFusion`, `FusionProofs` |
| `LiveIngest` | the live worker, its polling source and the replay-safe store; `MCLiveIngest`, `LiveIngestProofs` |
| `PaperLifecycle` | abstract: what the ledger promises for one opportunity |
| `PaperLedger` | the engine cycles over the three tables, implementing `PaperLifecycle`; `MCPaperLedger`, `PaperLedgerProofs`, `PaperHistoryProofs` |
| `QuotaLedger` | the statements on the day's quota row, as operators |
| `MeasurementLife` | abstract: what the timed measurement promises for one target |
| `TimedMeasurement` | the timed workers over their tables and the ledger, implementing `MeasurementLife`; `MCTimedMeasurement`, `TimedMeasurementProofs` |
| `VendorClient` | bucket, breaker and request loop of one vendor client; `MCVendorClient`, `VendorClientProofs` |
| `DailyJobs` | the clock of the daily jobs and their markers, with the bodies left open |
| `OptionsPaper` | `daily_close` and `options_paper` as bodies of `DailyJobs`; `MCOptionsPaper`, `OptionsPaperProofs` |

`TimedMeasurement` takes `QuotaLedger` by `INSTANCE`; `OptionsPaper` extends `DailyJobs`.
No module declares a RECURSIVE operator, so all may be proved about.

### Downloader

A task is a (ticker, year, month), and its coroutine is `pc[t]`: `waiting` at the
semaphore, `listing` its contracts, `fetching` a batch, or `idle`. `mem` is the
`DownloadState` the coroutines share, `disk` the state file. `Begin`, `ListFails` and
`Complete` mark the task and save the *whole* shared state in one step, as the code does
between two awaits. `Download` and `DownloadFails` are one contract of a batch; `file` says
whether its month is absent, a stub (`partial`), written without rows, or with rows.
`Crash` is a kill at any await or inside a parquet write; `Start` covers a resume, a start
under `--max-tasks`, and one with another tier or range, which replaces the state. What
the lister returns is fixed per task; the order of a batch is free; the days inside a month
are one write. `completed` is a history variable.

### Fusion

The queue is shared by the feeder tasks and the loop. A bucket is a record with an id, the
position it would have in the code's list; "first bucket that fits" is the least id.
`Reached(t, w, d)` says that the minimum of the watermarks of the sources that are not done
exists and is at least `t`. `Accept`, `TakeDone` and `StallCheck` include the closure check
that follows them in the code. `Tick` moves the wall clock either while the queue read waits
or, unless `Prompt`, while the consumer of the stream is busy with a yielded print. The
clock and event times share a unit and an origin, as in live operation. The content of a
canonical print is not modelled: a print is its source, number, key and time.

### LiveIngest

`w[p]` is one worker process: where its loop stands (`pc`), the day of its run, the source it
drives, the alert in hand and the transaction it has begun. `runs`, `stored` and `total` are
the tables. A pass is `Poll`, then `Ask`, `Reply`, `Convert`s and `TickerDone` per ticker, then
`EndPass`; an emitted alert goes through `Stages`, `Dedupe` and `Commit` before the next record
is converted, because the stream is pulled and one source is not windowed by fusion.
`Rollover` is the watcher task and may act between any two of these. `Fail` is an exception
outside a fetch, `ReplyFails` one inside, `BadRecord` a record that does not parse. `first[t]`
is the cutoff of a ticker's first poll, and `first[t] # None` is membership of `_polled`.
`Dedupe` and `Commit` are two steps of one transaction, as read-committed databases run it:
the unique key is checked at the insert. Left out: alerts too small or expired, the order of
records in a reply, the length of sleeps, the archive sink. Two assumptions are in the model:
the vendor still lists what it raised (a hundred alerts per ticker), and the night is longer
than any sleep (the guard of `Tick`), which `worker.py:53` relies on.

### PaperLedger

The model follows one opportunity, `session:ticker:direction`, for which the tables hold a
list of recommendation records, at most one PAPER row, and events. A cycle is a process with
locals `run[c]`; every database call is one step, so two cycles interleave between any two
of them and a crash may fall between any two. The clock, the stored spot and the calendar
are the world. A price is where it lies in the frozen plan (`stop`, `entry`, `chase`,
`target`), which is all `track_papers` compares it with; a short plan is the mirror image.
The verdict of flow, news and price is a free choice, restricted to what the code
guarantees: ready only with a fresh spot, and on the plan's own entry side. Whether an
option structure has a usable quote, what daily bars say, and whether flow has turned
are free choices where the code asks. Profit and quantity are left out.

Two history variables watch the overlap: `late` has the cycles that were under way while another
appended a record, or filled the position, and `crossed` says whether such a cycle wrote one all
the same. `Watch` keeps them in every step and restricts none.

The refinement maps an absent row to the state `NONE`. The abstract module allows a fill
only from pending, a second reason never, an exit price only once. It holds without regard
to who moves the row, which is the claim of `move_paper`: "Compare-and-set on state, so two
cycles cannot both fill or both close."

### QuotaLedger and TimedMeasurement

A worker is a process, `w[p]`: where its tick stands, what its process remembers
(`_HALTS`, `_COOLDOWNS`, the last vendor count), and the target in hand. Every transaction
and every wait is a step, so a crash (`Crash`), a raising database call (`Fails`), another
worker or another consumer of the key may fall between any two. `ReadSlots` and `Insert` are
two steps because the highest slot is read in a transaction before the insert; `Send` asks
the deadline again after the reservation; `Reply` puts a refusal in memory and `Save` in the
database. `Refuse` and `Plan` ask the startup barrier (`Held`), which takes an older claim
that was never completed for a refusal that could not be stored. `OtherReserves` is another
consumer of the ledger, `OtherSends` the live worker, which does not reserve and only raises
the vendor's count. One ET day is modelled, as every key carries the day. The activation row
is constant, the confirmation that follows each write is part of that write, and checksums are
left out. `granted`, `wires`, `refused`, `doubt` and `missed` (the attempts completed after the
verdict on their target was taken) are history.

The refinement reads the life of each target off the tables: its row, the times of its claims
and completions, and its assessment. The abstract module lets an attempt begin only in the
window and a spacing after the end of the one before, so it says more than each worker checks:
`claim` writes with the time and the ordinal of the plan, which others may have overtaken. It
does not forbid an attempt after the verdict, because `claim` looks for an assessment before it
inserts. `LifeImplemented` is the specification of every target with the boxes taken together,
the form TLC accepts.

### VendorClient

A step is what a task does between two awaits. Time is relative: a `Tick` shortens the sleeps
and ages the instants, up to the age at which they no longer matter, so the state space
is finite without a bound on time. `Acquire` is one turn of the loop in
`TokenBucket.acquire`; a task that wakes early or late computes its own refill. `Reply` has an
outcome for each branch of `request_json`: success, a retried failure, a rate limit with the
longer pause, an error that ends the call and counts, one that ends it and does not, and a
hook that raises. `Cancel` is a cancellation at any await. `debt` and `burned` are history:
what an outside observer needs to state the rate and the cost of an open breaker without the
variables of the code. The loop of `thetadata/client.py` is the same with fewer
outcomes.

### DailyJobs and OptionsPaper

`DailyJobs` has the clock, counted in slots of a day, the markers and the loop of
`run_daily_jobs`: `Look` takes everything due at one moment, `StartJob` and `FinishJob` are
the two marks, `Capped` is the soft cap or the open breaker, `Restart` a new process,
`SlowSlot` time that passes during a body. A body that starts before midnight writes the
marker of its own day. Jobs are due on weekdays (`Weekdays`), holidays among them, as the code
asks the weekday only.

`OptionsPaper` follows one position from its entry on day 0. `StoreCloses` inserts the sessions
that are final and that the table lacks, at any place of the calendar: a session on whose close
the rows of the payload disagree, or have none that is positive, is skipped
(`daily_close.py:374-386`) and stored by a later run below newer ones (`:469-488`), once the rows
have come to agree (`Agree`) or never; a payload may also leave any of them out. The vendor's
series begins at `oldest`, which may lie after the entry, so the calendar may never reach back to
the position: `OpenBook` then skips it, on every run (`options_paper.py:349-351`, `Covered`).
`FetchLeg` asks the vendor leg by leg. Rows are listed by `Post` at any later time, or never, and
an answer may leave out any of those listed, one by one, as the code reads them (a payload without
its list counts as no rows); `left` remembers the days so left out of the answers a verdict rests
on, `basis` the sessions stored when it was taken; both are history. `StoreMarks` and
`StoreOutcome` are two transactions. A price is where the package's value lies to the plan's
levels, which is all the exit rules compare it with. One refresher process is modelled: two that
overlap during a deployment may lose an attempt.

## 3. Runs

| Run | Result | Bounds | Shows |
|---|---|---|---|
| `downloader` | passes | three tasks, one with three contracts in batches of two, two starts, concurrency two | the checkpoint never says more than the disk; done stays done; complete files are kept; tasks settle |
| `downloader_resume` | violated | the same | a done month's failed contracts are not retried by a resume |
| `fusion` | passes | two sources with two prints each, one key, five event times, window two, clock to three | the five fusion properties |
| `fusion_stall` | violated | eight prints at one time, clock to six, prompt loop | a busy source starves the stall check |
| `live_ingest` | passes | one process, two days of three times, a fixed and a hot ticker with an alert each, two troubles, a seen set of one | nothing is lost, counters agree, every alert is stored, the day changes |
| `live_backlog` | violated | as `live_ingest` | a failed first fetch is followed by one without cutoff |
| `paper_overlap` | passes | two cycles, three times on two session days, no crash | one life, no look-ahead, each move told by exactly one event, dates in order |
| `paper_single` | passes | one cycle, five times over four days of which three are sessions, one crash, two records | the records are one chain of changes, settlement |
| `timed_measurement` | passes | two workers, two targets, three attempts, both caps three, clock to two, two troubles; see below | the caps, one request each, the evidence of an assessment, completed pairs count |
| `timed_single` | passes | the same with one worker | a refusal stands; each target lives the life of `MeasurementLife`; targets are assessed |
| `vendor_client` | passes | three tasks, capacity two, a token per two ticks, threshold two, reset three, three attempts, pauses of one or two ticks | the rate, what an open breaker still costs, that it lets a call through again |
| `options_paper` | passes | two legs, hold of two sessions, days 0 to 7, a weekend on day 2, a holiday on day 5, day 1 in dispute or not, a series from day 0 or 1, four slots a day, two troubles, two courses of the price | attempts, the outcome and its evidence, late rows, settlement |

Why the bounds suffice. *Downloader*: three contracts in batches of two give a full and a
short batch and both sides of the majority; two other tasks compete for two permits; two
starts give one resume, from any point. *Fusion*: five event times over a window of two let
a print fall before, inside and after a bucket, buckets of one key coexist, and a print
arrive late; two sources are enough for each rule on the minimum (one not yet seen, one
done, one stalled). *LiveIngest*: two days let an alert of the first be listed in the
second; two troubles are a failure and another during the recovery; a seen set of one is
emptied by two alerts.
*PaperLedger*: two cycles are all that a deployment overlaps; three times are publication,
fill and exit; the single process has a day without session, a session after it and one
after that, so that a horizon of two sessions, an expiry and an unresolved signal occur.
*TimedMeasurement*: the day starts either with one target, of which every attempt may be
due, and one trouble left, or in the last minute with two targets, a ledger another consumer
was first to use and no trouble left. Four or more requests then compete for three slots and
three units; only one of the targets had a price of SPY, so both kinds of pair occur. With
one worker the two cases both have a trouble left.
*VendorClient*: a bucket of two and three tasks leave one without a token; a threshold of
two lets one task's failure open what another's success closes; the reset is shorter than
the longest sequence of pauses, so a call that began before the breaker opened outlives a
cool-down and renews it.
*OptionsPaper*: a hold of two sessions with a weekend day inside it and a holiday after it, a
calendar date at which the position must close, a session inside the hold that may be stored after
the one that follows it, before or after the verdict; rows of the horizon and of the session after
it, listed late or never; and days enough for the horizon, the session after it and one more per
trouble. A dispute at the start counts as a trouble, so the runs with one have one failure left.

CHECK_DEADLOCK is off everywhere but in `vendor_client`, where time never stops: a download
ends, a fused stream ends, and the bounds on clocks, starts and troubles end the others.

### Fairness

`Downloader!FairSpec`: weak fairness of each task's coroutine and of the end of the script.
The event loop resumes what is ready, and each request ends because the client has a
timeout. Nothing forces a start, and a crash is never required, so `TasksSettle` is about
one life of the process.
`LiveIngest!FairSpec`: weak fairness of the clock, of each worker's loop and of its watcher:
both are tasks of one event loop, every sleep and request ends, and the platform and
`main.py:135` start again what stopped. Failures, crashes and bad records have no fairness
and are bounded, so `Ingested` is about an environment that recovers.
`PaperLedger!FairSpec`: weak fairness of the clock and of the cycle's steps: the loop is
supervised and starts a new cycle after a failure (`job.py:767`), and crashes are bounded.
The refresher has no fairness: `PositionSettles` holds even if no price ever arrives.

`TimedMeasurement!Fairness` (in `timed_single` under its own initial states): weak fairness
of the clock, of each worker's steps and of its start: every wait in the tick has a timeout
(`transport.py`, `statement_timeout_ms`, `lock_timeout_ms`), and the process is started
again.
`OptionsPaper!FairSpec`: weak fairness of the bodies, of the loop and of the clock. The loop
of the refresher sleeps a bounded time and catches what a body raises. The vendor has no
fairness: `PositionSettles` holds even if no row is ever listed.
`VendorClient!FairSpec`: weak fairness of time, and of nothing else: no task need run, no answer
need come. `BreakerLetsGo` holds all the same, because the breaker asks the clock only, and what
may renew its cool-down is bounded. Nothing is promised of tokens: the bucket has no queue, so a
task may lose every token to others.

### Findings

1. `orchestrator.py:414` expects a resume to retry contracts that failed within a
   tolerated minority; `state.py:185` does not put done tasks back to work.
2. `fusion/source.py:54` and `profile.py:1148` promise a periodic stall check; it runs only
   when no source delivers for a check interval.
3. `flow_poll.py:125` promises that the first poll of a ticker never floods the run with old
   alerts; a ticker whose first request failed is marked polled, so its next poll has no
   window. In the counterexample an alert of one day is stored in the run of the next.

### Observations

What the code does, seen while modelling, where the properties had to be stated with care:

- `live_alpha/store.py:6` says that each move is also an event; they are two transactions, and
  a crash between them loses the event. `HistoryComplete` therefore allows one lost event for
  each crash; `paper_overlap` checks it without a crash, the theorem covers any number.
- `live_alpha/store.py:57` says that a row is added only on change; the head is read in one
  transaction and appended after in another, so two overlapping processes repeat a record.
  `RecsOnChange` therefore speaks of the time up to the first append by a cycle that was under way
  when another appended (`crossed.rec`), whichever and however many the cycles; from then on only
  `RecsLinked` holds, a theorem of `PaperHistoryProofs`.
- Overlapping cycles carry the times and prices they started with, so one that was under way when
  another filled the position may close it with an older one. `Chronology` excepts exactly that
  (`crossed.fill`), and holds for cycles that overlap in any other way.
- A worker that starts at the deadline takes the open attempt of another for lost, and may judge the
  target before its pair is completed. `PairsCount` excepts the attempts completed after the verdict
  was taken (`missed`); a pair completed before is never passed over, whoever judges.
- `_http_base.py:114` says "HALF, one probe allowed", and `thetadata/client.py:54-58` that the breaker
  waits "before allowing one probe" and so "prevents thundering-herd retries". `is_open` compares
  the clock only: after the cool-down it lets through every call that asks, until one of them fails;
  a single success of a straggler closes it at once. The model does the same, so the promise is no
  property of it, and no run is about it. `BreakerLetsGo` states what does hold after the cool-down,
  `BurnBounded` what can still be sent during it; how many calls go through when it ends is bounded
  by the tokens alone.
- The outcome of an options position is frozen by the sessions stored at that moment. A session that
  was in dispute and is stored afterwards moves the hold, and with it the day that was the horizon: a
  row of the new horizon listed in time no longer counts. A row left out of the deciding answer
  freezes a verdict that may disagree with a mark of an earlier run. `OutcomeFaithful` and
  `LateRowCounts` therefore speak of the sessions stored at the verdict (`basis`), and except the
  days left out of its answers (`left`).
- A position whose entry is older than the stored calendar is skipped by every run
  (`options_paper.py:349-351`) and stays open for ever: `PositionSettles` is about the others.
- A refused reservation, a degraded leg and a degraded fetch of the closes still mark their job a
  success, so it is not tried again that day; the position waits for the next.
- A contract not found, or a payload without its list, counts as an answer without rows. If it
  arrives at the horizon, the position ends as unknown although rows were listed (`left`).
- Outside market hours the refresher's sleep asks for the next due job without the bound on
  attempts (`refresher.py:911`): once a job has none left, the loop wakes every second until the day ends.

## 4. Proofs

Each proof module proves `Init => IInv`, `IInv /\ [Next]_vars => IInv'` and the property from
`IInv`. Assumptions are those named in the modules (finite contracts, positive limits, a
clock in the naturals, `None` distinct from values); none concerns behaviour.

*Downloader.* `DoneHasHalf` is not inductive: what a running task will be judged by is its
error count. The invariant adds that the contracts a task lacks and has no more to do are
no more than its `errs` (`MissedInv`); that what is in memory is on disk while the script runs
(`SavedInv`); that a coroutine that is not fetching holds no contracts and a done task has no
coroutine (`IdleInv`); and that completed tasks are done on disk (`CompletedInv`). The majority
rule then bounds what a done task lacks.

*Fusion.* `EachPrintOnce` needs that the queue holds, per source, prints in sending order and
then at most one end (`QueueInv`), and that what was taken precedes what is still queued
(`TakenInv`). `BucketsDisjoint` follows from first fit: an older bucket has refused every print
of a newer one, a refused print is a window away from the bucket's far end, and no bucket is a
window wide (`Apart` and `Narrow` in `BucketInv`). That an emitted bucket refuses every later
print is `EmittedInv`: the global watermark has passed its deadline and never goes back. With
`NothingOverdue`, which the closure check after each step restores, this gives
`NoLateFalsification`.

*LiveIngest.* The invariant is one predicate `Good` on what a process holds. `Seen` is
`SeenStored` without its guard; it survives `Convert` because the records of a reply belong to
the ticker asked for, whose first cutoff is the one they are filtered by (`Replied`).
`CountsRows` needs what a transaction has read (`Read`): the counter it read is at most the
rows, which only grow, and a key it found stored stays stored. Two processes may lose an
update, so the counter is then only a lower bound; a single one keeps it exact.

*PaperLedger.* The states of a row only move forward (`Rank`), so if its state still equals
the one a cycle read, its publication and reason are those the cycle read (`SeenInv`); the
fields a row has in each state are `RowInv`, and what a settling cycle has decided is
`SettleInv`. That is what makes a compare-and-set on the state alone sufficient, and the
refinement and `NoLookahead` follow for any number of cycles.

*PaperLedger, the history.* An event is stored after the move it tells, so `HistoryComplete`,
which speaks of the moments when all cycles are idle, needs what they owe in between. `ToldInv`
says that an event stored or about to be stored tells a move the row shows, and that no other
cycle is about to tell the same one: the compare-and-set picks the teller. `LossInv` counts the
moves the row shows that nobody has told or is about to tell: no more than the crashes, because
only a crash gives up an event. `ReasonInv` says that an exit never
carries the reason of an expiry, so the events of the two are not taken for each other. The records
need, whatever overlaps, only that the head a cycle remembers was stored and differs in verdict
(`LinkInv`). For `RecsOnChange` the invariant says besides that, as long as nobody appended behind
another's back, the records are one chain in the order of their times, and that every cycle *not
late* has as its head the last of them and a time no older (`OrderInv`). For `Chronology`, `DatesInv`
says the same of the dates: the time, the spot and the exit price that a cycle not late goes by are
not before the entry of the row. `WatchRec` and `WatchFill` are all the two proofs need of the
history: a cycle that rests while another writes becomes late, one that is late stays so until its
cycle is over, and its write crosses. No theorem assumes a number of processes.

*TimedMeasurement.* Nothing in the tables says who may send: what does is where a worker
stands. The invariant says, of each worker, that its attempt is claimed and open (`Owner`),
that no other worker is on that attempt (`OneOwner`), and how far its request is in the
slots and on the wire at each place of the tick (`Placed`). A claim is never deleted, so no
second worker reaches the same request, and `OneRequest` follows. A slot per request gives
the module's half of `CapsKept`; `LedgerInv` (what was granted is at most the row, and at
most the cap) gives the other. For `RefusalStands`, `RefusalInv` says that a refusal is
stored, or has left its attempt open and claimed no later than the start of any worker that
may not know of it from memory (`Stuck`): that a crash or a failing database leaves one of
the two is what the startup barrier relies on. Other consumers, which may raise the vendor's
count past the cap, do not matter: `CapsKept` is about what was granted.

*TimedMeasurement, the life of a target.* Only the plan sees that the attempt before has ended
and that its spacing is over; the claim comes later. The invariant (`LifeInv`) carries that from
the plan to the claim: `Course` says of each worker what it saw of its target, `Timely` that its
attempt may begin at the time it holds, and `Begun` the same of every claim in the table. All
three survive the steps of others because nothing written is written again (`Grows`). That the
claimed attempts are the first ones (`LastClaimed`) makes the plan's count the number of the next,
and the table's unique key does the rest. `OneOpen` is a corollary: two workers never measure one
target at once. For `PairsCount` the invariant says that a verdict held by any worker rates every
pair of its target that is complete and not missed (`Judged`). A pair is made only by the completion,
because evidence is added only to open attempts (`PairsMade`): it finds the verdict taken, and the
attempt is missed, or every later verdict sees the pair (`VerdictPaired`).

*VendorClient.* `RateKept` follows from an equality: the debt of the leaking bucket and what
the code's bucket would hold after a refill are together a full bucket, at any moment and
whoever booked the last refill (`Bucket`). For `BurnBounded` the invariant adds what the call under way of each task may still send (`Left`): since the breaker began
to refuse, sent plus left fits one call, and for the task whose failure opened it is less.

*OptionsPaper.* `AttemptsBounded` needs that the markers count exactly the bodies begun
(`Counted`), and that whatever a tick has taken and not yet begun still has an attempt left
(`Allowed`), although the markers change under it. For the outcome, `Evidence` says that
marks are of stored sessions and rest on rows that were listed, `Locals` what the answers
fetched so far must hold unless they left it out (every row marked before, and every row
listed in time of a day that has a stored successor), and `Settled` that a verdict, decided or
stored, is what the rules give on the marks by the sessions stored when it was taken, or an
unknown end has a session after its horizon whose close is final. Because a session may be inserted
below stored ones, nothing about the hold is carried from one run to another: the verdict rests on
the calendar of its own run (`basis`), in which enough sessions give one last day of the hold
(`HorizonHeld`), and on the answers of that run. The proof holds for any calendar, order in which it
is stored, hold, number of legs, order of rows and choice of rows left out.

Only model-checked: `TasksSettle`, `PositionSettles` (of both modules), `TargetsSettle`,
`Ingested`, `RollsOver` and `BreakerLetsGo`, which are liveness and out of the provers' reach. Every
other property of a passing run is a theorem. `RecsOnChange`, `SeenStored` and `CountsRows` are
checked for one process, `RefusalStands` and `LifeImplemented` for one worker, `Chronology` without a
crash; all of them are proved for any number.

## 5. Plan

Done: `Downloader`, `Fusion`, `LiveIngest`, `PaperLedger`, `VendorClient`,
`TimedMeasurement` over `QuotaLedger`, `DailyJobs` with `OptionsPaper`, the two refinements,
and the proofs of all safety properties. Left, in this order:

1. Two overlapping refreshers in `DailyJobs`, and the other jobs with state of their own: the
   decision ledger's outcomes, the hot list, the regime.
2. M28 settlement on the next session's open interest.
3. Shadow capture and the desk's positions, append-only tables that are settled once.
4. An abstract specification of the live worker (each alert in the run of its day, once), and its
   refinement by `LiveIngest`.
5. Pure algorithms (`classify_agreement`, labels, penalties, sizing) against reference
   definitions over small domains.

## 6. Not modelled

Numeric scoring, calibration values, research packages and pages: they are pure or read
only, and their risk is in the numbers. Vendor payloads and database engines are taken as
the code uses them: a transaction is atomic, a unique key refuses the second insert, an HTTP
call ends. Of the components above, M28, shadow capture, the desk, the opening and news
observers and the jobs other than the two modelled are left out for now: they write a row
once under a unique key, and the same argument is made in the modelled ones. Two overlapping
refreshers and the live source of ThetaData (a socket that reconnects) are not modelled.
