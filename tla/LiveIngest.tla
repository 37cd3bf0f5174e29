----------------------------- MODULE LiveIngest -----------------------------
(***************************************************************************)
(* The live worker (webapp/worker.py) with the polling source it drives    *)
(* (unusual_whales/flow_poll.py) and the replay-safe store it writes to    *)
(* (backtest/sqlite_store.py).  A process opens or adopts the run of the   *)
(* UTC day, builds a source, and stores each alert the source emits; a     *)
(* failure drops the source and what it had in hand and starts over; a     *)
(* watcher closes the source when the day ends.  A deployment may run two  *)
(* processes over the same tables.                                         *)
(*                                                                         *)
(* With one source the fusion layer hands each print on at once, so a      *)
(* process has at most one alert in hand.                                  *)
(***************************************************************************)
EXTENDS Integers, FiniteSets

CONSTANTS
  Proc,       \* worker processes
  Ticker,     \* the tickers that may be polled
  Base,       \* LIVE_TICKERS; the others are on the hot list now and then
  Alert,      \* vendor alerts that are large enough and not expired
  TickerOf,   \* alert |-> its ticker
  DayLength,  \* clock units of a UTC day
  Open,       \* the times of a day at which is_market_open holds
  Backfill,   \* the backfill window
  SeenCap,    \* _SEEN_CAP
  MaxTime,    \* bound on the clock
  MaxTrouble, \* bound on failures, crashes and bad records
  None        \* no value yet

ASSUME WorldAssumption ==
  /\ Base \subseteq Ticker /\ TickerOf \in [Alert -> Ticker]
  /\ IsFiniteSet(Alert) /\ None \notin Int \union Ticker \union Alert
ASSUME LimitsAssumption ==
  /\ DayLength \in Nat \ {0} /\ Open \subseteq 0..(DayLength - 1)
  /\ Backfill \in Nat /\ SeenCap \in Nat /\ MaxTime \in Nat /\ MaxTrouble \in Nat

VARIABLES
  clock,    \* UTC time
  created,  \* alert |-> created_at, None while the vendor has not raised it
  runs,     \* the days that have a run
  stored,   \* (day of the run, alert): the keys of the signal rows
  total,    \* day |-> total_signals_processed of its run
  w,        \* process |-> its loop, its source and its store session
  trouble   \* how much has gone wrong

vars == <<clock, created, runs, stored, total, w, trouble>>
tables == <<runs, stored, total>>

Day == 0..(MaxTime \div DayLength)
Today == clock \div DayLength
MarketOpen(t) == t % DayLength \in Open
RowsOf(d) == {a \in Alert : <<d, a>> \in stored}

\* What a process that is down, or between two sources, holds.
Blank(at) ==
  [pc |-> at, day |-> None, cutoff |-> None, firstPass |-> TRUE, closed |-> FALSE,
   first |-> [t \in Ticker |-> None],  \* cutoff of the ticker's first poll; not None is _polled
   seen |-> {}, todo |-> {}, ticker |-> None, floor |-> None, records |-> {},
   event |-> None, fresh |-> FALSE, count |-> 0]

Processing == {"stages", "dedupe", "commit"}
Streaming == {"poll", "next", "reply", "convert"} \union Processing

\* What a process holds: its loop, the source, the event in hand, the transaction.
Worker ==
  [pc: {"down", "ensure", "insert", "source"} \union Streaming,
   day: Day \union {None}, cutoff: Int \union {None},
   firstPass: BOOLEAN, closed: BOOLEAN, first: [Ticker -> Int \union {None}],
   seen: SUBSET Alert, todo: SUBSET Ticker, ticker: Ticker \union {None},
   floor: Int \union {None}, records: SUBSET Alert, event: Alert \union {None},
   fresh: BOOLEAN, count: Nat]

TypeOK ==
  /\ clock \in 0..MaxTime /\ trouble \in 0..MaxTrouble
  /\ created \in [Alert -> (0..MaxTime) \union {None}]
  /\ runs \subseteq Day /\ stored \subseteq Day \X Alert /\ total \in [Day -> Nat]
  /\ w \in [Proc -> Worker]
  /\ \A p \in Proc :
       /\ w[p].pc \in Processing <=> w[p].event # None
       /\ w[p].pc \in {"insert", "source"} \union Streaming => w[p].day # None
       /\ w[p].pc \in Streaming => w[p].cutoff # None

Init ==
  /\ clock = 0 /\ trouble = 0
  /\ created = [a \in Alert |-> None]
  /\ runs = {} /\ stored = {} /\ total = [d \in Day |-> 0]
  /\ w = [p \in Proc |-> Blank("down")]

At(p, pc) == w[p].pc = pc
Becomes(p, r) == w' = [w EXCEPT ![p] = r]

-----------------------------------------------------------------------------
(* The world *)

\* The vendor raises an alert.
Create(a) ==
  /\ created[a] = None
  /\ MarketOpen(clock)
  /\ created' = [created EXCEPT ![a] = clock]
  /\ UNCHANGED <<clock, tables, w, trouble>>

\* The night is longer than any sleep of the loop: a market does not open while a source
\* of the day before still streams.
Tick ==
  /\ clock < MaxTime
  /\ MarketOpen(clock + 1) =>
       \A p \in Proc : w[p].day # None => w[p].day = (clock + 1) \div DayLength
  /\ clock' = clock + 1
  /\ UNCHANGED <<created, tables, w, trouble>>

-----------------------------------------------------------------------------
(* The worker loop *)

Boot(p) ==
  /\ At(p, "down")
  /\ Becomes(p, Blank("ensure"))
  /\ UNCHANGED <<clock, created, tables, trouble>>

\* _ensure_run: the run of today is looked up.
EnsureRun(p) ==
  /\ At(p, "ensure")
  /\ Becomes(p, [w[p] EXCEPT !.day = Today, !.pc = IF Today \in runs THEN "source" ELSE "insert"])
  /\ UNCHANGED <<clock, created, tables, trouble>>

\* What a restart keeps of the process: nothing but its store.
\* Mutant: the seen set outlives the source.
RestartedSeen(p) == [Blank("ensure") EXCEPT !.seen = w[p].seen]
Restarted(p) == Blank("ensure")

\* start_run: the insert fails if the other process was first.
InsertRun(p) ==
  /\ At(p, "insert")
  /\ runs' = runs \union {w[p].day}
  /\ Becomes(p, IF w[p].day \in runs THEN Restarted(p) ELSE [w[p] EXCEPT !.pc = "source"])
  /\ UNCHANGED <<clock, created, stored, total, trouble>>

\* Client, source, stages, pipeline and watcher are built, and stream() starts.
NewSource(p) ==
  /\ At(p, "source")
  /\ Becomes(p, [w[p] EXCEPT !.pc = "poll", !.cutoff = clock - Backfill])
  /\ UNCHANGED <<clock, created, tables, trouble>>

\* _close_at_utc_rollover: the watcher closes the source once the day is over.
Rollover(p) ==
  /\ w[p].pc \in Streaming
  /\ w[p].day # Today
  /\ ~w[p].closed
  /\ Becomes(p, [w[p] EXCEPT !.closed = TRUE])
  /\ UNCHANGED <<clock, created, tables, trouble>>

\* Mutant: the run is looked up once per process.
StreamEndsPinned(p) ==
  /\ At(p, "poll")
  /\ w[p].closed
  /\ Becomes(p, [Blank("source") EXCEPT !.day = w[p].day])
  /\ UNCHANGED <<clock, created, tables, trouble>>

\* The stream of a closed source ends, pipeline.run returns, and the loop goes round.
StreamEnds(p) ==
  /\ At(p, "poll")
  /\ w[p].closed
  /\ Becomes(p, Restarted(p))
  /\ UNCHANGED <<clock, created, tables, trouble>>

\* An event is done with, and control returns to the loop over the records.
\* Mutant: the event stays in hand.
ResumedHolding(p) == [w[p] EXCEPT !.pc = "convert"]
Resumed(p) == [w[p] EXCEPT !.pc = "convert", !.event = None, !.fresh = FALSE, !.count = 0]

\* An exception anywhere in the body but a fetch: the batch is discarded, the source
\* closed, and the loop starts over after a pause.
Fail(p) ==
  /\ trouble < MaxTrouble
  /\ w[p].pc \in {"ensure", "insert", "source"} \union Processing
  /\ trouble' = trouble + 1
  /\ Becomes(p, Restarted(p))
  /\ UNCHANGED <<clock, created, tables>>

Crash(p) ==
  /\ trouble < MaxTrouble
  /\ ~At(p, "down")
  /\ trouble' = trouble + 1
  /\ Becomes(p, Blank("down"))
  /\ UNCHANGED <<clock, created, tables>>

-----------------------------------------------------------------------------
(* The polling source *)

\* A pass starts when the market is open, over LIVE_TICKERS and the hot names.
Poll(p) ==
  /\ At(p, "poll")
  /\ ~w[p].closed
  /\ MarketOpen(clock)
  /\ \E hot \in SUBSET (Ticker \ Base) :
       Becomes(p, [w[p] EXCEPT !.pc = "next", !.todo = Base \union hot])
  /\ UNCHANGED <<clock, created, tables, trouble>>

\* The cutoff of a ticker that has not been polled; a later poll has none.
Cutoff(p, t) ==
  IF w[p].first[t] # None THEN None
  ELSE IF w[p].firstPass THEN w[p].cutoff ELSE clock - Backfill

\* The request for one ticker is sent.
Ask(p) ==
  /\ At(p, "next")
  /\ ~w[p].closed
  /\ \E t \in w[p].todo :
       Becomes(p, [w[p] EXCEPT
         !.pc = "reply", !.todo = @ \ {t}, !.ticker = t, !.floor = Cutoff(p, t),
         !.first[t] = IF @ = None THEN Cutoff(p, t) ELSE @])
  /\ UNCHANGED <<clock, created, tables, trouble>>

\* The vendor answers with the alerts of the ticker.
Reply(p) ==
  /\ At(p, "reply")
  /\ Becomes(p, [w[p] EXCEPT
       !.pc = "convert",
       !.records = {a \in Alert : TickerOf[a] = w[p].ticker /\ created[a] # None}])
  /\ UNCHANGED <<clock, created, tables, trouble>>

\* _fetch swallows the error: no records, and the ticker counts as polled.
ReplyFails(p) ==
  /\ trouble < MaxTrouble
  /\ At(p, "reply")
  /\ trouble' = trouble + 1
  /\ Becomes(p, [w[p] EXCEPT !.pc = "convert"])
  /\ UNCHANGED <<clock, created, tables>>

\* _to_raw_print drops an alert it has seen, marks the others seen, and drops those before
\* the cutoff; what is left goes to the pipeline.
Convert(p) ==
  /\ At(p, "convert")
  /\ \E a \in w[p].records :
       LET emitted == a \notin w[p].seen /\ (w[p].floor = None \/ w[p].floor <= created[a])
       IN  Becomes(p, [w[p] EXCEPT
             !.records = @ \ {a}, !.seen = @ \union {a},
             !.event = IF emitted THEN a ELSE None,
             !.pc = IF emitted THEN "stages" ELSE "convert"])
  /\ UNCHANGED <<clock, created, tables, trouble>>

\* Mutant: a record is marked seen before it is parsed.
BadRecordSeen(p) ==
  /\ trouble < MaxTrouble
  /\ At(p, "convert")
  /\ \E a \in w[p].records :
       Becomes(p, [w[p] EXCEPT !.records = @ \ {a}, !.seen = @ \union {a}])
  /\ trouble' = trouble + 1
  /\ UNCHANGED <<clock, created, tables>>

\* A record that does not parse is dropped unmarked, "so a transient bad record can recover".
BadRecord(p) ==
  /\ trouble < MaxTrouble
  /\ At(p, "convert")
  /\ \E a \in w[p].records : Becomes(p, [w[p] EXCEPT !.records = @ \ {a}])
  /\ trouble' = trouble + 1
  /\ UNCHANGED <<clock, created, tables>>

\* The records of the ticker are used up.
TickerDone(p) ==
  /\ At(p, "convert")
  /\ w[p].records = {}
  /\ Becomes(p, [w[p] EXCEPT !.pc = "next", !.ticker = None, !.floor = None])
  /\ UNCHANGED <<clock, created, tables, trouble>>

\* The pass ends, also early when the source was closed; an overfull seen set is emptied.
EndPass(p) ==
  /\ At(p, "next")
  /\ w[p].todo = {} \/ w[p].closed
  /\ Becomes(p, [w[p] EXCEPT
       !.pc = "poll", !.todo = {}, !.firstPass = FALSE,
       !.seen = IF Cardinality(@) > SeenCap THEN {} ELSE @])
  /\ UNCHANGED <<clock, created, tables, trouble>>

-----------------------------------------------------------------------------
(* Pipeline and store *)

\* Every stage returns; add puts the row into a buffer of one.
Stages(p) ==
  /\ At(p, "stages")
  /\ Becomes(p, [w[p] EXCEPT !.pc = "dedupe"])
  /\ UNCHANGED <<clock, created, tables, trouble>>

\* The transaction reads which keys are stored, and the counter of the run.
Dedupe(p) ==
  /\ At(p, "dedupe")
  /\ Becomes(p, [w[p] EXCEPT
       !.pc = "commit", !.fresh = <<w[p].day, w[p].event>> \notin stored,
       !.count = total[w[p].day]])
  /\ UNCHANGED <<clock, created, tables, trouble>>

\* Mutant: the rows are counted before the duplicates are taken out.
CommitCountsAll(p) ==
  /\ At(p, "commit")
  /\ stored' = stored \union {<<w[p].day, w[p].event>>}
  /\ total' = [total EXCEPT ![w[p].day] = w[p].count + 1]
  /\ Becomes(p, Resumed(p))
  /\ UNCHANGED <<clock, created, runs, trouble>>

\* A duplicate writes nothing.  A new row is inserted with its counter, or the unique key
\* refuses it because the other process was first, and the loop starts over.
Commit(p) ==
  /\ At(p, "commit")
  /\ LET row == <<w[p].day, w[p].event>>
     IN  \/ /\ ~w[p].fresh
            /\ Becomes(p, Resumed(p))
            /\ UNCHANGED <<stored, total>>
         \/ /\ w[p].fresh /\ row \notin stored
            /\ stored' = stored \union {row}
            /\ total' = [total EXCEPT ![w[p].day] = w[p].count + 1]
            /\ Becomes(p, Resumed(p))
         \/ /\ w[p].fresh /\ row \in stored
            /\ Becomes(p, Restarted(p))
            /\ UNCHANGED <<stored, total>>
  /\ UNCHANGED <<clock, created, runs, trouble>>

-----------------------------------------------------------------------------
Step(p) ==
  \/ Boot(p) \/ EnsureRun(p) \/ InsertRun(p) \/ NewSource(p) \/ StreamEnds(p)
  \/ Poll(p) \/ Ask(p) \/ Reply(p) \/ Convert(p) \/ TickerDone(p) \/ EndPass(p)
  \/ Stages(p) \/ Dedupe(p) \/ Commit(p)

Trouble(p) == Fail(p) \/ Crash(p) \/ ReplyFails(p) \/ BadRecord(p)

Next ==
  \/ Tick
  \/ \E a \in Alert : Create(a)
  \/ \E p \in Proc : Step(p) \/ Rollover(p) \/ Trouble(p)

Spec == Init /\ [][Next]_vars
FairSpec ==
  /\ Spec
  /\ WF_vars(Tick)
  /\ \A p \in Proc : WF_vars(Step(p)) /\ WF_vars(Rollover(p))

-----------------------------------------------------------------------------
(* An alert a live source has marked seen and had to emit is stored in the source's run, or
   is the one in hand: dropping a failed batch loses nothing the source would not emit
   again, because the source is dropped with it (sqlite_store.py:463). *)
SeenStored ==
  \A p \in Proc : \A a \in w[p].seen :
    /\ w[p].pc \in Streaming
    /\ w[p].first[TickerOf[a]] # None /\ w[p].first[TickerOf[a]] <= created[a]
    => a = w[p].event \/ <<w[p].day, a>> \in stored

\* A single process writes.
Alone == \A p, q \in Proc : p = q

(* The counter of a run never exceeds its rows, whatever was replayed or raced for, and
   equals them when a single process writes (sqlite_store.py:491). *)
CountsRows ==
  \A d \in Day :
    /\ total[d] <= Cardinality(RowsOf(d))
    /\ Alone => total[d] = Cardinality(RowsOf(d))

(* An alert of LIVE_TICKERS is stored, through failures, restarts and bad records, unless a
   source was started so late that the alert is before its backfill window. *)
Ingested ==
  \A a \in Alert : TickerOf[a] \in Base =>
    (created[a] # None) ~>
      \/ \E d \in Day : <<d, a>> \in stored
      \/ \E p \in Proc : w[p].cutoff # None /\ created[a] # None /\ created[a] < w[p].cutoff

(* A process leaves the run of a day that has ended, whatever it was doing at midnight:
   the run id must not stay "at the day the worker started" (worker.py:128). *)
RollsOver ==
  \A p \in Proc : (w[p].day # None /\ w[p].day # Today) ~> (w[p].day \in {None, Today})

(* "The backfill window applies to a ticker's FIRST poll only ... so adding it never floods
   the run with old alerts" (flow_poll.py:125): what is emitted is not older than the
   window measured at the first poll of its ticker. *)
NoFlood ==
  \A p \in Proc : w[p].event # None =>
    w[p].first[TickerOf[w[p].event]] <= created[w[p].event]
=============================================================================
