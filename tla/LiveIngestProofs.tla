-------------------------- MODULE LiveIngestProofs --------------------------
(***************************************************************************)
(* Proofs about LiveIngest, for any number of processes, tickers, alerts,  *)
(* days, failures and crashes.                                             *)
(***************************************************************************)
EXTENDS LiveIngest, TLAPS, FiniteSetTheorems

(* What holds of the record r of a process. *)

\* Which fields are in use where.
Shaped(r) ==
  /\ r.pc \in Processing <=> r.event # None
  /\ r.pc \in {"insert", "source"} \union Streaming => r.day # None
  /\ r.pc \in Streaming => r.cutoff # None
  /\ r.pc \notin {"convert"} \union Processing => r.records = {}
  /\ r.pc \notin Streaming => r.seen = {}

\* The records of a reply belong to the ticker asked for, whose first poll is on record.
Replied(r) ==
  /\ \A a \in r.records : TickerOf[a] = r.ticker
  /\ \A a \in r.records \union r.seen : created[a] # None
  /\ r.pc \in {"reply", "convert"} \union Processing =>
       /\ r.ticker \in Ticker /\ r.first[r.ticker] # None
       /\ r.floor # None => r.floor = r.first[r.ticker]

\* What has been seen is of a ticker that was polled, and stored or in hand if it was due.
Seen(r) ==
  \A a \in r.seen :
    /\ r.first[TickerOf[a]] # None
    /\ r.first[TickerOf[a]] <= created[a] => a = r.event \/ <<r.day, a>> \in stored

\* What a transaction has read stays true, or true enough, until it commits.
Read(r) ==
  r.pc = "commit" =>
    /\ ~r.fresh => <<r.day, r.event>> \in stored
    /\ r.count <= Cardinality(RowsOf(r.day))
    /\ Alone => r.count = total[r.day]

Good(r) == Shaped(r) /\ Replied(r) /\ Seen(r) /\ Read(r)

IInv == TypeOK /\ CountsRows /\ \A p \in Proc : Good(w[p])

-----------------------------------------------------------------------------
LEMMA DayFacts == \A t \in 0..MaxTime : t \div DayLength \in Day
<1> SUFFICES ASSUME NEW t \in 0..MaxTime PROVE t \div DayLength \in 0..(MaxTime \div DayLength)
  BY DEF Day
<1>1. /\ t \in Nat /\ MaxTime \in Nat /\ t <= MaxTime /\ DayLength \in Nat /\ DayLength > 0
  BY LimitsAssumption
<1> QED BY <1>1

LEMMA Nones == None \notin Int /\ None \notin Ticker /\ None \notin Alert /\ None \notin Day
BY WorldAssumption DEF Day

(* The rows of a run are finitely many. *)
LEMMA Rows ==
  ASSUME NEW d \in Day, stored \subseteq Day \X Alert
  PROVE  IsFiniteSet(RowsOf(d)) /\ Cardinality(RowsOf(d)) \in Nat
<1>1. RowsOf(d) \in SUBSET Alert
  BY DEF RowsOf
<1> QED BY <1>1, WorldAssumption, FS_Subset, FS_CardinalityType

(* A process that starts over holds nothing. *)
LEMMA BlankGood ==
  ASSUME NEW s \in {"down", "ensure"}
  PROVE  Blank(s) \in Worker /\ Good(Blank(s))
<1>1. Blank(s) \in Worker
  BY DEF Blank, Worker
<1>2. /\ Blank(s).pc = s /\ Blank(s).event = None /\ Blank(s).seen = {}
      /\ Blank(s).records = {}
  BY DEF Blank
<1> QED BY <1>1, <1>2 DEF Good, Shaped, Replied, Seen, Read, Processing, Streaming

LEMMA InitIInv == Init => IInv
<1> SUFFICES ASSUME Init PROVE IInv
  OBVIOUS
<1>1. /\ 0 \in 0..MaxTime /\ 0 \in 0..MaxTrouble
  BY LimitsAssumption
<1>2. \A p \in Proc : w[p] \in Worker /\ Good(w[p])
  BY BlankGood DEF Init
<1>3. w \in [Proc -> Worker]
  BY <1>2 DEF Init
<1>4. TypeOK
  BY <1>1, <1>2, <1>3 DEF Init, TypeOK, Good, Shaped
<1>5. \A d \in Day : RowsOf(d) = {} /\ total[d] = 0
  BY DEF Init, RowsOf
<1>6. CountsRows
  BY <1>5, FS_EmptySet DEF CountsRows
<1> QED BY <1>2, <1>4, <1>6 DEF IInv

(* A step of one process that leaves the tables and the alerts alone. *)
LEMMA LocalStep ==
  ASSUME IInv, NEW p \in Proc, NEW r \in Worker, Becomes(p, r), Good(r),
         UNCHANGED <<clock, created, stored, total>>,
         trouble' \in 0..MaxTrouble, runs' \subseteq Day
  PROVE  IInv'
<1>1. w'[p] = r /\ \A q \in Proc : q # p => w'[q] = w[q]
  BY DEF Becomes, IInv, TypeOK
<1>2. w' \in [Proc -> Worker]
  BY DEF Becomes, IInv, TypeOK
<1>3. \A q \in Proc : Good(w'[q])
  BY <1>1 DEF IInv
<1>4. \A q \in Proc : Good(w[q])'
  BY <1>3 DEF Good, Shaped, Replied, Seen, Read, RowsOf, Alone
<1>5. TypeOK'
  BY <1>2, <1>3 DEF IInv, TypeOK, Good, Shaped
<1>6. CountsRows'
  BY DEF IInv, CountsRows, RowsOf, Alone
<1> QED BY <1>4, <1>5, <1>6 DEF IInv

LEMMA Still ==
  ASSUME IInv, UNCHANGED <<clock, created, tables>>
  PROVE  UNCHANGED <<clock, created, stored, total>> /\ runs' \subseteq Day
BY DEF IInv, TypeOK, tables

LEMMA MoreTrouble == ASSUME IInv, trouble < MaxTrouble PROVE trouble + 1 \in 0..MaxTrouble
BY LimitsAssumption DEF IInv, TypeOK

LEMMA Held ==
  ASSUME IInv, NEW p \in Proc
  PROVE  w[p] \in Worker /\ Good(w[p]) /\ trouble \in 0..MaxTrouble
BY DEF IInv, TypeOK

-----------------------------------------------------------------------------
(* The worker loop *)

LEMMA BootInv == ASSUME IInv, NEW p \in Proc, Boot(p) PROVE IInv'
BY BlankGood, Still, Held, LocalStep DEF Boot

LEMMA StreamEndsInv == ASSUME IInv, NEW p \in Proc, StreamEnds(p) PROVE IInv'
BY BlankGood, Still, Held, LocalStep DEF StreamEnds, Restarted

LEMMA FailInv == ASSUME IInv, NEW p \in Proc, Fail(p) PROVE IInv'
BY BlankGood, Still, MoreTrouble, LocalStep DEF Fail, Restarted

LEMMA CrashInv == ASSUME IInv, NEW p \in Proc, Crash(p) PROVE IInv'
BY BlankGood, Still, MoreTrouble, LocalStep DEF Crash

LEMMA EnsureRunInv == ASSUME IInv, NEW p \in Proc, EnsureRun(p) PROVE IInv'
<1> DEFINE s == IF Today \in runs THEN "source" ELSE "insert"
           r == [w[p] EXCEPT !.day = Today, !.pc = s]
<1>1. w[p] \in Worker /\ w[p].pc = "ensure" /\ Good(w[p])
  BY Held DEF EnsureRun, At
<1>2. Today \in Day
  BY DayFacts DEF IInv, TypeOK, Today
<1>3. s \in {"source", "insert"}
  OBVIOUS
<1>4. Becomes(p, r) /\ UNCHANGED <<clock, created, tables, trouble>>
  BY DEF EnsureRun
<1>5. r \in Worker /\ Good(r)
  <2> HIDE DEF s
  <2>1. /\ r \in Worker /\ r.pc = s /\ r.day # None /\ r.event = w[p].event
        /\ r.seen = w[p].seen /\ r.records = w[p].records
    BY <1>1, <1>2, <1>3, Nones DEF Worker
  <2> HIDE DEF r
  <2> QED BY <1>1, <1>3, <2>1 DEF Good, Shaped, Replied, Seen, Read, Streaming, Processing
<1> HIDE DEF r
<1> QED BY <1>4, <1>5, Held, Still, LocalStep

LEMMA InsertRunInv == ASSUME IInv, NEW p \in Proc, InsertRun(p) PROVE IInv'
<1> DEFINE s == [w[p] EXCEPT !.pc = "source"]
<1>1. w[p] \in Worker /\ w[p].pc = "insert" /\ Good(w[p])
  BY Held DEF InsertRun, At
<1>2. s \in Worker /\ Good(s)
  <2>1. /\ s \in Worker /\ s.pc = "source" /\ s.day = w[p].day /\ s.event = w[p].event
        /\ s.seen = w[p].seen /\ s.records = w[p].records
    BY <1>1 DEF Worker
  <2> HIDE DEF s
  <2> QED BY <1>1, <2>1 DEF Good, Shaped, Replied, Seen, Read, Streaming, Processing
<1>3. w[p].day \in Day
  BY <1>1 DEF Worker, Good, Shaped
<1>4. /\ UNCHANGED <<clock, created, stored, total, trouble>> /\ runs' \subseteq Day
      /\ Becomes(p, Blank("ensure")) \/ Becomes(p, s)
  BY <1>3 DEF InsertRun, Restarted, IInv, TypeOK
<1> HIDE DEF s
<1> QED BY <1>2, <1>4, BlankGood, Held, LocalStep

LEMMA NewSourceInv == ASSUME IInv, NEW p \in Proc, NewSource(p) PROVE IInv'
<1> DEFINE r == [w[p] EXCEPT !.pc = "poll", !.cutoff = clock - Backfill]
<1>1. w[p] \in Worker /\ w[p].pc = "source" /\ Good(w[p])
  BY Held DEF NewSource, At
<1>2. clock - Backfill \in Int
  BY LimitsAssumption DEF IInv, TypeOK
<1>3. Becomes(p, r) /\ UNCHANGED <<clock, created, tables, trouble>>
  BY DEF NewSource
<1>4. r \in Worker /\ Good(r)
  <2>1. /\ r \in Worker /\ r.pc = "poll" /\ r.day = w[p].day /\ r.cutoff # None
        /\ r.event = w[p].event /\ r.seen = w[p].seen /\ r.records = w[p].records
    BY <1>1, <1>2, Nones DEF Worker, Streaming
  <2> HIDE DEF r
  <2> QED BY <1>1, <2>1 DEF Good, Shaped, Replied, Seen, Read, Streaming, Processing
<1> HIDE DEF r
<1> QED BY <1>3, <1>4, Held, Still, LocalStep

-----------------------------------------------------------------------------
(* The source *)

LEMMA RolloverInv == ASSUME IInv, NEW p \in Proc, Rollover(p) PROVE IInv'
<1> DEFINE r == [w[p] EXCEPT !.closed = TRUE]
<1>1. w[p] \in Worker /\ Good(w[p])
  BY Held
<1>2. Becomes(p, r) /\ UNCHANGED <<clock, created, tables, trouble>>
  BY DEF Rollover
<1>3. r \in Worker /\ Good(r)
  <2>1. /\ r \in Worker /\ r.pc = w[p].pc /\ r.day = w[p].day /\ r.cutoff = w[p].cutoff
        /\ r.first = w[p].first /\ r.seen = w[p].seen /\ r.ticker = w[p].ticker
        /\ r.floor = w[p].floor /\ r.records = w[p].records /\ r.event = w[p].event
        /\ r.fresh = w[p].fresh /\ r.count = w[p].count
    BY <1>1 DEF Worker
  <2> HIDE DEF r
  <2> QED BY <1>1, <2>1 DEF Good, Shaped, Replied, Seen, Read
<1> HIDE DEF r
<1> QED BY <1>2, <1>3, Held, Still, LocalStep

LEMMA PollInv == ASSUME IInv, NEW p \in Proc, Poll(p) PROVE IInv'
<1>1. PICK hot \in SUBSET (Ticker \ Base) :
        Becomes(p, [w[p] EXCEPT !.pc = "next", !.todo = Base \union hot])
  BY DEF Poll
<1> DEFINE r == [w[p] EXCEPT !.pc = "next", !.todo = Base \union hot]
<1>2. w[p] \in Worker /\ w[p].pc = "poll" /\ Good(w[p])
  BY Held DEF Poll, At
<1>3. Becomes(p, r) /\ UNCHANGED <<clock, created, tables, trouble>>
  BY <1>1 DEF Poll
<1>4. r \in Worker /\ Good(r)
  <2>1. /\ r \in Worker /\ r.pc = "next" /\ r.day = w[p].day /\ r.cutoff = w[p].cutoff
        /\ r.first = w[p].first /\ r.seen = w[p].seen /\ r.records = w[p].records
        /\ r.event = w[p].event
    <3>1. Base \union hot \in SUBSET Ticker
      BY WorldAssumption
    <3> QED BY <1>2, <3>1 DEF Worker, Streaming
  <2> HIDE DEF r
  <2> QED BY <1>2, <2>1 DEF Good, Shaped, Replied, Seen, Read, Streaming, Processing
<1> HIDE DEF r
<1> QED BY <1>3, <1>4, Held, Still, LocalStep

LEMMA CutoffType ==
  ASSUME IInv, NEW p \in Proc, NEW t \in Ticker, w[p].pc = "next"
  PROVE  /\ Cutoff(p, t) \in Int \union {None}
         /\ w[p].first[t] = None <=> Cutoff(p, t) # None
<1>1. w[p] \in Worker /\ w[p].cutoff # None
  BY Held DEF Good, Shaped, Streaming
<1>2. w[p].cutoff \in Int /\ clock - Backfill \in Int /\ w[p].firstPass \in BOOLEAN
  BY <1>1, LimitsAssumption DEF Worker, IInv, TypeOK
<1> QED BY <1>2, Nones DEF Cutoff

LEMMA AskInv == ASSUME IInv, NEW p \in Proc, Ask(p) PROVE IInv'
<1>1. PICK t \in w[p].todo : Becomes(p, [w[p] EXCEPT
         !.pc = "reply", !.todo = @ \ {t}, !.ticker = t, !.floor = Cutoff(p, t),
         !.first[t] = IF @ = None THEN Cutoff(p, t) ELSE @])
  BY DEF Ask
<1>2. /\ w[p] \in Worker /\ w[p].pc = "next" /\ Good(w[p]) /\ t \in Ticker
      /\ w[p].todo \ {t} \in SUBSET Ticker
  BY Held DEF Ask, At, Worker
<1>3. /\ Cutoff(p, t) \in Int \union {None}
      /\ w[p].first[t] = None <=> Cutoff(p, t) # None
  BY <1>2, CutoffType
<1> DEFINE f == [w[p].first EXCEPT ![t] = IF @ = None THEN Cutoff(p, t) ELSE @]
           r == [w[p] EXCEPT !.pc = "reply", !.todo = @ \ {t}, !.ticker = t,
                             !.floor = Cutoff(p, t), !.first = f]
<1>4. /\ f \in [Ticker -> Int \union {None}] /\ f[t] # None
      /\ \A u \in Ticker : w[p].first[u] # None => f[u] = w[p].first[u]
      /\ Cutoff(p, t) # None => Cutoff(p, t) = f[t]
  BY <1>2, <1>3 DEF Worker
<1>5. Becomes(p, r) /\ UNCHANGED <<clock, created, tables, trouble>>
  BY <1>1, <1>2 DEF Worker, Ask
<1>6. r \in Worker /\ Good(r)
  <2> HIDE DEF f
  <2>1. /\ r \in Worker /\ r.pc = "reply" /\ r.day = w[p].day /\ r.cutoff = w[p].cutoff
        /\ r.first = f /\ r.seen = w[p].seen /\ r.records = w[p].records
        /\ r.event = w[p].event /\ r.ticker = t /\ r.floor = Cutoff(p, t)
    BY <1>2, <1>3, <1>4 DEF Worker, Streaming
  <2>2. \A a \in w[p].seen : TickerOf[a] \in Ticker
    BY <1>2, WorldAssumption DEF Worker
  <2> HIDE DEF r
  <2> QED BY <1>2, <1>4, <2>1, <2>2 DEF Good, Shaped, Replied, Seen, Read, Streaming, Processing
<1> HIDE DEF r
<1> QED BY <1>5, <1>6, Held, Still, LocalStep

LEMMA ReplyInv == ASSUME IInv, NEW p \in Proc, Reply(p) PROVE IInv'
<1> DEFINE R == {a \in Alert : TickerOf[a] = w[p].ticker /\ created[a] # None}
           r == [w[p] EXCEPT !.pc = "convert", !.records = R]
<1>1. w[p] \in Worker /\ w[p].pc = "reply" /\ Good(w[p])
  BY Held DEF Reply, At
<1>2. Becomes(p, r) /\ UNCHANGED <<clock, created, tables, trouble>>
  BY DEF Reply
<1>3. r \in Worker /\ Good(r)
  <2>1. /\ r \in Worker /\ r.pc = "convert" /\ r.day = w[p].day /\ r.cutoff = w[p].cutoff
        /\ r.first = w[p].first /\ r.seen = w[p].seen /\ r.records = R
        /\ r.event = w[p].event /\ r.ticker = w[p].ticker /\ r.floor = w[p].floor
    BY <1>1 DEF Worker, Streaming
  <2>2. \A a \in R : TickerOf[a] = w[p].ticker /\ created[a] # None
    OBVIOUS
  <2> HIDE DEF r, R
  <2> QED BY <1>1, <2>1, <2>2 DEF Good, Shaped, Replied, Seen, Read, Streaming, Processing
<1> HIDE DEF r
<1> QED BY <1>2, <1>3, Held, Still, LocalStep

LEMMA ReplyFailsInv == ASSUME IInv, NEW p \in Proc, ReplyFails(p) PROVE IInv'
<1> DEFINE r == [w[p] EXCEPT !.pc = "convert"]
<1>1. w[p] \in Worker /\ w[p].pc = "reply" /\ Good(w[p])
  BY Held DEF ReplyFails, At
<1>2. /\ Becomes(p, r) /\ UNCHANGED <<clock, created, tables>>
      /\ trouble < MaxTrouble /\ trouble' = trouble + 1
  BY DEF ReplyFails
<1>3. r \in Worker /\ Good(r)
  <2>1. /\ r \in Worker /\ r.pc = "convert" /\ r.day = w[p].day /\ r.cutoff = w[p].cutoff
        /\ r.first = w[p].first /\ r.seen = w[p].seen /\ r.records = w[p].records
        /\ r.event = w[p].event /\ r.ticker = w[p].ticker /\ r.floor = w[p].floor
    BY <1>1 DEF Worker, Streaming
  <2> HIDE DEF r
  <2> QED BY <1>1, <2>1 DEF Good, Shaped, Replied, Seen, Read, Streaming, Processing
<1> HIDE DEF r
<1> QED BY <1>2, <1>3, MoreTrouble, Still, LocalStep

(* An alert that is dropped was seen before, or is before the cutoff of the first poll. *)
LEMMA ConvertInv == ASSUME IInv, NEW p \in Proc, Convert(p) PROVE IInv'
<1>1. PICK a \in w[p].records :
       LET emitted == a \notin w[p].seen /\ (w[p].floor = None \/ w[p].floor <= created[a])
       IN  Becomes(p, [w[p] EXCEPT
             !.records = @ \ {a}, !.seen = @ \union {a},
             !.event = IF emitted THEN a ELSE None,
             !.pc = IF emitted THEN "stages" ELSE "convert"])
  BY DEF Convert
<1>2. w[p] \in Worker /\ w[p].pc = "convert" /\ Good(w[p]) /\ a \in Alert /\ a # None
  BY Held, Nones DEF Convert, At, Worker
<1> DEFINE emitted == a \notin w[p].seen /\ (w[p].floor = None \/ w[p].floor <= created[a])
           R == w[p].records \ {a}
           S == w[p].seen \union {a}
           drop == [w[p] EXCEPT !.records = R, !.seen = S, !.event = None, !.pc = "convert"]
           emit == [w[p] EXCEPT !.records = R, !.seen = S, !.event = a, !.pc = "stages"]
<1>3. UNCHANGED <<clock, created, tables, trouble>>
  BY DEF Convert
<1>4. /\ R \in SUBSET Alert /\ S \in SUBSET Alert
      /\ TickerOf[a] = w[p].ticker /\ created[a] # None
      /\ w[p].event = None /\ w[p].day # None /\ w[p].cutoff # None
      /\ \A b \in R : TickerOf[b] = w[p].ticker
      /\ \A b \in R \union S : created[b] # None
      /\ w[p].ticker \in Ticker /\ w[p].first[w[p].ticker] # None
      /\ w[p].floor # None => w[p].floor = w[p].first[w[p].ticker]
  BY <1>2 DEF Worker, Good, Shaped, Replied, Processing, Streaming
<1>5. \A b \in w[p].seen : w[p].first[TickerOf[b]] <= created[b] => <<w[p].day, b>> \in stored
  BY <1>2, <1>4, Nones DEF Good, Seen, Worker
<1>6. \A b \in S : w[p].first[TickerOf[b]] # None
  BY <1>2, <1>4 DEF Good, Seen
<1>7. CASE emitted
  <2>1. Becomes(p, emit)
    BY <1>1, <1>7
  <2>2. /\ emit \in Worker /\ emit.pc = "stages" /\ emit.day = w[p].day
        /\ emit.cutoff = w[p].cutoff /\ emit.first = w[p].first /\ emit.seen = S
        /\ emit.records = R /\ emit.event = a /\ emit.ticker = w[p].ticker
        /\ emit.floor = w[p].floor
    <3> HIDE DEF R, S
    <3> QED BY <1>2, <1>4 DEF Worker, Streaming, Processing
  <2>3. \A b \in S : b = a \/ b \in w[p].seen
    OBVIOUS
  <2>4. Good(emit)
    <3> HIDE DEF emit, R, S
    <3>1. Seen(emit)
      BY <1>5, <1>6, <2>2, <2>3 DEF Seen
    <3> QED BY <1>2, <1>4, <2>2, <3>1 DEF Good, Shaped, Replied, Read, Streaming, Processing
  <2> HIDE DEF emit
  <2> QED BY <1>3, <2>1, <2>2, <2>4, Held, Still, LocalStep
<1>8. CASE ~emitted
  <2>1. Becomes(p, drop)
    BY <1>1, <1>8
  <2>2. /\ drop \in Worker /\ drop.pc = "convert" /\ drop.day = w[p].day
        /\ drop.cutoff = w[p].cutoff /\ drop.first = w[p].first /\ drop.seen = S
        /\ drop.records = R /\ drop.event = None /\ drop.ticker = w[p].ticker
        /\ drop.floor = w[p].floor
    <3> HIDE DEF R, S
    <3> QED BY <1>2, <1>4 DEF Worker, Streaming, Processing
  <2>3. \A b \in S : b \in w[p].seen \/ ~(w[p].first[TickerOf[b]] <= created[b])
    BY <1>4, <1>8
  <2>4. Good(drop)
    <3> HIDE DEF drop, R, S
    <3>1. Seen(drop)
      BY <1>5, <1>6, <2>2, <2>3 DEF Seen
    <3> QED BY <1>2, <1>4, <2>2, <3>1 DEF Good, Shaped, Replied, Read, Streaming, Processing
  <2> HIDE DEF drop
  <2> QED BY <1>3, <2>1, <2>2, <2>4, Held, Still, LocalStep
<1> QED BY <1>7, <1>8

LEMMA BadRecordInv == ASSUME IInv, NEW p \in Proc, BadRecord(p) PROVE IInv'
<1>1. PICK a \in w[p].records : Becomes(p, [w[p] EXCEPT !.records = @ \ {a}])
  BY DEF BadRecord
<1> DEFINE R == w[p].records \ {a}
           r == [w[p] EXCEPT !.records = R]
<1>2. w[p] \in Worker /\ w[p].pc = "convert" /\ Good(w[p]) /\ R \subseteq w[p].records
  BY Held DEF BadRecord, At
<1>3. /\ Becomes(p, r) /\ UNCHANGED <<clock, created, tables>>
      /\ trouble < MaxTrouble /\ trouble' = trouble + 1
  BY <1>1, <1>2 DEF BadRecord, Worker
<1>4. r \in Worker /\ Good(r)
  <2> HIDE DEF R
  <2>1. R \in SUBSET Alert
    BY <1>2 DEF Worker
  <2>2. /\ r \in Worker /\ r.pc = "convert" /\ r.day = w[p].day /\ r.cutoff = w[p].cutoff
        /\ r.first = w[p].first /\ r.seen = w[p].seen /\ r.records = R
        /\ r.event = w[p].event /\ r.ticker = w[p].ticker /\ r.floor = w[p].floor
    BY <1>2, <2>1 DEF Worker, Streaming
  <2> HIDE DEF r
  <2> QED BY <1>2, <2>2 DEF Good, Shaped, Replied, Seen, Read, Streaming, Processing
<1> HIDE DEF r
<1> QED BY <1>3, <1>4, MoreTrouble, Still, LocalStep

LEMMA TickerDoneInv == ASSUME IInv, NEW p \in Proc, TickerDone(p) PROVE IInv'
<1> DEFINE r == [w[p] EXCEPT !.pc = "next", !.ticker = None, !.floor = None]
<1>1. w[p] \in Worker /\ w[p].pc = "convert" /\ Good(w[p]) /\ w[p].records = {}
  BY Held DEF TickerDone, At
<1>2. Becomes(p, r) /\ UNCHANGED <<clock, created, tables, trouble>>
  BY DEF TickerDone
<1>3. r \in Worker /\ Good(r)
  <2>1. /\ r \in Worker /\ r.pc = "next" /\ r.day = w[p].day /\ r.cutoff = w[p].cutoff
        /\ r.first = w[p].first /\ r.seen = w[p].seen /\ r.records = {}
        /\ r.event = w[p].event
    BY <1>1 DEF Worker, Streaming
  <2> HIDE DEF r
  <2> QED BY <1>1, <2>1 DEF Good, Shaped, Replied, Seen, Read, Streaming, Processing
<1> HIDE DEF r
<1> QED BY <1>2, <1>3, Held, Still, LocalStep

LEMMA EndPassInv == ASSUME IInv, NEW p \in Proc, EndPass(p) PROVE IInv'
<1> DEFINE S == IF Cardinality(w[p].seen) > SeenCap THEN {} ELSE w[p].seen
           r == [w[p] EXCEPT !.pc = "poll", !.todo = {}, !.firstPass = FALSE, !.seen = S]
<1>1. w[p] \in Worker /\ w[p].pc = "next" /\ Good(w[p]) /\ S \subseteq w[p].seen
  BY Held DEF EndPass, At
<1>2. Becomes(p, r) /\ UNCHANGED <<clock, created, tables, trouble>>
  BY <1>1 DEF EndPass, Worker
<1>3. r \in Worker /\ Good(r)
  <2> HIDE DEF S
  <2>1. S \in SUBSET Alert
    BY <1>1 DEF Worker
  <2>2. /\ r \in Worker /\ r.pc = "poll" /\ r.day = w[p].day /\ r.cutoff = w[p].cutoff
        /\ r.first = w[p].first /\ r.seen = S /\ r.records = w[p].records
        /\ r.event = w[p].event
    BY <1>1, <2>1 DEF Worker, Streaming
  <2> HIDE DEF r
  <2> QED BY <1>1, <2>2 DEF Good, Shaped, Replied, Seen, Read, Streaming, Processing
<1> HIDE DEF r
<1> QED BY <1>2, <1>3, Held, Still, LocalStep

-----------------------------------------------------------------------------
(* The store *)

LEMMA StagesInv == ASSUME IInv, NEW p \in Proc, Stages(p) PROVE IInv'
<1> DEFINE r == [w[p] EXCEPT !.pc = "dedupe"]
<1>1. w[p] \in Worker /\ w[p].pc = "stages" /\ Good(w[p])
  BY Held DEF Stages, At
<1>2. Becomes(p, r) /\ UNCHANGED <<clock, created, tables, trouble>>
  BY DEF Stages
<1>3. r \in Worker /\ Good(r)
  <2>1. /\ r \in Worker /\ r.pc = "dedupe" /\ r.day = w[p].day /\ r.cutoff = w[p].cutoff
        /\ r.first = w[p].first /\ r.seen = w[p].seen /\ r.records = w[p].records
        /\ r.event = w[p].event /\ r.ticker = w[p].ticker /\ r.floor = w[p].floor
    BY <1>1 DEF Worker, Streaming, Processing
  <2> HIDE DEF r
  <2> QED BY <1>1, <2>1 DEF Good, Shaped, Replied, Seen, Read, Streaming, Processing
<1> HIDE DEF r
<1> QED BY <1>2, <1>3, Held, Still, LocalStep

LEMMA DedupeInv == ASSUME IInv, NEW p \in Proc, Dedupe(p) PROVE IInv'
<1> DEFINE new == <<w[p].day, w[p].event>> \notin stored
           n == total[w[p].day]
           r == [w[p] EXCEPT !.pc = "commit", !.fresh = new, !.count = n]
<1>1. w[p] \in Worker /\ w[p].pc = "dedupe" /\ Good(w[p])
  BY Held DEF Dedupe, At
<1>2. Becomes(p, r) /\ UNCHANGED <<clock, created, tables, trouble>>
  BY DEF Dedupe
<1>3. w[p].day \in Day
  BY <1>1 DEF Worker, Good, Shaped, Streaming, Processing
<1>4. new \in BOOLEAN /\ n \in Nat /\ n <= Cardinality(RowsOf(w[p].day))
  BY <1>3 DEF IInv, TypeOK, CountsRows
<1>5. r \in Worker /\ Good(r)
  <2>1. ~new => <<w[p].day, w[p].event>> \in stored
    OBVIOUS
  <2>2. /\ r \in Worker /\ r.pc = "commit" /\ r.day = w[p].day /\ r.cutoff = w[p].cutoff
        /\ r.first = w[p].first /\ r.seen = w[p].seen /\ r.records = w[p].records
        /\ r.event = w[p].event /\ r.ticker = w[p].ticker /\ r.floor = w[p].floor
        /\ r.fresh = new /\ r.count = n
    <3> HIDE DEF new, n
    <3> QED BY <1>1, <1>4 DEF Worker, Streaming, Processing
  <2>3. Read(r)
    <3> HIDE DEF r
    <3> QED BY <1>4, <2>1, <2>2 DEF Read
  <2> HIDE DEF r, new, n
  <2> QED BY <1>1, <2>2, <2>3 DEF Good, Shaped, Replied, Seen, Streaming, Processing
<1> HIDE DEF r
<1> QED BY <1>2, <1>5, Held, Still, LocalStep

(* What a process goes on with once its event is stored. *)
LEMMA ResumedGood ==
  ASSUME IInv, NEW p \in Proc, w[p].pc = "commit"
  PROVE  /\ Resumed(p) \in Worker /\ Shaped(Resumed(p)) /\ Replied(Resumed(p))
         /\ Read(Resumed(p)) /\ Resumed(p).first = w[p].first /\ Resumed(p).seen = w[p].seen
         /\ Resumed(p).day = w[p].day /\ Resumed(p).event = None
<1> DEFINE r == Resumed(p)
<1>1. w[p] \in Worker /\ Good(w[p])
  BY Held
<1>2. /\ r \in Worker /\ r.pc = "convert" /\ r.day = w[p].day /\ r.cutoff = w[p].cutoff
      /\ r.first = w[p].first /\ r.seen = w[p].seen /\ r.records = w[p].records
      /\ r.event = None /\ r.ticker = w[p].ticker /\ r.floor = w[p].floor
  BY <1>1 DEF Resumed, Worker, Streaming
<1> HIDE DEF r
<1>3. Shaped(r) /\ Replied(r) /\ Read(r)
  BY <1>1, <1>2 DEF Good, Shaped, Replied, Read, Streaming, Processing
<1> QED BY <1>2, <1>3 DEF r

(* A new row: the others have read no more rows than there are now. *)
LEMMA InsertRow ==
  ASSUME IInv, NEW p \in Proc, w[p].pc = "commit", w[p].fresh,
         NEW d \in Day, d = w[p].day, NEW a \in Alert, a = w[p].event,
         <<d, a>> \notin stored, stored' = stored \union {<<d, a>>},
         total' = [total EXCEPT ![d] = w[p].count + 1],
         Becomes(p, Resumed(p)), UNCHANGED <<clock, created, runs, trouble>>
  PROVE  IInv'
<1>1. w[p] \in Worker /\ Good(w[p]) /\ stored \subseteq Day \X Alert
  BY Held DEF IInv, TypeOK
<1>2. w[p].count \in Nat
  BY <1>1 DEF Worker
<1>3. /\ w[p].count <= Cardinality(RowsOf(d))
      /\ Alone => w[p].count = total[d]
  BY <1>1 DEF Good, Read
<1>4. w'[p] = Resumed(p) /\ \A q \in Proc : q # p => w'[q] = w[q]
  BY DEF Becomes, IInv, TypeOK
<1>5. \A e \in Day \ {d} : RowsOf(e)' = RowsOf(e)
  BY DEF RowsOf
<1>6. RowsOf(d)' = RowsOf(d) \union {a} /\ a \notin RowsOf(d)
  BY <1>2 DEF RowsOf
<1>7. /\ Cardinality(RowsOf(d)') = Cardinality(RowsOf(d)) + 1
      /\ Cardinality(RowsOf(d)) \in Nat
  BY <1>1, <1>2, <1>6, Rows, FS_AddElement
<1>8. total' \in [Day -> Nat] /\ total'[d] = w[p].count + 1
      /\ \A e \in Day \ {d} : total'[e] = total[e]
  BY <1>2 DEF IInv, TypeOK
<1>9. CountsRows'
  <2>1. ASSUME NEW e \in Day
        PROVE  /\ total'[e] <= Cardinality(RowsOf(e)')
               /\ Alone => total'[e] = Cardinality(RowsOf(e)')
    <3>1. CASE e = d
      BY <1>2, <1>3, <1>7, <1>8, <3>1 DEF IInv, CountsRows
    <3>2. CASE e # d
      BY <1>5, <1>8, <3>2 DEF IInv, CountsRows
    <3> QED BY <3>1, <3>2
  <2> QED BY <2>1 DEF CountsRows, Alone
<1>10. \A e \in Day : /\ Cardinality(RowsOf(e)) \in Nat /\ Cardinality(RowsOf(e)') \in Nat
                       /\ Cardinality(RowsOf(e)) <= Cardinality(RowsOf(e)')
  <2>1. \A e \in Day : Cardinality(RowsOf(e)) \in Nat
    BY <1>1, Rows
  <2> QED BY <1>5, <1>7, <2>1
<1>11. ASSUME NEW q \in Proc PROVE w'[q] \in Worker /\ Good(w[q])'
  <2>1. CASE q = p
    <3>1. \A b \in w[p].seen :
            /\ w[p].first[TickerOf[b]] # None
            /\ w[p].first[TickerOf[b]] <= created[b] => <<d, b>> \in stored'
      BY <1>1 DEF Good, Seen
    <3>2. Seen(w[q])'
      BY <1>4, <2>1, <3>1, ResumedGood DEF Seen
    <3>3. Resumed(p).pc # "commit"
      BY <1>1 DEF Resumed, Worker
    <3>4. Shaped(w[q])' /\ Replied(w[q])'
      BY <1>4, <2>1, ResumedGood DEF Shaped, Replied
    <3>5. Read(w[q])'
      BY <1>4, <2>1, <3>3 DEF Read
    <3> QED BY <1>4, <2>1, <3>2, <3>4, <3>5, ResumedGood DEF Good
  <2>2. CASE q # p
    <3>1. w'[q] = w[q] /\ w[q] \in Worker /\ Good(w[q]) /\ ~Alone
      BY <1>4, <2>2, Held DEF Alone
    <3>2. Shaped(w[q])' /\ Replied(w[q])' /\ Seen(w[q])'
      BY <3>1 DEF Good, Shaped, Replied, Seen
    <3>3. Read(w[q])'
      <4> SUFFICES ASSUME w[q].pc = "commit" PROVE Read(w[q])'
        BY <3>1 DEF Read
      <4>1. w[q].day \in Day /\ w[q].count \in Nat
        BY <3>1 DEF Worker, Good, Shaped, Streaming, Processing
      <4>2. PICK e \in Day : e = w[q].day
        BY <4>1
      <4>3. /\ ~w[q].fresh => <<e, w[q].event>> \in stored
            /\ w[q].count <= Cardinality(RowsOf(e))
        BY <3>1, <4>2 DEF Good, Read
      <4>4. w[q].count <= Cardinality(RowsOf(e)')
        BY <1>10, <4>1, <4>3
      <4>5. RowsOf(e)' = RowsOf(w[q].day)'
        BY <3>1, <4>2
      <4> QED BY <3>1, <4>2, <4>3, <4>4, <4>5 DEF Read, Alone
    <3> QED BY <3>1, <3>2, <3>3 DEF Good
  <2> QED BY <2>1, <2>2
<1>12. w' \in [Proc -> Worker]
  BY <1>11 DEF Becomes, IInv, TypeOK
<1>13. stored' \subseteq Day \X Alert
  BY <1>1, <1>2
<1>14. TypeOK'
  BY <1>8, <1>11, <1>12, <1>13 DEF IInv, TypeOK, Good, Shaped
<1> QED BY <1>9, <1>11, <1>14 DEF IInv

LEMMA CommitInv == ASSUME IInv, NEW p \in Proc, Commit(p) PROVE IInv'
<1>1. /\ w[p].pc = "commit" /\ UNCHANGED <<clock, created, runs, trouble>>
      /\ w[p] \in Worker /\ Good(w[p]) /\ runs \subseteq Day /\ trouble \in 0..MaxTrouble
  BY Held DEF Commit, At, IInv, TypeOK
<1>2. CASE ~w[p].fresh /\ Becomes(p, Resumed(p)) /\ UNCHANGED <<stored, total>>
  <2>1. \A b \in w[p].seen :
          /\ w[p].first[TickerOf[b]] # None
          /\ w[p].first[TickerOf[b]] <= created[b] => <<w[p].day, b>> \in stored
    BY <1>1, <1>2 DEF Good, Seen, Read
  <2>2. Good(Resumed(p))
    BY <1>1, <2>1, ResumedGood DEF Good, Seen
  <2> QED BY <1>1, <1>2, <2>2, ResumedGood, LocalStep
<1>3. CASE Becomes(p, Restarted(p)) /\ UNCHANGED <<stored, total>>
  BY <1>1, <1>3, BlankGood, LocalStep DEF Restarted
<1>4. CASE /\ w[p].fresh /\ <<w[p].day, w[p].event>> \notin stored
           /\ stored' = stored \union {<<w[p].day, w[p].event>>}
           /\ total' = [total EXCEPT ![w[p].day] = w[p].count + 1]
           /\ Becomes(p, Resumed(p))
  <2>1. w[p].day \in Day /\ w[p].event \in Alert
    BY <1>1 DEF Worker, Good, Shaped, Streaming, Processing
  <2>2. PICK d \in Day, a \in Alert : d = w[p].day /\ a = w[p].event
    BY <2>1
  <2> QED BY <1>1, <1>4, <2>2, InsertRow
<1> QED BY <1>2, <1>3, <1>4 DEF Commit

-----------------------------------------------------------------------------
(* The world *)

LEMMA CreateInv == ASSUME IInv, NEW a \in Alert, Create(a) PROVE IInv'
<1>1. /\ created[a] = None /\ created' = [created EXCEPT ![a] = clock] /\ clock \in 0..MaxTime
      /\ UNCHANGED <<clock, stored, total, runs, w, trouble>> /\ clock # None
  BY Nones DEF Create, tables, IInv, TypeOK
<1>2. /\ created' \in [Alert -> (0..MaxTime) \union {None}] /\ created'[a] # None
      /\ \A b \in Alert : created[b] # None => created'[b] = created[b]
  BY <1>1 DEF IInv, TypeOK
<1>3. TypeOK'
  BY <1>1, <1>2 DEF IInv, TypeOK
<1>4. CountsRows'
  BY <1>1 DEF IInv, CountsRows, RowsOf, Alone
<1>5. ASSUME NEW p \in Proc PROVE Good(w[p])'
  <2>1. w[p] \in Worker /\ Good(w[p])
    BY Held
  <2>2. \A b \in w[p].records \union w[p].seen : b \in Alert /\ created'[b] = created[b]
    BY <1>2, <2>1 DEF Worker, Good, Replied
  <2> QED BY <1>1, <2>1, <2>2 DEF Good, Shaped, Replied, Seen, Read, RowsOf, Alone
<1> QED BY <1>3, <1>4, <1>5 DEF IInv

LEMMA TickInv == ASSUME IInv, Tick PROVE IInv'
<1>1. clock' \in 0..MaxTime /\ UNCHANGED <<created, stored, total, runs, w, trouble>>
  BY LimitsAssumption DEF Tick, tables, IInv, TypeOK
<1>2. TypeOK' /\ CountsRows'
  BY <1>1 DEF IInv, TypeOK, CountsRows, RowsOf, Alone
<1>3. \A p \in Proc : Good(w[p])'
  BY <1>1 DEF IInv, Good, Shaped, Replied, Seen, Read, RowsOf, Alone
<1> QED BY <1>2, <1>3 DEF IInv

LEMMA NextIInv == IInv /\ [Next]_vars => IInv'
<1> SUFFICES ASSUME IInv, [Next]_vars PROVE IInv'
  OBVIOUS
<1>1. CASE Tick
  BY <1>1, TickInv
<1>2. CASE \E a \in Alert : Create(a)
  BY <1>2, CreateInv
<1>3. ASSUME NEW p \in Proc, Step(p) \/ Rollover(p) \/ Trouble(p) PROVE IInv'
  <2>1. CASE Rollover(p)
    BY <2>1, RolloverInv
  <2>2. CASE Trouble(p)
    BY <2>2, FailInv, CrashInv, ReplyFailsInv, BadRecordInv DEF Trouble
  <2>3. CASE Boot(p) \/ EnsureRun(p) \/ InsertRun(p) \/ NewSource(p) \/ StreamEnds(p)
    BY <2>3, BootInv, EnsureRunInv, InsertRunInv, NewSourceInv, StreamEndsInv
  <2>4. CASE Poll(p) \/ Ask(p) \/ Reply(p) \/ Convert(p) \/ TickerDone(p) \/ EndPass(p)
    BY <2>4, PollInv, AskInv, ReplyInv, ConvertInv, TickerDoneInv, EndPassInv
  <2>5. CASE Stages(p) \/ Dedupe(p) \/ Commit(p)
    BY <2>5, StagesInv, DedupeInv, CommitInv
  <2> QED BY <1>3, <2>1, <2>2, <2>3, <2>4, <2>5 DEF Step
<1>4. CASE UNCHANGED vars
  <2>1. UNCHANGED <<clock, created, stored, total, runs, w, trouble>>
    BY <1>4 DEF vars
  <2> QED BY <2>1 DEF IInv, TypeOK, CountsRows, Good, Shaped, Replied, Seen, Read, RowsOf, Alone
<1> QED BY <1>1, <1>2, <1>3, <1>4 DEF Next

LEMMA Invariant == Spec => []IInv
BY InitIInv, NextIInv, PTL DEF Spec

-----------------------------------------------------------------------------
(* The processes and the tables have their types, and a process has an event in hand
   exactly while the pipeline works on one. *)
THEOREM TypeCorrect == Spec => []TypeOK
<1>1. IInv => TypeOK
  BY DEF IInv
<1> QED BY <1>1, Invariant, PTL

(* Dropping a failed batch loses nothing that a live source would not emit again: what it
   has marked seen, and had to emit, is stored or in hand. *)
THEOREM SeenStoredHolds == Spec => []SeenStored
<1>1. IInv => SeenStored
  BY DEF IInv, Good, Seen, SeenStored
<1> QED BY <1>1, Invariant, PTL

(* A run's counter is at most its rows, for any number of processes, and exactly its rows
   for one. *)
THEOREM CountsRowsHolds == Spec => []CountsRows
<1>1. IInv => CountsRows
  BY DEF IInv
<1> QED BY <1>1, Invariant, PTL
=============================================================================
