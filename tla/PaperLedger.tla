---------------------------- MODULE PaperLedger ----------------------------
(***************************************************************************)
(* The PAPER ledger of Live Alpha (webapp/live_alpha/job.py and store.py): *)
(* what the engine cycles do to the records of one opportunity             *)
(* ("session:ticker:direction").  A cycle reads prices, appends a          *)
(* recommendation when it changed, opens the PAPER position of a ready     *)
(* one, and then moves the position: fill, expiry, exit signal, close,     *)
(* unresolved.  Every database call is a transaction of its own, so a      *)
(* cycle may crash or fail between any two, and the cycles of two          *)
(* processes (a deployment starts the new one before the old one stops)    *)
(* interleave at those points.                                             *)
(*                                                                         *)
(* Prices are abstracted to where they lie in the frozen plan: at or past  *)
(* the stop, inside the entry limit, past the chase limit, at or past the  *)
(* target; a short plan is the mirror image.                               *)
(***************************************************************************)
EXTENDS Integers, Sequences, FiniteSets

CONSTANTS
  Cycle,        \* the processes that run engine cycles
  MaxTime,      \* bound on the clock
  Day,          \* time |-> day
  LiveTimes,    \* times inside the regular session
  SessionDays,  \* days with a session
  MaxAge,       \* spot_max_age_seconds
  Horizon,      \* horizon_sessions
  MaxRecs,      \* bound on the recommendation records
  MaxCrashes,   \* bound on crashes
  None

Time == 0..MaxTime
OppDay == 0     \* the session of the opportunity
Level == {"stop", "entry", "chase", "target"}
Spot == [level: Level, at: Time]
Price == [level: Level \union {"quote", "bar"}, at: Time]
Reason == {"stop", "target", "thesis", "time", "unfilled"}
Verdict == {"ready", "watch"}
Active == {"PAPER_PENDING", "PAPER_OPEN", "EXIT_SIGNALLED"}
Kind == {"recommendation", "paper_pending", "paper_fill", "paper_expired", "exit_signalled",
         "paper_exit", "unresolved"}
Row == [instrument: {"stock", "option"}, state: Active \union {"CLOSED_SIMULATED", "UNRESOLVED"},
        created: Time, entryAt: Time \union {None}, entry: Price \union {None},
        exitAt: Time \union {None}, exit: Price \union {None}, reason: Reason \union {None},
        markAt: Time \union {None}]
Rec == [verdict: Verdict, created: Time, supersedes: Nat]

ASSUME TimeAssumption ==
  /\ MaxTime \in Nat /\ Day \in [Time -> Nat] /\ LiveTimes \subseteq Time
  /\ SessionDays \subseteq Nat /\ \A t \in LiveTimes : Day[t] \in SessionDays
ASSUME BoundsAssumption ==
  MaxAge \in Nat /\ Horizon \in Nat /\ MaxRecs \in Nat /\ MaxCrashes \in Nat
ASSUME NoneAssumption == None \notin Time \union Price \union Reason \union Row \union Verdict

VARIABLES
  clock,
  stored,   \* the newest stored spot, written by the refresher
  recs,     \* alfa_live_rec
  paper,    \* the row of alfa_live_paper, or None
  events,   \* alfa_live_event: how many of each kind
  run,      \* cycle |-> the locals of run_cycle
  crashes,
  (* history, read by properties only *)
  late,     \* cycles under way when another one appended a record, or filled the position
  crossed   \* whether such a cycle wrote a record, or the position, all the same

history == <<late, crossed>>
vars == <<clock, stored, recs, paper, events, run, crashes, history>>
world == <<clock, stored, crashes>>

Steps == {"idle", "market", "heads", "append", "recEvent", "open", "openEvent", "read", "track", "settle",
          "event"}
Locals == [pc: Steps,                    \* what the cycle does next
           now: Time,                    \* the time it started, ctx.now
           spot: Spot,                   \* the spot it read
           card: Verdict \union {None},  \* its verdict on this opportunity
           head: Nat,                    \* the record it found newest
           seen: Row \union {None},      \* the row it read
           reason: Reason \union {None}, \* why it leaves the position
           price: Price \union {None},   \* and at what price
           kind: Kind]                   \* the event it writes last
NoSpot == [level |-> "entry", at |-> 0]
Idle == [pc |-> "idle", now |-> 0, spot |-> NoSpot, card |-> None, head |-> 0, seen |-> None,
         reason |-> None, price |-> None, kind |-> "recommendation"]

TablesOK ==
  /\ clock \in Time /\ stored \in Spot /\ crashes \in Nat
  /\ recs \in Seq(Rec) /\ paper \in Row \union {None} /\ events \in [Kind -> Nat]
  /\ run \in [Cycle -> Locals]
  /\ \A c \in Cycle :
       run[c].pc \in {"track", "settle"} => run[c].seen # None /\ run[c].seen.state \in Active

TypeOK ==
  /\ TablesOK
  /\ late \in [rec: SUBSET Cycle, fill: SUBSET Cycle] /\ crossed \in [rec: BOOLEAN, fill: BOOLEAN]

Init ==
  /\ clock = 0 /\ stored = NoSpot /\ crashes = 0
  /\ recs = <<>> /\ paper = None /\ events = [k \in Kind |-> 0]
  /\ run = [c \in Cycle |-> Idle]
  /\ late = [rec |-> {}, fill |-> {}] /\ crossed = [rec |-> FALSE, fill |-> FALSE]

-----------------------------------------------------------------------------
(* The world *)

Tick ==
  /\ clock < MaxTime /\ clock' = clock + 1
  /\ UNCHANGED <<stored, recs, paper, events, run, crashes>>

\* The refresher stores a new spot.
Refresh ==
  /\ stored.at < clock
  /\ \E l \in Level : stored' = [level |-> l, at |-> clock]
  /\ UNCHANGED <<clock, recs, paper, events, run, crashes>>

-----------------------------------------------------------------------------
(* What a cycle knows *)

Today(c) == Day[run[c].now]
HasSession(c) == Today(c) \in SessionDays

\* A spot is usable in the session, on its own day, and up to MaxAge after it was fetched.
Usable(s, t) ==
  t \in LiveTimes /\ Day[s.at] = Day[t] /\ 0 <= t - s.at /\ t - s.at <= MaxAge
Fresh(c) == Usable(run[c].spot, run[c].now)

Goto(c, pc) == run' = [run EXCEPT ![c].pc = pc]
Done(c) == run' = [run EXCEPT ![c] = Idle]

-----------------------------------------------------------------------------
(* Recommendations *)

\* The loop takes the time of the cycle.
Start(c) ==
  /\ run[c].pc = "idle"
  /\ run' = [run EXCEPT ![c].now = clock, ![c].pc = "market"]
  /\ UNCHANGED <<world, recs, paper, events>>

\* The cycle reads the newest spot, which may be younger than the cycle, and decides.  Only on
\* its own day is there a card for the opportunity; only a fresh price makes it ready, and the
\* plan is built around that price: between its stop and its target, for a bearish setup
\* possibly past the chase limit.
ReadMarket(c) ==
  /\ run[c].pc = "market"
  /\ \E v \in Verdict \union {None} :
       /\ v # None => Today(c) = OppDay /\ Len(recs) < MaxRecs
       /\ v = "ready" => /\ Usable(stored, run[c].now)
                         /\ paper = None => stored.level \in {"entry", "chase"}
       /\ run' = [run EXCEPT ![c].spot = stored, ![c].card = v,
                             ![c].pc = IF v = None THEN "read" ELSE "heads"]
  /\ UNCHANGED <<world, recs, paper, events>>

\* latest_recs orders by created_at.  A time of the model stands for an interval: records of
\* one time are taken in the order they were written.
Newest ==
  {i \in 1..Len(recs) :
     \A j \in 1..Len(recs) :
       recs[j].created < recs[i].created \/ (recs[j].created = recs[i].created /\ j <= i)}

\* Mutant: a record is appended whether or not the verdict changed.
ReadHeadsAlways(c) ==
  /\ run[c].pc = "heads"
  /\ \/ recs = <<>> /\ Goto(c, "append")
     \/ \E i \in Newest : run' = [run EXCEPT ![c].head = i, ![c].pc = "append"]
  /\ UNCHANGED <<world, recs, paper, events>>

ReadHeads(c) ==
  /\ run[c].pc = "heads"
  /\ \/ recs = <<>> /\ Goto(c, "append")
     \/ \E i \in Newest :
          run' = [run EXCEPT ![c].head = i,
                             ![c].pc = IF recs[i].verdict = run[c].card THEN "open" ELSE "append"]
  /\ UNCHANGED <<world, recs, paper, events>>

AppendRec(c) ==
  /\ run[c].pc = "append"
  /\ recs' = Append(recs, [verdict |-> run[c].card, created |-> run[c].now,
                           supersedes |-> run[c].head])
  /\ Goto(c, "recEvent")
  /\ UNCHANGED <<world, paper, events>>

AppendRecEvent(c) ==
  /\ run[c].pc = "recEvent"
  /\ events' = [events EXCEPT !["recommendation"] = @ + 1]
  /\ Goto(c, "open")
  /\ UNCHANGED <<world, recs, paper>>

-----------------------------------------------------------------------------
(* The position *)

NewRow(c, i) ==
  [instrument |-> i, state |-> "PAPER_PENDING", created |-> run[c].now, entryAt |-> None,
   entry |-> None, exitAt |-> None, exit |-> None, reason |-> None, markAt |-> None]

\* create_paper inserts under the unique opportunity_id.  A ready card has an executable
\* instrument: shares, or a priced option structure; past the chase limit only the latter.
OpenPaper(c) ==
  /\ run[c].pc = "open"
  /\ \/ /\ run[c].card = "ready" /\ paper = None
        /\ \E i \in {"stock", "option"} :
             /\ run[c].spot.level = "chase" => i = "option"
             /\ paper' = NewRow(c, i)
        /\ Goto(c, "openEvent")
     \/ /\ run[c].card # "ready" \/ paper # None
        /\ UNCHANGED paper
        /\ Goto(c, "read")
  /\ UNCHANGED <<world, recs, events>>

OpenEvent(c) ==
  /\ run[c].pc = "openEvent"
  /\ events' = [events EXCEPT !["paper_pending"] = @ + 1]
  /\ Goto(c, "read")
  /\ UNCHANGED <<world, recs, paper>>

\* Mutants: finished rows are read too; signalled rows are forgotten.
ReadAll(c) ==
  /\ run[c].pc = "read"
  /\ IF paper # None THEN run' = [run EXCEPT ![c].seen = paper, ![c].pc = "track"] ELSE Done(c)
  /\ UNCHANGED <<world, recs, paper, events>>
ReadUnsignalled(c) ==
  /\ run[c].pc = "read"
  /\ IF paper # None /\ paper.state \in {"PAPER_PENDING", "PAPER_OPEN"}
     THEN run' = [run EXCEPT ![c].seen = paper, ![c].pc = "track"]
     ELSE Done(c)
  /\ UNCHANGED <<world, recs, paper, events>>

\* track_papers reads the active rows.
ReadPapers(c) ==
  /\ run[c].pc = "read"
  /\ IF paper # None /\ paper.state \in Active
     THEN run' = [run EXCEPT ![c].seen = paper, ![c].pc = "track"]
     ELSE Done(c)
  /\ UNCHANGED <<world, recs, paper, events>>

\* Mutant: the update does not look at the state.
SwappedAlways(c) == paper # None
\* move_paper: compare-and-set on the state that was read; a success is followed by event k.
Swapped(c) == paper # None /\ paper.state = run[c].seen.state
\* Mutant: the event is written even when the compare-and-set failed.
MoveLogged(c, row, k) ==
  /\ paper' = IF Swapped(c) THEN row ELSE paper
  /\ run' = [run EXCEPT ![c].pc = "event", ![c].kind = k]
  /\ UNCHANGED <<world, recs, events>>
Move(c, row, k) ==
  /\ IF Swapped(c)
     THEN paper' = row /\ run' = [run EXCEPT ![c].pc = "event", ![c].kind = k]
     ELSE UNCHANGED paper /\ Done(c)
  /\ UNCHANGED <<world, recs, events>>

Missed(c) == HasSession(c) /\ OppDay < Today(c)

Expire(c) ==
  /\ run[c].pc = "track" /\ run[c].seen.state = "PAPER_PENDING"
  /\ Missed(c)
  /\ Move(c, [paper EXCEPT !.state = "CLOSED_SIMULATED", !.exitAt = run[c].now,
                           !.reason = "unfilled"], "paper_expired")

\* Mutant: the price that caused the publication may fill.
FillableAtOnce(c) ==
  /\ Today(c) = OppDay /\ Fresh(c)
  /\ run[c].spot.at >= run[c].seen.created
  /\ run[c].spot.level = "entry"

\* A fill needs its session, a fresh spot observed after publication, and the entry zone.
Fillable(c) ==
  /\ Today(c) = OppDay /\ Fresh(c)
  /\ run[c].spot.at > run[c].seen.created
  /\ run[c].spot.level = "entry"

QuoteOf(c) == [level |-> "quote", at |-> run[c].now]

\* Mutant: the first mark carries the publication time.
FillMarkedEarly(c) ==
  /\ run[c].pc = "track" /\ run[c].seen.state = "PAPER_PENDING"
  /\ Fillable(c)
  /\ LET p == IF run[c].seen.instrument = "stock" THEN run[c].spot ELSE QuoteOf(c)
     IN  Move(c, [paper EXCEPT !.state = "PAPER_OPEN", !.entryAt = run[c].now, !.entry = p,
                               !.markAt = paper.created], "paper_fill")

Fill(c) ==
  /\ run[c].pc = "track" /\ run[c].seen.state = "PAPER_PENDING"
  /\ Fillable(c)
  /\ LET p == IF run[c].seen.instrument = "stock" THEN run[c].spot ELSE QuoteOf(c)
     IN  Move(c, [paper EXCEPT !.state = "PAPER_OPEN", !.entryAt = run[c].now, !.entry = p,
                               !.markAt = run[c].now], "paper_fill")

\* Nothing to do with a pending row, or an option structure without a usable view.
LeavePending(c) ==
  /\ run[c].pc = "track" /\ run[c].seen.state = "PAPER_PENDING"
  /\ ~Missed(c)
  /\ Fillable(c) => run[c].seen.instrument = "option"
  /\ Done(c)
  /\ UNCHANGED <<world, recs, paper, events>>

\* Why the position should be left, in the order of the code; b is what the completed
\* daily bars say, against says that flow the other way qualified.
Held(c) == Cardinality({d \in SessionDays : Day[run[c].seen.entryAt] < d /\ d <= Today(c)})
ExitReason(c, b, against) ==
  IF run[c].seen.state = "EXIT_SIGNALLED" THEN run[c].seen.reason
  ELSE CASE Fresh(c) /\ run[c].spot.level \in {"stop", "target"} -> run[c].spot.level
         [] ~Fresh(c) /\ b # None -> b
         [] OTHER -> IF against THEN "thesis"
                     ELSE IF HasSession(c) /\ Held(c) >= Horizon THEN "time" ELSE None

\* Bars are read without a fresh spot, for sessions after the entry day and before today.
BarExits(c) ==
  IF /\ run[c].seen.state = "PAPER_OPEN" /\ ~Fresh(c)
     /\ \E d \in SessionDays : Day[run[c].seen.entryAt] < d /\ d < Today(c)
  THEN {None, "stop", "target", "time"} ELSE {None}

\* The price the position could be left at: the fresh spot or the bar for stock, a quote of
\* the live session for an option structure.
ExitPrice(c, b, quoted) ==
  IF run[c].seen.instrument = "stock"
  THEN IF Fresh(c) THEN run[c].spot
       ELSE IF b # None THEN [level |-> "bar", at |-> run[c].now] ELSE None
  ELSE IF quoted /\ run[c].now \in LiveTimes THEN QuoteOf(c) ELSE None

\* Exit reason and price; a price that is not a bar's is first written as the newest mark.
Decide(c) ==
  /\ run[c].pc = "track" /\ run[c].seen.state \in {"PAPER_OPEN", "EXIT_SIGNALLED"}
  /\ \E b \in BarExits(c), against \in BOOLEAN, quoted \in BOOLEAN :
       LET r == ExitReason(c, b, against)
           p == ExitPrice(c, b, quoted)
       IN  /\ paper' = IF p # None /\ p.level # "bar" /\ Swapped(c)
                       THEN [paper EXCEPT !.markAt = run[c].now] ELSE paper
           /\ IF r = None THEN Done(c)
              ELSE run' = [run EXCEPT ![c].reason = r, ![c].price = p, ![c].pc = "settle"]
  /\ UNCHANGED <<world, recs, events>>

Close(c) ==
  /\ run[c].pc = "settle" /\ run[c].price # None
  /\ Move(c, [paper EXCEPT !.state = "CLOSED_SIMULATED", !.exitAt = run[c].now,
                           !.exit = run[c].price, !.reason = run[c].reason], "paper_exit")

Signal(c) ==
  /\ run[c].pc = "settle" /\ run[c].price = None /\ run[c].seen.state = "PAPER_OPEN"
  /\ Move(c, [paper EXCEPT !.state = "EXIT_SIGNALLED", !.exitAt = run[c].now,
                           !.reason = run[c].reason], "exit_signalled")

\* No exit price in a session after the one of the signal.
Overdue(c) == HasSession(c) /\ Day[run[c].seen.exitAt] < Today(c)

Abandon(c) ==
  /\ run[c].pc = "settle" /\ run[c].price = None /\ run[c].seen.state = "EXIT_SIGNALLED"
  /\ Overdue(c)
  /\ Move(c, [paper EXCEPT !.state = "UNRESOLVED"], "unresolved")

LeaveSignalled(c) ==
  /\ run[c].pc = "settle" /\ run[c].price = None /\ run[c].seen.state = "EXIT_SIGNALLED"
  /\ ~Overdue(c)
  /\ Done(c)
  /\ UNCHANGED <<world, recs, paper, events>>

AppendEvent(c) ==
  /\ run[c].pc = "event"
  /\ events' = [events EXCEPT ![run[c].kind] = @ + 1]
  /\ Done(c)
  /\ UNCHANGED <<world, recs, paper>>

\* The process stops or the cycle raises: the supervised loop starts a new cycle later.
Crash(c) ==
  /\ run[c].pc # "idle" /\ crashes < MaxCrashes
  /\ crashes' = crashes + 1
  /\ Done(c)
  /\ UNCHANGED <<clock, stored, recs, paper, events>>

Step(c) ==
  \/ Start(c) \/ ReadMarket(c) \/ ReadHeads(c) \/ AppendRec(c) \/ AppendRecEvent(c)
  \/ OpenPaper(c) \/ OpenEvent(c) \/ ReadPapers(c) \/ Expire(c) \/ Fill(c) \/ LeavePending(c)
  \/ Decide(c) \/ Close(c) \/ Signal(c) \/ Abandon(c) \/ LeaveSignalled(c) \/ AppendEvent(c)

\* What the history keeps of a step: who acts, and what that does to the cycles under way.
Recording == {"market", "heads", "append"}
Moving == Steps \ {"idle", "event"}
Entry(row) == IF row = None THEN None ELSE row.entry
Watch ==
  LET acts == {c \in Cycle : run'[c] # run[c]}
      at(pcs) == {c \in Cycle : run'[c].pc \in pcs}
      rests(changed) == IF changed THEN Cycle \ acts ELSE {}
  IN  /\ late' = [rec |-> at(Recording) \intersect (late.rec \union rests(recs' # recs)),
                  fill |-> at(Moving) \intersect
                             (late.fill \union rests(Entry(paper') # Entry(paper)))]
      /\ crossed' = [rec |-> crossed.rec \/ (recs' # recs /\ acts \intersect late.rec # {}),
                     fill |-> crossed.fill \/ (paper' # paper /\ acts \intersect late.fill # {})]

Next == (Tick \/ Refresh \/ \E c \in Cycle : Step(c) \/ Crash(c)) /\ Watch

Spec == Init /\ [][Next]_vars
FairSpec == Spec /\ WF_vars(Tick /\ Watch) /\ \A c \in Cycle : WF_vars(Step(c) /\ Watch)

-----------------------------------------------------------------------------
(* The ledger implements the life of one simulated position: one entry, one exit, a reason
   that stands, no step back, whatever cycles interleave and crash ("Compare-and-set on
   state, so two cycles cannot both fill or both close", store.py). *)
Lifecycle == INSTANCE PaperLifecycle WITH
  Price <- Price, NoPrice <- None, Reason <- Reason, NoReason <- None,
  state <- IF paper = None THEN "NONE" ELSE paper.state,
  entry <- IF paper = None THEN None ELSE paper.entry,
  exit <- IF paper = None THEN None ELSE paper.exit,
  reason <- IF paper = None THEN None ELSE paper.reason
LifecycleImplemented == Lifecycle!Spec

(* A fill uses a price observed after the recommendation was published, in the session of
   the opportunity, inside the entry zone: no position is opened on the price that caused
   it. *)
NoLookahead ==
  paper # None /\ paper.entry # None =>
    /\ paper.entry.at > paper.created
    /\ paper.entryAt \in LiveTimes /\ Day[paper.entryAt] = OppDay
    /\ paper.entry.level \in {"entry", "quote"}

\* The row may have made the move of event k; it shows that it did, unless a close hides it.
Told == Kind \ {"recommendation"}
MayHave(row, k) ==
  /\ row # None
  /\ k = "paper_fill" => row.entry # None
  /\ k = "paper_exit" => row.exit # None
  /\ k = "paper_expired" => row.reason = "unfilled"
  /\ k = "unresolved" => row.state = "UNRESOLVED"
  /\ k = "exit_signalled" =>
       row.state \notin {"PAPER_PENDING", "PAPER_OPEN"} /\ row.reason # "unfilled"
Shows(row, k) == MayHave(row, k) /\ (k = "exit_signalled" => row.state # "CLOSED_SIMULATED")

(* "every such move is also written to alfa_live_event ... so the history is never lost to
   an update" (store.py:6): when no cycle is running, an event tells a move that was made, no
   move is told twice, and a move is untold only for a crash between its two transactions:
   each crash loses one event at most. *)
HistoryComplete ==
  (\A c \in Cycle : run[c].pc = "idle") =>
    /\ \A k \in Told : events[k] <= 1 /\ (events[k] = 1 => MayHave(paper, k))
    /\ Cardinality({k \in Told : Shows(paper, k) /\ events[k] = 0}) <= crashes

(* "A new row only when (rec, readiness) changes" (LiveRec, store.py:57): the records of an
   opportunity are one chain, each superseding the one before, which said something else.
   However many processes run, that can only end when a cycle appends a record after another
   cycle appended one behind its back. *)
RecsOnChange ==
  ~crossed.rec =>
    \A i \in 1..Len(recs) :
      /\ recs[i].supersedes = i - 1
      /\ i > 1 => recs[i].verdict # recs[i - 1].verdict

(* A position is left after it was entered, at a price not observed before its entry price,
   and its newest mark does not predate its entry; this too can only end when a cycle that
   was under way at the fill writes the position after it. *)
Chronology ==
  ~crossed.fill =>
    (paper # None /\ paper.entry # None =>
       /\ paper.exitAt # None => paper.entryAt <= paper.exitAt
       /\ paper.exit # None => paper.entry.at <= paper.exit.at
       /\ paper.entryAt <= paper.markAt)

(* No position is forgotten: a published one is expired, closed or unresolved in the end, or
   was signalled on the last day of the model, whose next session never comes. *)
Settled ==
  /\ paper # None
  /\ \/ paper.state \in {"CLOSED_SIMULATED", "UNRESOLVED"}
     \/ paper.state = "EXIT_SIGNALLED" /\ Day[paper.exitAt] = Day[MaxTime]
PositionSettles == (paper # None) ~> Settled
=============================================================================
