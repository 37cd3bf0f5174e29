---------------------------- MODULE OptionsPaper ----------------------------
(***************************************************************************)
(* The options PAPER tracker (webapp/board/options_paper.py with           *)
(* options_alpha/tracking.py and exits.py) as a daily job, after the       *)
(* daily_close job that stores the sessions it counts by                   *)
(* (webapp/board/daily_close.py).  One position of several legs is         *)
(* followed from its entry on day 0 to its outcome.                        *)
(***************************************************************************)
EXTENDS DailyJobs, FiniteSets

CONSTANTS
    Session,     \* the days the market trades
    Oldest,      \* the days from which the vendor's daily series may reach
    Disputed,    \* bound: the sessions whose rows in that series may disagree at first
    Closed,      \* the slot of a day from which its close is final
    Legs,        \* how many legs the position has, in the card's order
    Hold,        \* primary_hold_trading_days
    FloorDay,    \* the first day at or below close_at_dte
    Prices,      \* the courses the package's value may take, where it is marked:
                 \* [Day -> {"stop", "between", "target"}]
    Listed,      \* bound: the days of which the vendor may list a row
    Troubles     \* bound: sessions in dispute, failures of the vendor, crashes, slow slots

Leg == 1..Legs

ASSUME PaperAssumption ==
    /\ Session \subseteq Weekdays /\ 0 \in Session /\ Listed \subseteq Session
    /\ Oldest \subseteq Day /\ Disputed \subseteq Session
    /\ Cardinality(Disputed) <= Troubles
    /\ Closed \in 0..SlotsPerDay - 1
    /\ Hold \in Nat \ {0} /\ FloorDay \in Nat /\ Troubles \in Nat
    /\ Legs \in Nat \ {0}
    /\ Prices \subseteq [Day -> {"stop", "between", "target"}]
    /\ Registry = <<"daily_close", "options_paper">>

VARIABLES
    oldest,     \* the first day of the vendor's daily series
    unclear,    \* its sessions whose rows disagree, or have no positive close
    price,      \* where the package's value lies each day, to the plan's levels
    posted,     \* the days of which the vendor lists a usable row, per leg
    onTime,     \* history: the days all of whose rows were listed before the next close
    left,       \* history: the days of which an answer of the tracker's last run left out
                \* a row that was listed
    basis,      \* history: the sessions by which the last verdict was decided
    calendar,   \* alfa_daily_close of SPY: the stored sessions
    marks,      \* alfa_opt_paper_mark: the days marked
    outcome,    \* alfa_opt_paper_outcome, or None
    quotes,     \* the tracker's locals: the days of each leg fetched so far
    verdict,    \* and the outcome it has decided to write
    troubles    \* troubles so far

world == <<oldest, unclear, price, posted, onTime>>
tables == <<calendar, marks, outcome>>
history == <<left, basis>>
vars == <<now, row, loop, runs, world, tables, quotes, verdict, history, troubles>>

Body == {"closes", "book", "legs", "mark", "outcome"}

Verdict == [reason : {"stop", "target", "dte_floor", "time", "no_exit_data"},
            day : Day \union {None}]

TypeOK ==
    /\ JobsTypeOK(Body)
    /\ oldest \in Oldest /\ unclear \subseteq Disputed /\ price \in Prices
    /\ posted \in [Leg -> SUBSET Day] /\ onTime \subseteq Day
    /\ calendar \subseteq Session /\ marks \subseteq Session
    /\ outcome \in {None} \union Verdict
    /\ verdict \in {None} \union Verdict
    /\ quotes \in Seq(SUBSET Day) /\ Len(quotes) <= Legs
    /\ left \subseteq Day /\ basis \subseteq Session
    /\ troubles \in 0..Troubles

\* The position is registered from a frozen card.  Day 0 stands for its entry and for every
\* older session; the first run of daily_close may find the series to begin later.
Init ==
    /\ JobsInit
    /\ oldest \in Oldest /\ unclear \in SUBSET Disputed /\ price \in Prices
    /\ posted = [l \in Leg |-> {}] /\ onTime = {}
    /\ calendar = {} /\ marks = {} /\ outcome = None
    /\ quotes = <<>> /\ verdict = None
    /\ left = {} /\ basis = {} /\ troubles = Cardinality(unclear)

----------------------------------------------------------------------------
\* The exit engine.

\* is_final_close
FinalAt(d, t) == t >= d * SlotsPerDay + Closed

\* sessions_after: the stored sessions after the entry.
Sessions == {d \in calendar : d > 0}

\* The place of a day in the hold, counted by the sessions S.
Held(S, d) == Cardinality({e \in S : e <= d})

\* evaluate_exit for the card's plan (time, target and stop), given the days that could
\* be priced: the first of them within the hold on which a rule fires.
Fires(S, d) ==
    Held(S, d) <= Hold /\ (price[d] # "between" \/ d >= FloorDay \/ Held(S, d) = Hold)

Reason(d) ==
    IF price[d] # "between" THEN price[d]
    ELSE IF d >= FloorDay THEN "dte_floor" ELSE "time"

Exit(S, priced) ==
    LET fired == {d \in priced \intersect S : Fires(S, d)} IN
    IF fired # {} THEN
        LET d == CHOOSE d \in fired : \A e \in fired : d <= e
        IN  [reason |-> Reason(d), day |-> d]
    ELSE IF Cardinality(S) >= Hold THEN [reason |-> "no_exit_data", day |-> None]
    ELSE None

\* The session after which the hold is over.
Horizon(S) == CHOOSE d \in S : Held(S, d) = Hold

----------------------------------------------------------------------------
\* The bodies of the two jobs.

Trouble == troubles < Troubles /\ troubles' = troubles + 1
NoTrouble == UNCHANGED troubles

StartBody ==
    /\ loop.pc = "jobs"
    /\ StartJob(IF Current = "daily_close" THEN "closes" ELSE "book")
    /\ NoTrouble
    /\ UNCHANGED <<world, tables, quotes, verdict, history>>

\* daily_close: store the sessions whose close is final at the time of the tick and that
\* the table lacks, but for those on whose close the payload's rows disagree.  The payload
\* may leave out any of them, and a fetch may degrade: a success all the same.  An error for
\* a later ticker comes after the rows.
InsertCloses(days) ==
    LET offered == {d \in days \ unclear : d >= oldest /\ FinalAt(d, loop.at)}
        missing == offered \ calendar IN
    /\ loop.pc = "closes"
    /\ \/ /\ calendar' = calendar \union missing
          /\ BodyEnds("success") /\ NoTrouble
       \/ /\ \E stored \in SUBSET missing : calendar' = calendar \union stored
          /\ \E result \in {"success", "failed", "limit"} : BodyEnds(result)
          /\ Trouble
    /\ UNCHANGED <<now, row, runs, world, marks, outcome, quotes, verdict, history>>

\* Mutant: every weekday is a session.
StoreClosesWeekdays == InsertCloses(Weekdays)

StoreCloses == InsertCloses(Session)

\* The stored calendar reaches back to the entry: else the position is skipped.
Covered == 0 \in calendar

\* options_paper: register, read the calendar and the open positions.
OpenBook ==
    /\ loop.pc = "book"
    /\ IF outcome = None /\ Covered /\ Sessions # {}
       THEN loop' = [loop EXCEPT !.pc = "legs"] /\ left' = {}
       ELSE BodyEnds("success") /\ UNCHANGED left
    /\ NoTrouble
    /\ UNCHANGED <<now, row, runs, world, tables, quotes, verdict, basis>>

\* _historic, leg by leg, each behind a reservation: a refused one ends the run and a
\* degraded fetch skips the position, both as a success of the job; the rest raises.  The
\* rows of an answer are read one by one, and one that cannot be is left out; a contract
\* not found, or a payload without a list, is an answer without rows.
FetchLeg ==
    LET listed == posted[Len(quotes) + 1] IN
    /\ loop.pc = "legs"
    /\ \/ \E unread \in SUBSET listed :
             /\ quotes' = Append(quotes, listed \ unread)
             /\ left' = left \union unread
             /\ IF unread = {} THEN NoTrouble ELSE Trouble
          /\ loop' = IF Len(quotes') = Legs THEN [loop EXCEPT !.pc = "mark"] ELSE loop
       \/ /\ \E result \in {"success", "failed", "limit"} : BodyEnds(result)
          /\ Trouble
          /\ quotes' = <<>> /\ UNCHANGED left
    /\ UNCHANGED <<now, row, runs, world, tables, verdict, basis>>

\* A session is priced when every leg has a row.
Priced == {d \in Sessions : \A l \in Leg : d \in quotes[l]}

\* track and _store_marks: one transaction, which keeps the marks of earlier runs.  The
\* verdict rests on this run's answers alone; it is final, or waits.
Judge(stored, waits) ==
    LET found == Exit(Sessions, Priced) IN
    /\ loop.pc = "mark"
    /\ marks' = marks \union stored
    /\ IF found = None \/ (found.day = None /\ waits)
       THEN BodyEnds("success") /\ UNCHANGED <<verdict, basis>>
       ELSE loop' = [loop EXCEPT !.pc = "outcome"] /\ verdict' = found /\ basis' = Sessions
    /\ quotes' = <<>> /\ NoTrouble
    /\ UNCHANGED <<now, row, runs, world, calendar, outcome, left>>

\* No later session is stored.
Newest(d) == \A e \in calendar : e <= d

\* Mutants: an unknown horizon day is final at once, or never; only the newest session's
\* mark is stored.
StoreMarksHasty == Judge(Priced, FALSE)
StoreMarksWaiting == Judge(Priced, TRUE)
StoreMarksNewest == Judge({d \in Priced : Newest(d)}, Newest(Horizon(Sessions)))

StoreMarks == Judge(Priced, Newest(Horizon(Sessions)))

\* The next transaction: written once.
StoreOutcome ==
    /\ loop.pc = "outcome"
    /\ outcome' = IF outcome = None THEN verdict ELSE outcome
    /\ BodyEnds("success")
    /\ verdict' = None /\ NoTrouble
    /\ UNCHANGED <<now, row, runs, world, calendar, marks, quotes, history>>

----------------------------------------------------------------------------
\* The clock and the world.

Clock ==
    /\ \/ (Look \/ FinishJob) /\ NoTrouble /\ UNCHANGED <<quotes, verdict>>
       \/ Capped /\ Trouble /\ UNCHANGED <<quotes, verdict>>
       \/ Restart /\ Trouble /\ quotes' = <<>> /\ verdict' = None
    /\ UNCHANGED <<world, tables, history>>

Time ==
    /\ \/ NextSlot /\ NoTrouble
       \/ SlowSlot /\ Trouble
    /\ UNCHANGED <<world, tables, quotes, verdict, history>>

\* The rows of a session come to agree, at any time or never.
Agree(d) ==
    /\ d \in unclear /\ unclear' = unclear \ {d}
    /\ UNCHANGED <<now, row, loop, runs, oldest, price, posted, onTime, tables, quotes>>
    /\ UNCHANGED <<verdict, history>> /\ NoTrouble

\* The vendor lists a leg's row of a closed session, at any later time or never.
Post(l, d) ==
    /\ FinalAt(d, now) /\ d \notin posted[l]
    /\ posted' = [posted EXCEPT ![l] = @ \union {d}]
    /\ onTime' = IF /\ \A k \in Leg : d \in posted'[k]
                    /\ \A e \in Session : FinalAt(e, now) => e <= d
                 THEN onTime \union {d} ELSE onTime
    /\ UNCHANGED <<now, row, loop, runs, oldest, unclear, price, tables, quotes, verdict>>
    /\ UNCHANGED history /\ NoTrouble

Work == StartBody \/ StoreCloses \/ OpenBook \/ FetchLeg \/ StoreMarks \/ StoreOutcome

Vendor == (\E d \in Disputed : Agree(d)) \/ (\E l \in Leg, d \in Listed : Post(l, d))

Next == Work \/ Clock \/ Time \/ Vendor

Spec == Init /\ [][Next]_vars

FairSpec == Spec /\ WF_vars(Work) /\ WF_vars(Clock) /\ WF_vars(Time)

----------------------------------------------------------------------------

\* The final row agrees with the evidence beside it: the outcome is what the exit rules
\* give on the stored marks, by the sessions that were stored when it was decided.  It was
\* decided on one day's answers alone, while rows came in late between the runs, sessions
\* were stored after newer ones, and a crash may have fallen between the marks and the
\* outcome.  Only a mark whose row the deciding answers left out may have been overlooked
\* (run_options_paper, track, _store_marks).
OutcomeFaithful == outcome # None => outcome = Exit(basis, marks \ left)

\* "A late vendor row still counts": a position ends as unknown only if the vendor had not
\* listed every leg's row of the last session of the hold, as the hold was counted then, by
\* the close of the next trading day, or left it out of the deciding answer.
LateRowCounts ==
    outcome # None /\ outcome.day = None => Horizon(basis) \notin onTime \ left

\* A position whose entry the stored calendar reaches is settled in the end, whatever the
\* vendor lists, if failures are few.
PositionSettles == Covered ~> outcome # None
=============================================================================
