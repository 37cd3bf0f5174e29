----------------------------- MODULE DailyJobs ------------------------------
(***************************************************************************)
(* The clock of the daily jobs (webapp/board/daily_jobs.py) inside the     *)
(* board refresher's loop: what is due, the markers in alfa_job_run, and   *)
(* the run of the due jobs in registry order.  What a job does between its *)
(* start and its end is left to the module that extends this one.          *)
(*                                                                         *)
(* A day has SlotsPerDay slots, the first of them the market session.      *)
(***************************************************************************)
EXTENDS Integers, Sequences

CONSTANTS
    LastDay, SlotsPerDay,
    Weekdays,      \* the days that are not of a weekend: a holiday may be one of them
    Registry,      \* the jobs, in order
    JobSlot,       \* the slot of the day at which each job is due
    Cadence,       \* slots between two attempts of a job on one day
    MaxAttempts,   \* daily_job_max_attempts
    None

Day == 0..LastDay
Job == {Registry[i] : i \in 1..Len(Registry)}

ASSUME JobsAssumption ==
    /\ {LastDay, SlotsPerDay, Cadence, MaxAttempts} \subseteq Nat
    /\ SlotsPerDay > 0 /\ MaxAttempts > 0
    /\ Weekdays \subseteq Day
    /\ Registry \in Seq(STRING)
    /\ JobSlot \in [Job -> 0..SlotsPerDay - 1]
    /\ None \notin {"running", "success", "failed", "limit"} \union Nat

VARIABLES
    now,     \* the slot, counted from the first day's first
    row,     \* alfa_job_run: each job's marker of the last day it has one for (no other is read)
    loop,    \* the refresher's loop: where it stands, and its locals of this tick
    runs     \* history: the bodies of each job that began on its marker's day

LastTime == SlotsPerDay * (LastDay + 1) - 1

DayOf(t) == t \div SlotsPerDay
SlotOf(t) == t % SlotsPerDay

NoRow(d) == [day |-> d, status |-> None, started |-> 0, attempts |-> 0]
Row == [day : Day, status : {None, "running", "success", "failed"},
        started : 0..LastTime, attempts : Nat]

\* read_job_states: the marker of one day.
Marker(j, d) == IF row[j].day = d THEN row[j] ELSE NoRow(d)

\* pc is "idle" between ticks, "resting" when the tick ended with jobs still due, "jobs"
\* between two jobs, "ending" when the body is over, or a place in a body.
Still(pc) == [pc |-> pc, at |-> 0, pending |-> {}, result |-> None]

----------------------------------------------------------------------------

\* Mutant: the attempts of the day are not counted.
IsDueAgain(j, t) ==
    LET r == Marker(j, DayOf(t)) IN
    /\ DayOf(t) \in Weekdays /\ SlotOf(t) >= JobSlot[j]
    /\ r.status # None => r.status # "success" /\ t - r.started >= Cadence

IsDue(j, t) ==
    LET r == Marker(j, DayOf(t)) IN
    /\ DayOf(t) \in Weekdays /\ SlotOf(t) >= JobSlot[j]
    /\ r.status # None =>
          /\ r.status # "success"
          /\ t - r.started >= Cadence
          /\ r.attempts < MaxAttempts

DueJobs(t) == {j \in Job : IsDue(j, t)}

\* A tick that finds jobs due, and takes them all before it runs the first.
Look ==
    /\ loop.pc = "idle" /\ DueJobs(now) # {}
    /\ loop' = [pc |-> "jobs", at |-> now, pending |-> DueJobs(now), result |-> None]
    /\ UNCHANGED <<now, row, runs>>

\* The soft cap is reached, before the first job or before a later one, or the client's
\* breaker is open: what is left stays due for another tick.
Capped ==
    /\ \/ loop.pc = "idle" /\ DueJobs(now) # {}
       \/ loop.pc = "jobs"
    /\ loop' = Still("resting")
    /\ UNCHANGED <<now, row, runs>>

\* The job being run, or the next: the first of them in registry order.
Current ==
    LET first == CHOOSE i \in 1..Len(Registry) :
                     /\ Registry[i] \in loop.pending
                     /\ \A k \in 1..i - 1 : Registry[k] \notin loop.pending
    IN  Registry[first]

\* mark_started, before the body.
StartJob(pc) ==
    LET old == Marker(Current, DayOf(loop.at)) IN
    /\ loop.pc = "jobs"
    /\ row' = [row EXCEPT ![Current] = [day |-> old.day, status |-> "running",
                                       started |-> loop.at, attempts |-> old.attempts + 1]]
    /\ runs' = [runs EXCEPT ![Current] =
          [day |-> old.day, begun |-> IF @.day = old.day THEN @.begun + 1 ELSE 1]]
    /\ loop' = [loop EXCEPT !.pc = pc]
    /\ UNCHANGED now

\* The body returns, raises an error of its own, or raises one that ends the tick.
BodyEnds(result) == loop' = [loop EXCEPT !.pc = "ending", !.result = result]

\* mark_finished.  The daily limit and a key failure propagate to the loop.
FinishJob ==
    /\ loop.pc = "ending"
    /\ row' = [row EXCEPT ![Current].status =
          IF loop.result = "success" THEN "success" ELSE "failed"]
    /\ loop' = IF loop.result = "limit" THEN Still("resting")
               ELSE IF loop.pending = {Current} THEN Still("idle")
               ELSE [loop EXCEPT !.pc = "jobs", !.pending = @ \ {Current}, !.result = None]
    /\ UNCHANGED <<now, runs>>

\* The process dies and a new one starts: the markers are all that is left.
Restart ==
    /\ loop.pc \notin {"idle", "resting"}
    /\ loop' = Still("idle")
    /\ UNCHANGED <<now, row, runs>>

\* The next slot begins.  The loop wakes in time for what is due (its sleep is capped).
NextSlot ==
    /\ now < LastTime
    /\ \/ loop.pc = "idle" /\ DueJobs(now) = {}
       \/ loop.pc = "resting"
    /\ now' = now + 1 /\ loop' = Still("idle")
    /\ UNCHANGED <<row, runs>>

\* Time passes while jobs run: a body that lasts, even past midnight.
SlowSlot ==
    /\ now < LastTime
    /\ loop.pc \notin {"idle", "resting"}
    /\ now' = now + 1
    /\ UNCHANGED <<row, loop, runs>>

\* Body is the set of places in the bodies of the jobs.
JobsTypeOK(Body) ==
    /\ now \in 0..LastTime
    /\ row \in [Job -> Row]
    /\ runs \in [Job -> [day : Day, begun : Nat]]
    /\ loop \in [pc : {"idle", "resting", "jobs", "ending"} \union Body,
                at : 0..LastTime, pending : SUBSET Job,
                result : {None, "success", "failed", "limit"}]
    /\ loop.pc \notin {"idle", "resting"} => loop.pending # {}

JobsInit ==
    /\ now = 0
    /\ row = [j \in Job |-> NoRow(0)]
    /\ runs = [j \in Job |-> [day |-> 0, begun |-> 0]]
    /\ loop = Still("idle")

\* A job that keeps failing stops for the day: with crashes, restarts, bodies that run past
\* midnight and errors that end the tick, no job begins more often on one day than
\* MaxAttempts, so what it can spend of the vendor's quota is bounded (daily_jobs.py,
\* is_due and mark_started).
AttemptsBounded == \A j \in Job : runs[j].begun <= MaxAttempts
=============================================================================
