------------------------- MODULE OptionsPaperProofs -------------------------
(***************************************************************************)
(* Proofs about OptionsPaper, for every calendar, hold, number of legs and *)
(* bound.                                                                  *)
(***************************************************************************)
EXTENDS OptionsPaper, FiniteSetTheorems, WellFoundedInduction, TLAPS

\* The constants.
LEMMA Settings ==
    /\ LastDay \in Nat /\ SlotsPerDay \in Nat \ {0} /\ Cadence \in Nat
    /\ MaxAttempts \in Nat \ {0}
    /\ Closed \in Nat /\ Hold \in Nat \ {0} /\ Legs \in Nat \ {0} /\ Troubles \in Nat
    /\ None \notin Nat /\ None \notin {"running", "success", "failed", "limit"}
    /\ Session \subseteq Day /\ 0 \in Session /\ Listed \subseteq Session
    /\ Disputed \subseteq Session /\ Cardinality(Disputed) <= Troubles
  BY JobsAssumption, PaperAssumption

\* The two jobs.
LEMMA Jobs == Job = {"daily_close", "options_paper"}
  <1>1. Registry = <<"daily_close", "options_paper">>
    BY PaperAssumption
  <1>2. Len(Registry) = 2 /\ Registry[1] = "daily_close" /\ Registry[2] = "options_paper"
    BY <1>1
  <1> QED BY <1>2 DEF Job

\* The first pending job exists.
LEMMA CurrentPending ==
    ASSUME loop.pending \subseteq Job, loop.pending # {}
    PROVE  Current \in loop.pending
  <1>1. Registry = <<"daily_close", "options_paper">>
    BY PaperAssumption
  <1>2. Len(Registry) = 2 /\ Registry[1] = "daily_close" /\ Registry[2] = "options_paper"
    BY <1>1
  <1>3. \E i \in 1..2 : /\ Registry[i] \in loop.pending
                        /\ \A k \in 1..i - 1 : Registry[k] \notin loop.pending
    <2>1. CASE "daily_close" \in loop.pending
      BY <2>1, <1>2
    <2>2. CASE "daily_close" \notin loop.pending
      <3>1. "options_paper" \in loop.pending
        BY <2>2, Jobs
      <3> QED BY <3>1, <2>2, <1>2
    <2> QED BY <2>1, <2>2
  <1> QED BY <1>2, <1>3 DEF Current

\* A time lies in a day, and later days close later.
LEMMA TimeDay == \A t \in 0..LastTime : DayOf(t) \in Day
  <1> SUFFICES ASSUME NEW t \in 0..LastTime PROVE DayOf(t) \in Day
    OBVIOUS
  <1> DEFINE q == t \div SlotsPerDay
  <1>1. t \in Nat /\ SlotsPerDay \in Nat \ {0} /\ LastDay \in Nat
        /\ t < SlotsPerDay * (LastDay + 1)
    BY Settings DEF LastTime
  <1>2. q \in Int /\ SlotsPerDay * q <= t /\ t < SlotsPerDay * (q + 1)
    BY <1>1
  <1>3. q >= 0
    <2>1. SUFFICES ASSUME q <= -1 PROVE FALSE
      BY <1>2
    <2>2. q + 1 <= 0 /\ q + 1 \in Int
      BY <2>1, <1>2
    <2>3. SlotsPerDay * (q + 1) <= 0
      BY <2>2, <1>1
    <2> QED BY <2>3, <1>1, <1>2
  <1>4. q <= LastDay
    <2>1. SUFFICES ASSUME q >= LastDay + 1 PROVE FALSE
      BY <1>1, <1>2
    <2>2. SlotsPerDay * q >= SlotsPerDay * (LastDay + 1)
      BY <2>1, <1>1, <1>2
    <2> QED BY <2>2, <1>1, <1>2
  <1> QED BY <1>1, <1>2, <1>3, <1>4 DEF DayOf, Day

----------------------------------------------------------------------------
\* The jobs' part: markers and attempts.

\* The markers count the bodies that began, up to the bound.
Counted ==
    \A j \in Job :
        /\ runs[j].day = row[j].day /\ runs[j].begun = row[j].attempts
        /\ row[j].attempts <= MaxAttempts
        /\ row[j].status = None => row[j].attempts = 0

\* The pending jobs whose body has not begun may begin.
Unbegun == IF loop.pc = "jobs" THEN loop.pending ELSE loop.pending \ {Current}

Allowed == \A j \in Unbegun : Marker(j, DayOf(loop.at)).attempts < MaxAttempts

Loop == [pc : {"idle", "resting", "jobs", "ending"} \union Body,
         at : 0..LastTime, pending : SUBSET Job,
         result : {None, "success", "failed", "limit"}]

TypesOK ==
    /\ now \in 0..LastTime /\ row \in [Job -> Row]
    /\ runs \in [Job -> [day : Day, begun : Nat]]
    /\ loop \in Loop
    /\ loop.pc \notin {"idle", "resting"} => loop.pending # {}

JobsInv == TypesOK /\ Counted /\ Allowed /\ loop.at <= now

Resting == {"idle", "resting"}

\* Time 0 is a time.
LEMMA TimeZero == 0 \in 0..LastTime
  <1>1. SlotsPerDay \in Nat \ {0} /\ LastDay + 1 \in Nat \ {0}
    BY Settings
  <1>2. SlotsPerDay * (LastDay + 1) >= 1
    <2> DEFINE n == LastDay + 1
    <2>1. n \in Nat /\ n >= 1
      BY <1>1
    <2> HIDE DEF n
    <2>2. SlotsPerDay * n >= SlotsPerDay
      BY <1>1, <2>1
    <2> QED BY <1>1, <2>2 DEF n
  <1>3. SlotsPerDay * (LastDay + 1) \in Nat
    BY <1>1
  <1> QED BY <1>2, <1>3 DEF LastTime

\* Nothing is pending between ticks.
LEMMA StillAllowed ==
    ASSUME NEW pc \in Resting, loop' = Still(pc), JobsInv, now' \in 0..LastTime, now <= now',
           UNCHANGED <<row, runs>>
    PROVE  JobsInv'
  <1>1. loop' = [pc |-> pc, at |-> 0, pending |-> {}, result |-> None]
    BY DEF Still
  <1>2. TypesOK'
    <2>1. loop' \in Loop
      BY <1>1, TimeZero DEF Resting, Loop
    <2> QED BY <1>1, <2>1 DEF JobsInv, TypesOK, Loop, Resting
  <1>3. Counted'
    BY DEF JobsInv, Counted
  <1>4. Allowed'
    BY <1>1 DEF Allowed, Unbegun
  <1>5. loop'.at <= now'
    BY <1>1
  <1> QED BY <1>2, <1>3, <1>4, <1>5 DEF JobsInv

\* A step inside a body, up to its end.
LEMMA BodyKeeps ==
    ASSUME JobsInv, loop.pc \notin Resting \union {"jobs"},
           NEW pc \in Body \union {"ending"},
           NEW result \in {None, "success", "failed", "limit"},
           loop' = [loop EXCEPT !.pc = pc, !.result = result],
           UNCHANGED <<row, runs>>, now' \in 0..LastTime, now <= now'
    PROVE  JobsInv'
  <1>1. loop' = [pc |-> pc, at |-> loop.at, pending |-> loop.pending, result |-> result]
    BY DEF JobsInv, TypesOK, Loop
  <1>2. TypesOK'
    BY <1>1 DEF JobsInv, TypesOK, Loop, Resting
  <1>3. Counted'
    BY DEF JobsInv, Counted
  <1>4. Current' = Current
    BY <1>1 DEF Current
  <1>5. Unbegun' = Unbegun
    BY <1>1, <1>4 DEF Unbegun, Body
  <1>6. Allowed'
    BY <1>1, <1>5 DEF JobsInv, Allowed, Marker
  <1>7. loop'.at <= now'
    BY <1>1, TimeZero DEF JobsInv, TypesOK, Loop
  <1> QED BY <1>2, <1>3, <1>6, <1>7 DEF JobsInv

LEMMA LookKeeps == ASSUME JobsInv, Look PROVE JobsInv'
  <1>1. loop' = [pc |-> "jobs", at |-> now, pending |-> DueJobs(now), result |-> None]
        /\ now' = now /\ row' = row /\ runs' = runs
    BY DEF Look
  <1>2. DueJobs(now) \subseteq Job /\ DueJobs(now) # {}
    BY DEF Look, DueJobs
  <1>3. TypesOK'
    <2>1. loop' \in Loop
      BY <1>1, <1>2 DEF JobsInv, TypesOK, Loop
    <2>2. loop'.pending # {}
      BY <1>1, <1>2
    <2> QED BY <1>1, <2>1, <2>2 DEF JobsInv, TypesOK, Loop
  <1>4. Counted'
    BY <1>1 DEF JobsInv, Counted
  <1>5. ASSUME NEW j \in DueJobs(now)
        PROVE  Marker(j, DayOf(now)).attempts < MaxAttempts
    <2>1. j \in Job /\ IsDue(j, now)
      BY DEF DueJobs
    <2>2. CASE Marker(j, DayOf(now)).status # None
      BY <2>1, <2>2 DEF IsDue
    <2>3. CASE Marker(j, DayOf(now)).status = None
      <3>1. CASE row[j].day = DayOf(now)
        BY <2>1, <2>3, <3>1, Settings DEF JobsInv, Counted, Marker
      <3>2. CASE row[j].day # DayOf(now)
        BY <3>2, Settings DEF Marker, NoRow
      <3> QED BY <3>1, <3>2
    <2> QED BY <2>2, <2>3
  <1>6. Allowed'
    BY <1>1, <1>5 DEF Allowed, Unbegun, Marker
  <1>7. loop'.at <= now'
    BY <1>1 DEF JobsInv, TypesOK, Loop
  <1> QED BY <1>3, <1>4, <1>6, <1>7 DEF JobsInv

LEMMA StartKeeps ==
    ASSUME JobsInv, NEW pc \in {"closes", "book"}, StartJob(pc)
    PROVE  JobsInv'
  <1> DEFINE d == DayOf(loop.at)
             old == Marker(Current, d)
             new == [day |-> old.day, status |-> "running", started |-> loop.at,
                     attempts |-> old.attempts + 1]
             begun == IF runs[Current].day = old.day THEN runs[Current].begun + 1 ELSE 1
  <1>1. /\ loop.pc = "jobs" /\ loop.pending \subseteq Job /\ loop.pending # {}
        /\ loop.at \in 0..LastTime /\ now' = now
        /\ row \in [Job -> Row] /\ runs \in [Job -> [day : Day, begun : Nat]]
    BY DEF StartJob, JobsInv, TypesOK, Loop
  <1>2. Current \in loop.pending /\ Current \in Job
    BY <1>1, CurrentPending
  <1>3. d \in Day
    BY <1>1, TimeDay
  <1>4. /\ old.day = d /\ old.attempts \in Nat /\ old.attempts < MaxAttempts
        /\ row[Current].day = d => old = row[Current]
        /\ row[Current].day # d => old.attempts = 0
    <2>1. old.attempts < MaxAttempts
      BY <1>1, <1>2 DEF JobsInv, Allowed, Unbegun
    <2>2. CASE row[Current].day = d
      BY <1>1, <1>2, <2>1, <2>2 DEF Marker, Row
    <2>3. CASE row[Current].day # d
      BY <2>1, <2>3 DEF Marker, NoRow
    <2> QED BY <2>2, <2>3
  <1>5. begun = old.attempts + 1
    <2>1. runs[Current].day = row[Current].day /\ runs[Current].begun = row[Current].attempts
      BY <1>2 DEF JobsInv, Counted
    <2> QED BY <2>1, <1>4
  <1> HIDE DEF d, old
  <1>6. new \in Row
    BY <1>1, <1>3, <1>4 DEF Row
  <1>7. row' = [row EXCEPT ![Current] = new]
    BY DEF StartJob, old, d
  <1>8. runs' = [runs EXCEPT ![Current] = [day |-> d, begun |-> old.attempts + 1]]
    <2>1. runs' = [runs EXCEPT ![Current] =
              [day |-> old.day, begun |-> IF runs[Current].day = old.day
                                          THEN runs[Current].begun + 1 ELSE 1]]
      BY DEF StartJob, old, d
    <2> QED BY <2>1, <1>4, <1>5
  <1>9. loop' = [pc |-> pc, at |-> loop.at, pending |-> loop.pending, result |-> loop.result]
    BY DEF StartJob, JobsInv, TypesOK, Loop
  <1>10. TypesOK'
    <2>1. row' \in [Job -> Row]
      BY <1>1, <1>6, <1>7
    <2>2. runs' \in [Job -> [day : Day, begun : Nat]]
      BY <1>1, <1>2, <1>3, <1>4, <1>8
    <2>3. loop' \in Loop
      <3>1. pc \in Body
        BY DEF Body
      <3> QED BY <1>9, <3>1 DEF JobsInv, TypesOK, Loop
    <2> QED BY <1>1, <1>9, <2>1, <2>2, <2>3 DEF JobsInv, TypesOK, Loop
  <1>11. Counted'
    <2> SUFFICES ASSUME NEW j \in Job
                 PROVE  /\ runs'[j].day = row'[j].day /\ runs'[j].begun = row'[j].attempts
                        /\ row'[j].attempts <= MaxAttempts
                        /\ row'[j].status = None => row'[j].attempts = 0
      BY DEF Counted
    <2>1. CASE j = Current
      <3>1. row'[j] = new /\ runs'[j] = [day |-> d, begun |-> old.attempts + 1]
        BY <2>1, <1>1, <1>7, <1>8
      <3>2. "running" # None
        BY Settings
      <3>3. row'[j].day = d /\ row'[j].attempts = old.attempts + 1 /\ row'[j].status = "running"
        BY <3>1, <1>4
      <3> QED BY <3>1, <3>2, <3>3, <1>4, Settings
    <2>2. CASE j # Current
      BY <2>2, <1>1, <1>7, <1>8 DEF JobsInv, Counted
    <2> QED BY <2>1, <2>2
  <1>12. Allowed'
    <2>1. Current' = Current
      BY <1>9 DEF Current
    <2>2. Unbegun' = loop.pending \ {Current}
      BY <1>9, <2>1 DEF Unbegun
    <2>3. \A j \in loop.pending \ {Current} : row'[j] = row[j]
      BY <1>1, <1>7
    <2>4. \A j \in loop.pending : Marker(j, DayOf(loop.at)).attempts < MaxAttempts
      BY <1>1 DEF JobsInv, Allowed, Unbegun
    <2> QED BY <2>2, <2>3, <2>4, <1>9 DEF Allowed, Marker
  <1>13. loop'.at <= now'
    BY <1>1, <1>9 DEF JobsInv
  <1> QED BY <1>10, <1>11, <1>12, <1>13 DEF JobsInv

LEMMA FinishKeeps == ASSUME JobsInv, FinishJob PROVE JobsInv'
  <1> DEFINE status == IF loop.result = "success" THEN "success" ELSE "failed"
             rest == loop.pending \ {Current}
  <1>1. /\ loop.pc = "ending" /\ loop.pending \subseteq Job /\ loop.pending # {}
        /\ now' = now /\ runs' = runs /\ now \in 0..LastTime
        /\ row \in [Job -> Row] /\ runs \in [Job -> [day : Day, begun : Nat]]
    BY DEF FinishJob, JobsInv, TypesOK, Loop
  <1>2. Current \in loop.pending /\ Current \in Job
    BY <1>1, CurrentPending
  <1>3. row' = [row EXCEPT ![Current] =
            [day |-> row[Current].day, status |-> status, started |-> row[Current].started,
             attempts |-> row[Current].attempts]]
    <2>1. row[Current] \in Row
      BY <1>1, <1>2
    <2>2. row' = [row EXCEPT ![Current].status = status]
      BY DEF FinishJob
    <2>3. [row[Current] EXCEPT !.status = status] =
            [day |-> row[Current].day, status |-> status, started |-> row[Current].started,
             attempts |-> row[Current].attempts]
      BY <2>1 DEF Row
    <2> HIDE DEF status
    <2> QED BY <1>1, <1>2, <2>2, <2>3
  <1>4. row' \in [Job -> Row]
    BY <1>1, <1>2, <1>3 DEF Row
  <1>5. \A j \in Job : /\ row'[j].day = row[j].day /\ row'[j].attempts = row[j].attempts
                       /\ j # Current => row'[j] = row[j]
    BY <1>1, <1>3
  <1>6. Counted'
    <2>1. row'[Current].status = status /\ status # None
      <3>1. status # None
        BY Settings
      <3> QED BY <1>1, <1>2, <1>3, <3>1
    <2> QED BY <1>1, <1>5, <2>1 DEF JobsInv, Counted
  <1>7. \/ loop' = Still("resting") \/ loop' = Still("idle")
        \/ rest # {} /\ loop' = [pc |-> "jobs", at |-> loop.at, pending |-> rest, result |-> None]
    <2>1. loop \in Loop
      BY DEF JobsInv, TypesOK, Loop
    <2>2. CASE loop.result = "limit"
      BY <2>2 DEF FinishJob
    <2>3. CASE loop.result # "limit" /\ loop.pending = {Current}
      BY <2>3 DEF FinishJob
    <2>4. CASE loop.result # "limit" /\ loop.pending # {Current}
      <3>1. rest # {}
        BY <2>4, <1>2
      <3>2. loop' = [loop EXCEPT !.pc = "jobs", !.pending = rest, !.result = None]
        BY <2>4 DEF FinishJob
      <3>3. loop' = [pc |-> "jobs", at |-> loop.at, pending |-> rest, result |-> None]
        BY <2>1, <3>2 DEF Loop
      <3> QED BY <3>1, <3>3
    <2> QED BY <2>2, <2>3, <2>4
  <1>8. CASE loop' = Still("resting") \/ loop' = Still("idle")
    <2>1. loop'.at = 0 /\ loop'.pending = {} /\ loop'.pc \in Resting /\ loop'.result = None
          /\ loop' \in Loop
      <3>1. PICK pc \in Resting : loop' = [pc |-> pc, at |-> 0, pending |-> {}, result |-> None]
        BY <1>8 DEF Still, Resting
      <3> QED BY <3>1, TimeZero DEF Loop, Resting
    <2>2. TypesOK'
      BY <1>1, <1>4, <2>1 DEF JobsInv, TypesOK, Loop, Resting
    <2>3. Allowed'
      BY <2>1 DEF Allowed, Unbegun
    <2>4. loop'.at <= now'
      BY <2>1, <1>1
    <2> QED BY <1>6, <2>2, <2>3, <2>4 DEF JobsInv
  <1>9. CASE rest # {} /\ loop' = [pc |-> "jobs", at |-> loop.at, pending |-> rest, result |-> None]
    <2>1. TypesOK'
      <3>1. loop' \in Loop
        BY <1>1, <1>9 DEF JobsInv, TypesOK, Loop
      <3>2. loop'.pending # {}
        BY <1>9
      <3> QED BY <1>1, <1>4, <3>1, <3>2 DEF JobsInv, TypesOK, Loop
    <2>2. Unbegun' = rest
      BY <1>9 DEF Unbegun
    <2>3. \A j \in rest : row'[j] = row[j] /\ Marker(j, DayOf(loop.at)).attempts < MaxAttempts
      BY <1>1, <1>5 DEF JobsInv, Allowed, Unbegun
    <2>4. Allowed'
      BY <1>9, <2>2, <2>3 DEF Allowed, Marker
    <2>5. loop'.at <= now'
      BY <1>1, <1>9 DEF JobsInv
    <2> QED BY <1>6, <2>1, <2>4, <2>5 DEF JobsInv
  <1> QED BY <1>7, <1>8, <1>9

----------------------------------------------------------------------------
\* Counting the sessions of the hold.

LEMMA HeldCounts ==
    ASSUME NEW S \in SUBSET Day, NEW n \in Nat
    PROVE  IsFiniteSet({e \in S : e <= n}) /\ Held(S, n) \in Nat
  <1>1. IsFiniteSet(Day)
    BY FS_Interval, Settings DEF Day
  <1>2. {e \in S : e <= n} \subseteq Day
    OBVIOUS
  <1> QED BY <1>1, <1>2, FS_Subset, FS_CardinalityType DEF Held

\* With enough sessions, one is the last of the hold.
LEMMA HorizonHeld ==
    ASSUME NEW S \in SUBSET Day, 0 \notin S, Cardinality(S) >= Hold
    PROVE  Horizon(S) \in S /\ Held(S, Horizon(S)) = Hold
  <1> DEFINE T == {n \in Nat : Held(S, n) >= Hold}
  <1>0. \A e \in S : e \in Nat /\ e > 0 /\ e <= LastDay
    BY Settings DEF Day
  <1>1. LastDay \in T
    <2>1. {e \in S : e <= LastDay} = S
      BY <1>0
    <2> QED BY <2>1, Settings DEF Held
  <1>2. PICK n \in T : \A m \in T : ~ (<<m, n>> \in OpToRel(<, Nat))
    BY <1>1, NatLessThanWellFounded, WFMin
  <1>3. \A m \in T : ~ (m < n)
    BY <1>2 DEF OpToRel
  <1>4. n \in Nat /\ Held(S, n) >= Hold
    OBVIOUS
  <1>5. n > 0
    <2>1. SUFFICES ASSUME n = 0 PROVE FALSE
      BY <1>4
    <2>2. {e \in S : e <= n} = {}
      BY <2>1, <1>0
    <2> QED BY <2>2, <1>4, FS_EmptySet, Settings DEF Held
  <1>6. n - 1 \in Nat /\ n - 1 \notin T
    BY <1>3, <1>4, <1>5
  <1> DEFINE before == {e \in S : e <= n - 1}
             c == Cardinality(before)
  <1>7. IsFiniteSet(before) /\ c \in Nat /\ c < Hold
    <2>1. Held(S, n - 1) = c
      BY DEF Held
    <2>2. IsFiniteSet(before) /\ Held(S, n - 1) \in Nat
      <3>1. n - 1 \in Nat
        BY <1>6
      <3> QED BY <3>1, HeldCounts
    <2>3. ~ (Held(S, n - 1) >= Hold)
      BY <1>6
    <2> HIDE DEF before, c, T
    <2> QED BY <2>1, <2>2, <2>3, Settings
  <1>8. n \in S
    <2>1. SUFFICES ASSUME n \notin S PROVE FALSE
      OBVIOUS
    <2>2. {e \in S : e <= n} = before
      BY <2>1, <1>0, <1>4
    <2>3. Held(S, n) = c
      BY <2>2 DEF Held
    <2> HIDE DEF before, c, T
    <2> QED BY <2>3, <1>4, <1>7, Settings
  <1>9. {e \in S : e <= n} = before \union {n}
    <2>1. \A e \in S : e <= n <=> (e <= n - 1 \/ e = n)
      BY <1>0, <1>4
    <2> HIDE DEF T, c
    <2> QED BY <2>1, <1>4, <1>8
  <1>10. n \notin before
    BY <1>4
  <1>11. Held(S, n) = c + 1
    <2>1. Held(S, n) = Cardinality(before \union {n})
      BY <1>9 DEF Held
    <2> HIDE DEF before
    <2> QED BY <2>1, <1>7, <1>10, FS_AddElement
  <1>12. Held(S, n) = Hold
    BY <1>4, <1>7, <1>11, Settings
  <1> HIDE DEF T, before, c
  <1> QED BY <1>8, <1>12 DEF Horizon

----------------------------------------------------------------------------
\* The tracker's part.

PaperTypes ==
    /\ oldest \in Oldest /\ unclear \subseteq Disputed /\ price \in Prices
    /\ posted \in [Leg -> SUBSET Day] /\ onTime \subseteq Day
    /\ calendar \subseteq Session /\ marks \subseteq Session
    /\ outcome \in {None} \union Verdict /\ verdict \in {None} \union Verdict
    /\ quotes \in Seq(SUBSET Day) /\ Len(quotes) <= Legs
    /\ left \subseteq Day /\ basis \subseteq Session /\ troubles \in 0..Troubles

\* The stored sessions of the hold are over.
Stored == \A e \in Sessions : FinalAt(e, now)

\* Marks are of stored sessions, and rest on rows that were listed.
Evidence ==
    /\ marks \subseteq Sessions
    /\ \A l \in Leg : marks \subseteq posted[l] /\ onTime \subseteq posted[l]

\* Of an answer only what it left out is missing: every row marked before, and every row
\* listed in time of a day that has a stored successor.
Fetched(q) ==
    /\ marks \subseteq q \union left
    /\ \A d \in onTime, e \in calendar : d < e => d \in q \union left

Tracking == {"legs", "mark", "outcome"}

Locals ==
    /\ loop.pc \notin {"legs", "mark"} => quotes = <<>>
    /\ loop.pc = "legs" => Len(quotes) < Legs
    /\ loop.pc = "mark" => Len(quotes) = Legs
    /\ \A i \in 1..Len(quotes) : Fetched(quotes[i]) /\ quotes[i] \subseteq posted[i]
    /\ loop.pc \in {"legs", "mark"} =>
           \A d \in left : \E i \in 1..Len(quotes) : d \notin quotes[i]
    /\ verdict # None <=> loop.pc = "outcome"
    /\ loop.pc \in Tracking => outcome = None

\* What an outcome stands on.
Sound(o) ==
    /\ o = Exit(basis, marks \ left)
    /\ o.day = None => /\ Horizon(basis) \in Day /\ Horizon(basis) \notin onTime \ left
                       /\ \E e \in Session : e > Horizon(basis) /\ FinalAt(e, now)

Settled ==
    /\ verdict # None => Sound(verdict)
    /\ outcome # None => Sound(outcome)

PaperInv == PaperTypes /\ Stored /\ Evidence /\ Locals /\ Settled

\* Days are numbers.
LEMMA Days == Day \subseteq Nat /\ Session \subseteq Nat /\ Listed \subseteq Nat
  BY Settings DEF Day

\* A close that is final stays final.
LEMMA FinalStays ==
    ASSUME NEW d \in Nat, NEW s \in Nat, NEW t \in Nat, s <= t, FinalAt(d, s)
    PROVE  FinalAt(d, t)
  <1>1. d * SlotsPerDay \in Nat /\ Closed \in Nat
    BY Settings
  <1> QED BY <1>1 DEF FinalAt

\* What a verdict stands on outlasts the steps that leave the marks alone.
LEMMA SoundKeeps ==
    ASSUME NEW o, Sound(o), UNCHANGED <<price, onTime, marks, history>>,
           now \in Nat, now' \in Nat, now <= now'
    PROVE  Sound(o)'
  <1>1. left' = left /\ basis' = basis
    BY DEF history
  <1>2. Exit(basis, marks \ left)' = Exit(basis, marks \ left)
    BY <1>1 DEF Exit, Fires, Reason, Held
  <1>3. Horizon(basis)' = Horizon(basis)
    BY <1>1 DEF Horizon, Held
  <1>4. ASSUME NEW e \in Session, FinalAt(e, now) PROVE FinalAt(e, now')
    BY <1>4, Days, FinalStays
  <1>5. \A e : FinalAt(e, now)' <=> FinalAt(e, now')
    BY DEF FinalAt
  <1> QED BY <1>1, <1>2, <1>3, <1>4, <1>5 DEF Sound

\* Nothing of the tracker's evidence changes, in any state of the clock.
LEMMA TablesKeep ==
    ASSUME PaperInv, UNCHANGED <<posted, onTime, calendar, marks>>,
           now \in Nat, now' \in Nat, now <= now'
    PROVE  Stored' /\ Evidence'
  <1>1. Sessions' = Sessions
    BY DEF Sessions
  <1>2. ASSUME NEW e \in Sessions PROVE FinalAt(e, now')
    <2>1. e \in Nat /\ FinalAt(e, now)
      BY Days DEF PaperInv, PaperTypes, Stored, Sessions
    <2> QED BY <2>1, FinalStays
  <1>3. Stored'
    BY <1>1, <1>2 DEF Stored, FinalAt
  <1>4. Evidence'
    BY <1>1 DEF PaperInv, Evidence
  <1> QED BY <1>3, <1>4

\* The tracker is not at work after the step.
LEMMA AwayKeeps ==
    ASSUME PaperInv, UNCHANGED <<world, tables, basis>>, left' = left \/ outcome = None,
           left' \subseteq Day, troubles' \in 0..Troubles,
           now \in Nat, now' \in Nat, now <= now',
           quotes' = <<>>, verdict' = None, loop'.pc \notin Tracking
    PROVE  PaperInv'
  <1>1. PaperTypes'
    BY Settings DEF PaperInv, PaperTypes, world, tables
  <1>2. Stored' /\ Evidence'
    BY TablesKeep DEF world, tables
  <1>3. Locals'
    BY DEF Locals, Tracking
  <1>4. Settled'
    <2>1. outcome' = outcome /\ price' = price /\ onTime' = onTime /\ marks' = marks
          /\ basis' = basis
      BY DEF world, tables
    <2>2. ASSUME outcome # None PROVE Sound(outcome)'
      <3>1. Sound(outcome) /\ left' = left
        BY <2>2 DEF PaperInv, Settled
      <3> QED BY <2>1, <3>1, SoundKeeps DEF Sound, history
    <2> QED BY <2>1, <2>2 DEF Settled
  <1> QED BY <1>1, <1>2, <1>3, <1>4 DEF PaperInv

\* Only time passes, or the vendor's rows of a session come to agree.
LEMMA WaitKeeps ==
    ASSUME PaperInv, UNCHANGED <<oldest, price, posted, onTime, tables, history>>,
           UNCHANGED <<quotes, verdict, loop>>, unclear' \subseteq unclear,
           troubles' \in 0..Troubles, now \in Nat, now' \in Nat, now <= now'
    PROVE  PaperInv'
  <1>1. PaperTypes'
    BY DEF PaperInv, PaperTypes, tables, history
  <1>2. Stored' /\ Evidence'
    BY TablesKeep DEF tables
  <1>3. Locals'
    BY DEF PaperInv, Locals, Fetched, tables, history
  <1>4. Settled'
    <2>1. outcome' = outcome /\ verdict' = verdict /\ marks' = marks
      BY DEF tables
    <2>2. ASSUME Sound(outcome) PROVE Sound(outcome)'
      <3>1. PICK o : o = outcome
        OBVIOUS
      <3>2. Sound(o)'
        BY <2>1, <2>2, <3>1, SoundKeeps
      <3> QED BY <2>1, <3>1, <3>2 DEF Sound
    <2>3. ASSUME Sound(verdict) PROVE Sound(verdict)'
      <3>1. PICK o : o = verdict
        OBVIOUS
      <3>2. Sound(o)'
        BY <2>1, <2>3, <3>1, SoundKeeps
      <3> QED BY <2>1, <3>1, <3>2 DEF Sound
    <2> QED BY <2>1, <2>2, <2>3 DEF PaperInv, Settled
  <1> QED BY <1>1, <1>2, <1>3, <1>4 DEF PaperInv

----------------------------------------------------------------------------
\* The steps.

IInv == JobsInv /\ PaperInv

LEMMA TypeOKParts == TypeOK <=> TypesOK /\ PaperTypes
  BY DEF TypeOK, TypesOK, PaperTypes, JobsTypeOK, Loop

LEMMA InitHolds == Init => IInv
  <1> SUFFICES ASSUME Init PROVE IInv
    OBVIOUS
  <1>1. 0 \in Day
    BY Settings DEF Day
  <1>2. loop = [pc |-> "idle", at |-> 0, pending |-> {}, result |-> None]
        /\ now = 0 /\ row = [j \in Job |-> NoRow(0)]
        /\ runs = [j \in Job |-> [day |-> 0, begun |-> 0]]
    BY DEF Init, JobsInit, Still
  <1>3. TypesOK
    BY <1>1, <1>2, TimeZero DEF TypesOK, Loop, Row, NoRow
  <1>4. Counted
    BY <1>2, Settings DEF Counted, NoRow
  <1>5. Allowed /\ loop.at <= now
    BY <1>2 DEF Allowed, Unbegun
  <1>6. PaperTypes
    <2>1. <<>> \in Seq(SUBSET Day) /\ Len(<<>>) <= Legs
      BY Settings
    <2>2. calendar \subseteq Session /\ marks \subseteq Session /\ basis \subseteq Session
          /\ left \subseteq Day
      BY DEF Init
    <2>3. posted \in [Leg -> SUBSET Day] /\ onTime \subseteq Day
      BY DEF Init
    <2>4. troubles \in 0..Troubles
      <3>1. IsFiniteSet(Disputed)
        <4>1. IsFiniteSet(Day) /\ Disputed \subseteq Day
          BY FS_Interval, Settings DEF Day
        <4> QED BY <4>1, FS_Subset
      <3>2. unclear \subseteq Disputed /\ troubles = Cardinality(unclear)
        BY DEF Init
      <3>3. Cardinality(unclear) \in Nat /\ Cardinality(Disputed) \in Nat
            /\ Cardinality(unclear) <= Cardinality(Disputed)
        BY <3>1, <3>2, FS_Subset, FS_CardinalityType
      <3> QED BY <3>2, <3>3, Settings
    <2>5. quotes = <<>> /\ outcome = None /\ verdict = None /\ price \in Prices
          /\ oldest \in Oldest /\ unclear \subseteq Disputed
      BY DEF Init
    <2> QED BY <2>1, <2>2, <2>3, <2>4, <2>5 DEF PaperTypes
  <1>7. Stored
    BY DEF Init, Stored, Sessions
  <1>8. Evidence /\ Locals /\ Settled
    BY <1>2, Settings DEF Init, Evidence, Locals, Settled, Tracking
  <1> QED BY <1>3, <1>4, <1>5, <1>6, <1>7, <1>8 DEF IInv, JobsInv, PaperInv

\* Failures stay within their bound.
LEMMA TroubleBound ==
    ASSUME PaperInv, Trouble \/ NoTrouble
    PROVE  troubles' \in 0..Troubles
  BY Settings DEF PaperInv, PaperTypes, Trouble, NoTrouble

\* Facts every step starts from.
LEMMA Facts ==
    ASSUME IInv
    PROVE  /\ now \in Nat /\ now \in 0..LastTime /\ now <= now /\ LastTime \in Int
           /\ loop \in Loop /\ left \subseteq Day
           /\ loop.pc \notin {"legs", "mark"} => quotes = <<>>
           /\ loop.pc # "outcome" => verdict = None
  <1>1. LastTime \in Int
    <2>1. SlotsPerDay * (LastDay + 1) \in Int
      BY Settings
    <2> QED BY <2>1 DEF LastTime
  <1> QED BY <1>1 DEF IInv, JobsInv, TypesOK, PaperInv, PaperTypes, Locals

LEMMA StartBodyKeeps == ASSUME IInv, StartBody PROVE IInv'
  <1> DEFINE pc == IF Current = "daily_close" THEN "closes" ELSE "book"
  <1>1. StartJob(pc) /\ loop.pc = "jobs" /\ NoTrouble
        /\ UNCHANGED <<world, tables, quotes, verdict, history>>
    BY DEF StartBody
  <1>2. pc \in {"closes", "book"}
    OBVIOUS
  <1> HIDE DEF pc
  <1>3. JobsInv'
    BY <1>1, <1>2, StartKeeps DEF IInv
  <1>4. now' = now /\ loop'.pc = pc
    BY <1>1, Facts DEF StartJob, Loop
  <1>5. PaperInv'
    BY <1>1, <1>2, <1>4, Facts, TroubleBound, AwayKeeps DEF IInv, Tracking, history
  <1> QED BY <1>3, <1>5 DEF IInv

LEMMA OpenBookKeeps == ASSUME IInv, OpenBook PROVE IInv'
  <1>1. /\ loop.pc = "book" /\ NoTrouble
        /\ UNCHANGED <<now, row, runs, world, tables, quotes, verdict, basis>>
    BY DEF OpenBook
  <1>2. CASE outcome = None /\ loop' = [loop EXCEPT !.pc = "legs"] /\ left' = {}
    <2>1. loop' = [loop EXCEPT !.pc = "legs", !.result = loop.result] /\ loop'.pc = "legs"
          /\ loop.result \in {None, "success", "failed", "limit"}
      BY <1>2, Facts DEF Loop
    <2>2. JobsInv'
      BY <1>1, <2>1, Facts, BodyKeeps DEF IInv, Resting, Body
    <2>3. troubles' \in 0..Troubles
      BY <1>1, TroubleBound DEF IInv
    <2>4. PaperTypes'
      BY <1>1, <1>2, <2>3 DEF IInv, PaperInv, PaperTypes, world, tables
    <2>5. Stored' /\ Evidence'
      BY <1>1, Facts, TablesKeep DEF IInv, world, tables
    <2>6. quotes = <<>> /\ verdict = None
      BY <1>1, Facts
    <2>7. Locals'
      BY <1>1, <1>2, <2>1, <2>6, Settings DEF Locals, Tracking, tables
    <2>8. Settled'
      BY <1>1, <1>2, <2>6 DEF Settled, tables
    <2> QED BY <2>2, <2>4, <2>5, <2>7, <2>8 DEF IInv, PaperInv
  <1>3. CASE BodyEnds("success") /\ UNCHANGED left
    <2>1. loop' = [loop EXCEPT !.pc = "ending", !.result = "success"] /\ loop'.pc = "ending"
      BY <1>3, Facts DEF BodyEnds, Loop
    <2>2. JobsInv'
      BY <1>1, <2>1, Facts, BodyKeeps DEF IInv, Resting
    <2>3. PaperInv'
      BY <1>1, <1>3, <2>1, Facts, TroubleBound, AwayKeeps DEF IInv, Tracking
    <2> QED BY <2>2, <2>3 DEF IInv
  <1> QED BY <1>2, <1>3 DEF OpenBook

LEMMA ClockKeeps == ASSUME IInv, Clock PROVE IInv'
  <1>1. UNCHANGED <<world, tables, basis>> /\ left' = left /\ left \subseteq Day
    BY Facts DEF Clock, history
  <1>2. troubles' \in 0..Troubles
    BY TroubleBound DEF Clock, IInv
  <1>3. CASE Look /\ UNCHANGED <<quotes, verdict>>
    <2>1. JobsInv' /\ now' = now /\ loop.pc = "idle" /\ loop'.pc = "jobs"
      BY <1>3, LookKeeps DEF IInv, Look
    <2> QED BY <1>1, <1>2, <1>3, <2>1, Facts, AwayKeeps DEF IInv, Tracking
  <1>4. CASE FinishJob /\ UNCHANGED <<quotes, verdict>>
    <2>1. JobsInv' /\ now' = now /\ loop.pc = "ending"
      BY <1>4, FinishKeeps DEF IInv, FinishJob
    <2>2. loop'.pc \in {"resting", "idle", "jobs"}
      BY <1>4, Facts DEF FinishJob, Still, Loop
    <2> QED BY <1>1, <1>2, <1>4, <2>1, <2>2, Facts, AwayKeeps DEF IInv, Tracking
  <1>5. CASE Capped /\ UNCHANGED <<quotes, verdict>>
    <2>1. /\ loop' = Still("resting") /\ now' = now /\ loop.pc \in {"idle", "jobs"}
          /\ UNCHANGED <<row, runs>>
      BY <1>5 DEF Capped
    <2>2. JobsInv'
      BY <2>1, Facts, StillAllowed DEF IInv, Resting
    <2>3. loop'.pc = "resting"
      BY <2>1 DEF Still
    <2> QED BY <1>1, <1>2, <1>5, <2>1, <2>2, <2>3, Facts, AwayKeeps DEF IInv, Tracking
  <1>6. CASE Restart /\ quotes' = <<>> /\ verdict' = None
    <2>1. loop' = Still("idle") /\ now' = now /\ UNCHANGED <<row, runs>>
      BY <1>6 DEF Restart
    <2>2. JobsInv'
      BY <2>1, Facts, StillAllowed DEF IInv, Resting
    <2>3. loop'.pc = "idle"
      BY <2>1 DEF Still
    <2> QED BY <1>1, <1>2, <1>6, <2>1, <2>2, <2>3, Facts, AwayKeeps DEF IInv, Tracking
  <1> QED BY <1>3, <1>4, <1>5, <1>6 DEF Clock

LEMMA TimeKeeps == ASSUME IInv, Time PROVE IInv'
  <1>1. UNCHANGED <<world, tables, history, quotes, verdict>>
    BY DEF Time
  <1>2. troubles' \in 0..Troubles
    BY TroubleBound DEF Time, IInv
  <1>3. CASE NextSlot
    <2>1. /\ loop' = Still("idle") /\ now' = now + 1 /\ now < LastTime
          /\ loop.pc \in Resting /\ UNCHANGED <<row, runs>>
      BY <1>3 DEF NextSlot, Resting
    <2>2. now' \in 0..LastTime /\ now' \in Nat /\ now <= now'
      BY <2>1, Facts
    <2>3. JobsInv'
      BY <2>1, <2>2, StillAllowed DEF IInv, Resting
    <2>4. loop'.pc = "idle"
      BY <2>1 DEF Still
    <2>5. left' = left /\ basis' = basis /\ left' \subseteq Day
      BY <1>1, Facts DEF history
    <2> QED BY <1>1, <1>2, <2>1, <2>2, <2>3, <2>4, <2>5, Facts, AwayKeeps
            DEF IInv, Tracking, Resting
  <1>4. CASE SlowSlot
    <2>1. now' = now + 1 /\ now < LastTime /\ UNCHANGED <<row, loop, runs>>
      BY <1>4 DEF SlowSlot
    <2>2. now' \in 0..LastTime /\ now' \in Nat /\ now <= now'
      BY <2>1, Facts
    <2>3. JobsInv'
      <3>1. TypesOK' /\ Counted'
        BY <2>1, <2>2 DEF IInv, JobsInv, TypesOK, Counted
      <3>2. Allowed'
        BY <2>1 DEF IInv, JobsInv, Allowed, Unbegun, Marker, Current
      <3>3. loop'.at <= now'
        BY <2>1, Facts DEF IInv, JobsInv, Loop
      <3> QED BY <3>1, <3>2, <3>3 DEF JobsInv
    <2>4. PaperInv'
      BY <1>1, <1>2, <2>1, <2>2, Facts, WaitKeeps DEF IInv, world
    <2> QED BY <2>3, <2>4 DEF IInv
  <1> QED BY <1>3, <1>4 DEF Time

\* The vendor's steps leave the jobs alone.
LEMMA JobsStay == ASSUME JobsInv, UNCHANGED <<now, row, loop, runs>> PROVE JobsInv'
  <1>1. TypesOK' /\ Counted' /\ (loop.at <= now)'
    BY DEF JobsInv, TypesOK, Counted
  <1>2. Allowed'
    BY DEF JobsInv, Allowed, Unbegun, Marker, Current
  <1> QED BY <1>1, <1>2 DEF JobsInv

LEMMA AgreeKeeps == ASSUME IInv, NEW d \in Disputed, Agree(d) PROVE IInv'
  <1>1. JobsInv'
    BY JobsStay DEF Agree, IInv
  <1>2. troubles' \in 0..Troubles
    BY TroubleBound DEF Agree, IInv
  <1>3. PaperInv'
    BY <1>2, Facts, WaitKeeps DEF Agree, IInv
  <1> QED BY <1>1, <1>3 DEF IInv

\* A body that ends, whatever it leaves behind.
LEMMA EndKeepsJobs ==
    ASSUME IInv, loop.pc \notin Resting \union {"jobs"}, UNCHANGED <<now, row, runs>>,
           NEW result \in {"success", "failed", "limit"}, BodyEnds(result)
    PROVE  JobsInv' /\ loop'.pc = "ending"
  <1>1. loop' = [loop EXCEPT !.pc = "ending", !.result = result] /\ loop'.pc = "ending"
    BY Facts DEF BodyEnds, Loop
  <1> QED BY <1>1, Facts, BodyKeeps DEF IInv

\* A body that goes on.
LEMMA GoesOn ==
    ASSUME IInv, loop.pc \in Body, UNCHANGED <<now, row, runs>>,
           NEW pc \in Body, loop' = [loop EXCEPT !.pc = pc]
    PROVE  JobsInv' /\ loop'.pc = pc
  <1>1. loop' = [loop EXCEPT !.pc = pc, !.result = loop.result] /\ loop'.pc = pc
        /\ loop.result \in {None, "success", "failed", "limit"}
    BY Facts DEF Loop
  <1>2. loop.pc \notin Resting \union {"jobs"}
    BY DEF Body, Resting
  <1> QED BY <1>1, <1>2, Facts, BodyKeeps DEF IInv

LEMMA StoreClosesKeeps == ASSUME IInv, StoreCloses PROVE IInv'
  <1> DEFINE missing == {d \in Session \ unclear : d >= oldest /\ FinalAt(d, loop.at)} \ calendar
  <1>1. /\ loop.pc = "closes" /\ UNCHANGED <<now, row, runs, world, marks, outcome>>
        /\ UNCHANGED <<quotes, verdict, history>>
    BY DEF StoreCloses, InsertCloses
  <1>2. \E result \in {"success", "failed", "limit"} : BodyEnds(result)
    BY DEF StoreCloses, InsertCloses
  <1>3. JobsInv' /\ loop'.pc = "ending"
    BY <1>1, <1>2, EndKeepsJobs DEF Resting
  <1>4. troubles' \in 0..Troubles
    BY TroubleBound DEF StoreCloses, InsertCloses, IInv
  <1>5. PICK stored \in SUBSET missing : calendar' = calendar \union stored
    <2>1. CASE calendar' = calendar \union missing
      BY <2>1
    <2>2. CASE \E stored \in SUBSET missing : calendar' = calendar \union stored
      BY <2>2
    <2> QED BY <2>1, <2>2 DEF StoreCloses, InsertCloses
  <1>6. \A d \in stored : d \in Session /\ FinalAt(d, loop.at)
    BY <1>5
  <1> HIDE DEF missing
  <1>7. loop.at \in Nat /\ loop.at <= now /\ now \in Nat
    BY Facts DEF IInv, JobsInv, Loop
  <1>8. calendar' \subseteq Session
    BY <1>5, <1>6 DEF IInv, PaperInv, PaperTypes
  <1>9. Stored'
    <2>1. ASSUME NEW e \in Sessions' PROVE FinalAt(e, now)
      <3>1. e \in calendar' /\ e > 0 /\ e \in Nat
        BY <1>8, Days DEF Sessions
      <3>2. CASE e \in calendar
        BY <3>1, <3>2 DEF IInv, PaperInv, Stored, Sessions
      <3>3. CASE e \in stored
        BY <3>1, <3>3, <1>6, <1>7, FinalStays
      <3> QED BY <1>5, <3>1, <3>2, <3>3
    <2> QED BY <1>1, <2>1 DEF Stored, FinalAt
  <1>10. Evidence'
    <2>1. Sessions \subseteq Sessions'
      BY <1>5 DEF Sessions
    <2> QED BY <1>1, <2>1 DEF IInv, PaperInv, Evidence, world
  <1>11. PaperTypes'
    BY <1>1, <1>4, <1>8 DEF IInv, PaperInv, PaperTypes, world, history
  <1>12. quotes' = <<>> /\ verdict' = None
    BY <1>1, Facts
  <1>13. Locals'
    BY <1>3, <1>12 DEF Locals, Tracking
  <1>14. Settled'
    <2>1. SUFFICES ASSUME outcome # None PROVE Sound(outcome)'
      BY <1>1, <1>12 DEF Settled
    <2>2. PICK o : o = outcome
      OBVIOUS
    <2>3. Sound(o)'
      BY <1>1, <1>7, <2>1, <2>2, SoundKeeps DEF IInv, PaperInv, Settled, world
    <2> QED BY <1>1, <2>2, <2>3 DEF Sound
  <1> QED BY <1>3, <1>9, <1>10, <1>11, <1>13, <1>14 DEF IInv, PaperInv

LEMMA StoreOutcomeKeeps == ASSUME IInv, StoreOutcome PROVE IInv'
  <1>1. /\ loop.pc = "outcome" /\ BodyEnds("success") /\ verdict' = None
        /\ outcome' = IF outcome = None THEN verdict ELSE outcome
        /\ UNCHANGED <<now, row, runs, world, calendar, marks, quotes, history>>
    BY DEF StoreOutcome
  <1>2. JobsInv' /\ loop'.pc = "ending"
    BY <1>1, EndKeepsJobs DEF Resting
  <1>3. troubles' \in 0..Troubles
    BY TroubleBound DEF StoreOutcome, IInv
  <1>4. outcome = None /\ verdict # None /\ quotes = <<>> /\ outcome' = verdict
    BY <1>1 DEF IInv, PaperInv, Locals, Tracking
  <1>5. PaperTypes'
    BY <1>1, <1>3, <1>4 DEF IInv, PaperInv, PaperTypes, world, history
  <1>6. Stored' /\ Evidence'
    BY <1>1, Facts, TablesKeep DEF IInv, world
  <1>7. Locals'
    BY <1>1, <1>2, <1>4 DEF Locals, Tracking
  <1>8. Settled'
    <2>1. PICK o : o = verdict
      OBVIOUS
    <2>2. Sound(o)
      BY <1>4, <2>1 DEF IInv, PaperInv, Settled
    <2>3. Sound(o)'
      BY <1>1, <2>2, Facts, SoundKeeps DEF world
    <2> QED BY <1>1, <1>4, <2>1, <2>3 DEF Settled, Sound
  <1> QED BY <1>2, <1>5, <1>6, <1>7, <1>8 DEF IInv, PaperInv

LEMMA FetchLegKeeps == ASSUME IInv, FetchLeg PROVE IInv'
  <1> DEFINE n == Len(quotes)
             listed == posted[n + 1]
  <1>1. /\ loop.pc = "legs"
        /\ UNCHANGED <<now, row, runs, world, tables, verdict, basis>>
        /\ verdict = None /\ outcome = None /\ n < Legs
    BY Facts DEF FetchLeg, IInv, PaperInv, Locals, Tracking
  <1>2. /\ quotes \in Seq(SUBSET Day) /\ posted \in [Leg -> SUBSET Day]
        /\ n \in Nat /\ n + 1 \in Leg /\ left \subseteq Day
    BY <1>1, Settings DEF IInv, PaperInv, PaperTypes, Leg
  <1>3. troubles' \in 0..Troubles
    BY TroubleBound DEF FetchLeg, IInv
  <1>4. CASE /\ \E result \in {"success", "failed", "limit"} : BodyEnds(result)
             /\ quotes' = <<>> /\ UNCHANGED left
    <2>1. JobsInv' /\ loop'.pc = "ending"
      BY <1>1, <1>4, EndKeepsJobs DEF Resting
    <2>2. PaperInv'
      BY <1>1, <1>3, <1>4, <2>1, Facts, AwayKeeps DEF IInv, Tracking
    <2> QED BY <2>1, <2>2 DEF IInv
  <1>5. ASSUME NEW unread \in SUBSET listed,
               quotes' = Append(quotes, listed \ unread), left' = left \union unread,
               loop' = IF Len(quotes') = Legs THEN [loop EXCEPT !.pc = "mark"] ELSE loop
        PROVE  IInv'
    <2> DEFINE days == listed \ unread
    <2>1. listed \in SUBSET Day /\ days \in SUBSET Day /\ left' \subseteq Day
      BY <1>2, <1>5
    <2>2. /\ quotes' \in Seq(SUBSET Day) /\ Len(quotes') = n + 1
          /\ \A i \in 1..n : quotes'[i] = quotes[i]
          /\ quotes'[n + 1] = days
      <3>1. quotes' = Append(quotes, days)
        BY <1>5
      <3> HIDE DEF days, listed
      <3> QED BY <1>2, <2>1, <3>1
    <2>3. PICK pc \in {"legs", "mark"} :
              loop' = [loop EXCEPT !.pc = pc] /\ (pc = "mark" <=> Len(quotes') = Legs)
      <3>1. CASE Len(quotes') = Legs
        BY <1>5, <3>1
      <3>2. CASE Len(quotes') # Legs
        <4>1. loop = [loop EXCEPT !.pc = "legs"]
          BY <1>1, Facts DEF Loop
        <4> QED BY <1>5, <3>2, <4>1
      <3> QED BY <3>1, <3>2
    <2>4. JobsInv' /\ loop'.pc = pc
      BY <1>1, <2>3, GoesOn DEF Body
    <2>5. Len(quotes') <= Legs /\ (Len(quotes') # Legs => Len(quotes') < Legs)
      BY <1>1, <1>2, <2>2, Settings
    <2>6. PaperTypes'
      BY <1>1, <1>3, <2>1, <2>2, <2>5 DEF IInv, PaperInv, PaperTypes, world, tables
    <2>7. Stored' /\ Evidence'
      BY <1>1, Facts, TablesKeep DEF IInv, world, tables
    <2>8. ASSUME NEW i \in 1..Len(quotes')
          PROVE  Fetched(quotes[i])' /\ quotes'[i] \subseteq posted'[i]
      <3>1. marks' = marks /\ onTime' = onTime /\ calendar' = calendar /\ posted' = posted
        BY <1>1 DEF world, tables
      <3>2. CASE i \in 1..n
        <4>1. Fetched(quotes[i]) /\ quotes[i] \subseteq posted[i] /\ quotes'[i] = quotes[i]
          BY <2>2, <3>2 DEF IInv, PaperInv, Locals
        <4> QED BY <4>1, <1>5, <3>1 DEF Fetched
      <3>3. CASE i = n + 1
        <4>1. marks \subseteq listed /\ onTime \subseteq listed
          BY <1>2 DEF IInv, PaperInv, Evidence
        <4>2. quotes'[i] = days /\ listed \subseteq days \union left' /\ listed = posted[i]
          BY <1>5, <2>2, <3>3
        <4> HIDE DEF listed
        <4> QED BY <4>1, <4>2, <3>1 DEF Fetched
      <3> QED BY <2>2, <1>2, <3>2, <3>3
    <2>9. ASSUME NEW d \in left' PROVE \E i \in 1..Len(quotes') : d \notin quotes'[i]
      <3>1. CASE d \in left
        <4>1. PICK i \in 1..n : d \notin quotes[i]
          BY <1>1, <3>1 DEF IInv, PaperInv, Locals
        <4> QED BY <4>1, <2>2, <1>2
      <3>2. CASE d \in unread
        BY <2>2, <1>2, <3>2
      <3> QED BY <1>5, <3>1, <3>2
    <2>10. Locals'
      <3>1. outcome' = None /\ verdict' = None
        BY <1>1 DEF tables
      <3> HIDE DEF n
      <3> QED BY <2>3, <2>4, <2>5, <2>8, <2>9, <3>1 DEF Locals, Tracking
    <2>11. Settled'
      BY <1>1 DEF Settled, tables
    <2> QED BY <2>4, <2>6, <2>7, <2>10, <2>11 DEF IInv, PaperInv
  <1> QED BY <1>4, <1>5 DEF FetchLeg

LEMMA PostKeeps ==
    ASSUME IInv, NEW l \in Leg, NEW d \in Listed, Post(l, d)
    PROVE  IInv'
  <1>1. /\ UNCHANGED <<now, row, loop, runs, price, calendar, marks, outcome, quotes>>
        /\ UNCHANGED <<oldest, unclear, verdict, left, basis, troubles>>
        /\ posted' = [posted EXCEPT ![l] = @ \union {d}]
    BY DEF Post, tables, history, NoTrouble
  <1>2. \/ onTime' = onTime
        \/ /\ onTime' = onTime \union {d} /\ \A k \in Leg : d \in posted'[k]
           /\ \A e \in Session : FinalAt(e, now) => e <= d
    BY DEF Post
  <1>3. /\ posted \in [Leg -> SUBSET Day] /\ onTime \subseteq Day /\ calendar \subseteq Session
        /\ d \in Day /\ d \in Nat
    BY Days, Settings DEF IInv, PaperInv, PaperTypes
  <1>4. \A k \in Leg : posted[k] \subseteq posted'[k]
    BY <1>1, <1>3
  <1>5. JobsInv'
    BY <1>1, JobsStay DEF IInv
  <1>6. PaperTypes'
    <2>1. posted' \in [Leg -> SUBSET Day] /\ onTime' \subseteq Day
      BY <1>1, <1>2, <1>3
    <2> QED BY <1>1, <2>1 DEF IInv, PaperInv, PaperTypes
  <1>7. Stored'
    BY <1>1 DEF IInv, PaperInv, Stored, Sessions, FinalAt
  <1>8. Evidence'
    BY <1>1, <1>2, <1>4 DEF IInv, PaperInv, Evidence, Sessions
  <1>9. ASSUME NEW x \in onTime', x \notin onTime, NEW e \in Session, x < e, FinalAt(e, now)
        PROVE  FALSE
    <2>1. x = d /\ e <= d /\ e \in Nat
      BY <1>2, <1>9, Days
    <2> QED BY <2>1, <1>9, <1>3
  <1>10. ASSUME NEW x \in onTime', x \notin onTime, NEW e \in calendar, x < e PROVE FALSE
    <2>1. x = d /\ e \in Nat /\ e \in Session /\ e > 0
      BY <1>2, <1>3, <1>10, Days
    <2>2. FinalAt(e, now)
      BY <2>1 DEF IInv, PaperInv, Stored, Sessions
    <2> QED BY <1>9, <1>10, <2>1, <2>2
  <1>11. Locals'
    <2>1. \A i \in 1..Len(quotes') : Fetched(quotes[i])'
      BY <1>1, <1>10 DEF IInv, PaperInv, Locals, Fetched
    <2>2. \A i \in 1..Len(quotes) : i \in Leg
      BY Settings DEF IInv, PaperInv, PaperTypes, Leg
    <2>3. \A i \in 1..Len(quotes') : quotes'[i] \subseteq posted'[i]
      BY <1>1, <1>4, <2>2 DEF IInv, PaperInv, Locals
    <2> QED BY <1>1, <2>1, <2>3 DEF IInv, PaperInv, Locals
  <1>12. Settled'
    <2>1. Exit(basis, marks \ left)' = Exit(basis, marks \ left)
      BY <1>1 DEF Exit, Held, Fires, Reason
    <2>2. Horizon(basis)' = Horizon(basis)
      BY <1>1 DEF Horizon, Held
    <2>3. ASSUME NEW h \in Day, h \notin onTime \ left, NEW e \in Session, e > h, FinalAt(e, now)
          PROVE  h \notin onTime' \ left'
      BY <2>3, <1>1, <1>9, Days
    <2>4. ASSUME NEW o, Sound(o) PROVE Sound(o)'
      BY <1>1, <2>1, <2>2, <2>3, <2>4 DEF Sound, FinalAt
    <2>5. outcome' = outcome /\ verdict' = verdict
      BY <1>1
    <2>6. ASSUME Sound(outcome) PROVE Sound(outcome)'
      <3>1. PICK o : o = outcome
        OBVIOUS
      <3> QED BY <2>4, <2>5, <2>6, <3>1 DEF Sound
    <2>7. ASSUME Sound(verdict) PROVE Sound(verdict)'
      <3>1. PICK o : o = verdict
        OBVIOUS
      <3> QED BY <2>4, <2>5, <2>7, <3>1 DEF Sound
    <2> QED BY <2>5, <2>6, <2>7 DEF IInv, PaperInv, Settled
  <1> QED BY <1>5, <1>6, <1>7, <1>8, <1>11, <1>12 DEF IInv, PaperInv

\* The first day on which a rule fires gives a verdict with a day; none, one without.
LEMMA ExitVerdict ==
    ASSUME PaperTypes, NEW S \in SUBSET Day, NEW P \in SUBSET Day, Exit(S, P) # None
    PROVE  /\ Exit(S, P) \in Verdict
           /\ Exit(S, P).day = None =>
                  Cardinality(S) >= Hold /\ {d \in P \intersect S : Fires(S, d)} = {}
  <1> DEFINE fired == {d \in P \intersect S : Fires(S, d)}
             found == Exit(S, P)
  <1>1. ASSUME fired # {} PROVE found \in Verdict /\ found.day # None
    <2> DEFINE first == CHOOSE d \in fired : \A e \in fired : d <= e
    <2>1. fired \subseteq Nat /\ fired \subseteq Day
      BY Days
    <2>2. \E d \in fired : \A e \in fired : d <= e
      <3>1. PICK d \in fired : \A e \in fired : ~ (<<e, d>> \in OpToRel(<, Nat))
        BY <1>1, <2>1, NatLessThanWellFounded, WFMin
      <3>2. \A e \in fired : ~ (e < d)
        BY <2>1, <3>1 DEF OpToRel
      <3>3. d \in Nat /\ \A e \in fired : e \in Nat
        BY <2>1
      <3> HIDE DEF fired
      <3> QED BY <3>2, <3>3
    <2>3. first \in fired
      BY <2>2
    <2>4. found = [reason |-> Reason(first), day |-> first]
      BY <1>1 DEF Exit
    <2> HIDE DEF first, fired, found
    <2>5. first \in Nat /\ first \in Day /\ first # None
      BY <2>1, <2>3, Settings
    <2>6. price \in [Day -> {"stop", "between", "target"}]
      BY PaperAssumption DEF PaperTypes
    <2>7. Reason(first) \in {"stop", "target", "dte_floor", "time", "no_exit_data"}
      BY <2>5, <2>6 DEF Reason
    <2> QED BY <2>4, <2>5, <2>7 DEF Verdict
  <1>2. ASSUME fired = {}
        PROVE  found = [reason |-> "no_exit_data", day |-> None] /\ Cardinality(S) >= Hold
    BY <1>2 DEF Exit
  <1>3. [reason |-> "no_exit_data", day |-> None] \in Verdict
    BY DEF Verdict
  <1> HIDE DEF fired, found
  <1>4. found \in Verdict /\ (found.day = None => Cardinality(S) >= Hold /\ fired = {})
    BY <1>1, <1>2, <1>3
  <1> QED BY <1>4 DEF fired, found

LEMMA StoreMarksKeeps == ASSUME IInv, StoreMarks PROVE IInv'
  <1> DEFINE found == Exit(Sessions, Priced)
  <1>1. /\ loop.pc = "mark" /\ marks' = marks \union Priced /\ quotes' = <<>>
        /\ UNCHANGED <<now, row, runs, world, calendar, outcome, left>>
    BY DEF StoreMarks, Judge
  <1>2. \/ BodyEnds("success") /\ UNCHANGED <<verdict, basis>>
        \/ /\ loop' = [loop EXCEPT !.pc = "outcome"] /\ verdict' = found /\ found # None
           /\ basis' = Sessions
           /\ found.day = None => ~ Newest(Horizon(Sessions))
    BY DEF StoreMarks, Judge
  <1>3. /\ price' = price /\ posted' = posted /\ onTime' = onTime /\ calendar' = calendar
        /\ outcome' = outcome /\ left' = left /\ now' = now
    BY <1>1 DEF world
  <1>4. /\ outcome = None /\ verdict = None /\ Len(quotes) = Legs
        /\ \A i \in Leg : Fetched(quotes[i]) /\ quotes[i] \subseteq posted[i]
        /\ \A d \in left : \E i \in Leg : d \notin quotes[i]
    BY <1>1 DEF IInv, PaperInv, Locals, Tracking, Leg
  <1>5. troubles' \in 0..Troubles
    BY TroubleBound DEF StoreMarks, Judge, IInv
  <1>6. /\ calendar \subseteq Session /\ marks \subseteq Sessions /\ left \subseteq Day
        /\ Sessions \subseteq Day /\ Sessions \subseteq Session /\ 0 \notin Sessions
    BY Settings DEF IInv, PaperInv, PaperTypes, Evidence, Sessions
  <1>7. Priced \subseteq Sessions
    BY DEF Priced
  <1>8. Sessions' = Sessions
    BY <1>3 DEF Sessions
  <1>9. marks' \ left' = Priced
    <2>1. ASSUME NEW d \in marks, d \notin left PROVE d \in Priced
      BY <2>1, <1>4, <1>6 DEF Priced, Fetched
    <2>2. ASSUME NEW d \in Priced PROVE d \notin left
      BY <2>2, <1>4 DEF Priced
    <2> QED BY <1>1, <1>3, <2>1, <2>2
  <1>10. Stored'
    BY <1>3, <1>8 DEF IInv, PaperInv, Stored, FinalAt
  <1>11. Evidence'
    <2>1. \A l \in Leg : Priced \subseteq posted[l]
      BY <1>4 DEF Priced
    <2> QED BY <1>1, <1>3, <1>7, <1>8, <2>1 DEF IInv, PaperInv, Evidence
  <1>12. marks' \subseteq Session /\ <<>> \in Seq(SUBSET Day) /\ Len(<<>>) <= Legs
    BY <1>1, <1>6, <1>7, Settings
  <1>13. CASE BodyEnds("success") /\ UNCHANGED <<verdict, basis>>
    <2>1. JobsInv' /\ loop'.pc = "ending"
      BY <1>1, <1>13, EndKeepsJobs DEF Resting
    <2>2. PaperTypes'
      BY <1>1, <1>3, <1>5, <1>12, <1>13 DEF IInv, PaperInv, PaperTypes, world
    <2>3. Locals' /\ Settled'
      BY <1>1, <1>3, <1>4, <1>13, <2>1 DEF Locals, Settled, Tracking
    <2> QED BY <1>10, <1>11, <2>1, <2>2, <2>3 DEF IInv, PaperInv
  <1>14. CASE /\ loop' = [loop EXCEPT !.pc = "outcome"] /\ verdict' = found /\ found # None
              /\ basis' = Sessions
              /\ found.day = None => ~ Newest(Horizon(Sessions))
    <2>1. JobsInv' /\ loop'.pc = "outcome"
      BY <1>1, <1>14, GoesOn DEF Body
    <2>2. /\ found \in Verdict
          /\ found.day = None =>
                 /\ Cardinality(Sessions) >= Hold
                 /\ {d \in Priced \intersect Sessions : Fires(Sessions, d)} = {}
      BY <1>6, <1>7, <1>14, ExitVerdict DEF IInv, PaperInv
    <2>3. PaperTypes'
      BY <1>1, <1>3, <1>5, <1>6, <1>12, <1>14, <2>2 DEF IInv, PaperInv, PaperTypes, world
    <2>4. Locals'
      <3>1. found # None
        BY <1>14
      <3> HIDE DEF found
      <3> QED BY <1>1, <1>3, <1>4, <1>14, <2>1, <3>1 DEF Locals, Tracking
    <2>5. verdict' = Exit(basis, marks \ left)'
      BY <1>3, <1>9, <1>14 DEF Exit, Fires, Held, Reason
    <2>6. Horizon(basis)' = Horizon(Sessions)
      BY <1>14 DEF Horizon, Held
    <2>7. ASSUME found.day = None
          PROVE  /\ Horizon(Sessions) \in Day /\ Horizon(Sessions) \notin onTime \ left
                 /\ \E e \in Session : e > Horizon(Sessions) /\ FinalAt(e, now)
      <3>1. /\ Cardinality(Sessions) >= Hold
            /\ {d \in Priced \intersect Sessions : Fires(Sessions, d)} = {}
        BY <2>2, <2>7
      <3>2. PICK h : h = Horizon(Sessions)
        OBVIOUS
      <3>3. h \in Sessions /\ Held(Sessions, h) = Hold /\ h \in Nat /\ h > 0
        <4>1. h \in Sessions /\ Held(Sessions, h) = Hold
          BY <1>6, <3>1, <3>2, HorizonHeld
        <4> QED BY <4>1, <1>6, Days DEF Sessions
      <3>4. PICK e \in calendar : ~ (e <= h)
        BY <1>14, <2>7, <3>2 DEF Newest
      <3>5. e \in Nat /\ e > h /\ e \in Sessions /\ e \in Session
        <4>1. e \in Nat /\ e \in Session
          BY <1>6, Days
        <4> QED BY <3>3, <3>4, <4>1 DEF Sessions
      <3>6. FinalAt(e, now)
        BY <3>5 DEF IInv, PaperInv, Stored
      <3>7. ASSUME h \in onTime, h \notin left PROVE FALSE
        <4>1. h \in Priced
          BY <1>4, <3>3, <3>5, <3>7 DEF Priced, Fetched
        <4>2. Fires(Sessions, h)
          BY <3>3, Settings DEF Fires
        <4> QED BY <3>1, <3>3, <4>1, <4>2
      <3> QED BY <1>6, <3>2, <3>3, <3>5, <3>6, <3>7
    <2>8. Settled'
      <3>1. verdict' = found /\ outcome' = None
        BY <1>3, <1>4, <1>14
      <3>2. verdict'.day = None =>
              /\ Horizon(basis)' \in Day /\ Horizon(basis)' \notin onTime' \ left'
              /\ \E e \in Session : e > Horizon(basis)' /\ FinalAt(e, now)'
        <4>1. \A e : FinalAt(e, now)' <=> FinalAt(e, now)
          BY <1>3 DEF FinalAt
        <4> HIDE DEF found
        <4> QED BY <1>3, <2>6, <2>7, <3>1, <4>1
      <3>3. Sound(verdict)'
        BY <2>5, <3>2 DEF Sound
      <3> QED BY <3>1, <3>3 DEF Settled
    <2> QED BY <1>10, <1>11, <2>1, <2>3, <2>4, <2>8 DEF IInv, PaperInv
  <1> QED BY <1>2, <1>13, <1>14

LEMMA NextKeeps == IInv /\ [Next]_vars => IInv'
  <1> SUFFICES ASSUME IInv, [Next]_vars PROVE IInv'
    OBVIOUS
  <1>1. CASE Work
    BY <1>1, StartBodyKeeps, StoreClosesKeeps, OpenBookKeeps, FetchLegKeeps, StoreMarksKeeps,
       StoreOutcomeKeeps DEF Work
  <1>2. CASE Clock
    BY <1>2, ClockKeeps
  <1>3. CASE Time
    BY <1>3, TimeKeeps
  <1>4. CASE Vendor
    BY <1>4, AgreeKeeps, PostKeeps DEF Vendor
  <1>5. CASE UNCHANGED vars
    <2>1. JobsInv'
      BY <1>5, JobsStay DEF vars, IInv
    <2>2. troubles' \in 0..Troubles
      BY <1>5 DEF vars, IInv, PaperInv, PaperTypes
    <2>3. PaperInv'
      BY <1>5, <2>2, Facts, WaitKeeps DEF vars, world, IInv
    <2> QED BY <2>1, <2>3 DEF IInv
  <1> QED BY <1>1, <1>2, <1>3, <1>4, <1>5 DEF Next

----------------------------------------------------------------------------

LEMMA Invariance == Spec => []IInv
  BY InitHolds, NextKeeps, PTL DEF Spec

\* Every variable keeps its type.
THEOREM TypeCorrect == Spec => []TypeOK
  <1>1. IInv => TypeOK
    BY TypeOKParts DEF IInv, JobsInv, PaperInv
  <1> QED BY <1>1, Invariance, PTL

\* No job begins more often on one day than its attempts allow.
THEOREM AttemptsBoundedHolds == Spec => []AttemptsBounded
  <1>1. IInv => AttemptsBounded
    BY DEF IInv, JobsInv, Counted, AttemptsBounded
  <1> QED BY <1>1, Invariance, PTL

\* The final row is what the exit rules give on the stored marks by the sessions stored when
\* it was decided, but for marks whose rows the deciding answers left out.
THEOREM OutcomeFaithfulHolds == Spec => []OutcomeFaithful
  <1>1. IInv => OutcomeFaithful
    BY DEF IInv, PaperInv, Settled, Sound, OutcomeFaithful
  <1> QED BY <1>1, Invariance, PTL

\* A position ends as unknown only without a row in time for the last session of its hold,
\* unless the deciding answer left the row out.
THEOREM LateRowCountsHolds == Spec => []LateRowCounts
  <1>1. IInv => LateRowCounts
    BY DEF IInv, PaperInv, Settled, Sound, LateRowCounts
  <1> QED BY <1>1, Invariance, PTL
=============================================================================
