-------------------------- MODULE TimedMeasurement --------------------------
(***************************************************************************)
(* Timed measurement (webapp/timed_measurement): worker processes ask the  *)
(* vendor for a pair of quotes, of a ticker and of SPY, when a published   *)
(* call reaches a horizon.  An attempt is claimed before it is made and    *)
(* never made again; each request takes a slot under the module's daily    *)
(* cap and a unit of the shared quota ledger; what came back is recorded,  *)
(* the attempt is completed, and the target is assessed once.  A refusal   *)
(* by the vendor stops the day.                                            *)
(*                                                                         *)
(* One ET day is modelled: every key of the tables carries the day.  Each  *)
(* step is one transaction or one wait of a worker, so a crash, a failure  *)
(* of the database or another worker may fall between any two.             *)
(***************************************************************************)
EXTENDS Integers, FiniteSets

CONSTANTS
  Workers,      \* worker processes; a restart reuses the name
  Targets,      \* (publication, horizon)
  TargetAt,     \* target |-> the time its quote is wanted for
  Deadline,     \* target |-> the end of its window
  SpyEntry,     \* the targets whose publication had a price of SPY
  Offset,       \* attempt_offsets_seconds
  Spacing,      \* attempt_spacing_seconds
  TradeAge,     \* trade_max_age_seconds
  Skew,         \* pair_skew_seconds
  Cooldown,     \* rate_limit_cooldown_seconds
  ModuleCap,    \* module_daily_cap
  SharedCap,    \* daily_request_soft_cap of the board
  SlotTries,    \* slot_conflict_retries
  ReadLimit,    \* read_limit
  MaxTime, MaxTrouble,  \* bounds: the clock; crashes, failures and requests of others
  None          \* no value, no row

MaxAttempts == 3
Legs == {"own", "spy"}
Attempts == Targets \X (1..MaxAttempts)
Verdicts == {"observed", "partial", "missing", "unknown", "not_applicable"}

ASSUME WorldAssumption ==
  /\ IsFiniteSet(Targets) /\ SpyEntry \subseteq Targets
  /\ TargetAt \in [Targets -> Nat] /\ Deadline \in [Targets -> Nat]
  /\ None \notin Int \union Targets \union Workers \union Verdicts \union (Attempts \X Legs)
  /\ None \notin {"eligible", "late", "absent"}
ASSUME LimitsAssumption ==
  /\ Offset \in [1..MaxAttempts -> Nat] /\ Spacing \in Nat
  /\ {TradeAge, Skew, Cooldown, ModuleCap, SharedCap, SlotTries, ReadLimit} \subseteq Nat
  /\ SharedCap > 0 /\ {MaxTime, MaxTrouble} \subseteq Nat

INSTANCE QuotaLedger WITH NoRow <- None

VARIABLES
  clock,     \* physical time within the day
  target,    \* target |-> None until discovered, "eligible" or "late"; "absent": never published
  claims,    \* attempt |-> claimed_at
  slots,     \* ordinal |-> the (attempt, leg) that holds it
  quota,     \* reserved of the day's quota row
  packets,   \* (attempt, leg) |-> the confirmed evidence
  done,      \* attempt |-> when its completion was confirmed
  assessed,  \* target |-> its assessment
  halted,    \* a durable day halt exists
  cooling,   \* the latest end of a durable cooldown
  w,         \* worker |-> its loop and its memory
  spent,     \* requests the vendor has counted on the key
  trouble,   \* crashes, failures and requests of others so far
  (* history, read by properties only *)
  granted,   \* units of the ledger granted
  wires,     \* (attempt, leg) |-> requests put on the wire
  refused,   \* the vendor has refused for the day
  doubt,     \* workers that may know it: told so themselves, or started later
  missed     \* attempts completed after the verdict on their target was taken

tables == <<target, claims, slots, quota, packets, done, assessed, halted, cooling>>
history == <<granted, wires, refused, doubt, missed>>
vars == <<clock, tables, w, spent, trouble, history>>

Slot == 1..ModuleCap
Evidence == [ok: BOOLEAN, received: Nat, confirmed: Nat]
\* "fatal": auth, daily_quota or quota_unknown
Replies == {"ok", "bad", "limited", "fatal"}

\* A worker without a target: its life since a time, and what it remembers.
\* at is the time of the plan until the claim, then the time of the last reply.
Free(pc, since, halt, cool, seen, todo) ==
  [pc |-> pc, since |-> since, halt |-> halt, cool |-> cool, seen |-> seen, todo |-> todo,
   tgt |-> None, k |-> 1, leg |-> "own", at |-> 0, index |-> 1, reply |-> "bad", verdict |-> "missing"]
Down == Free("down", 0, FALSE, 0, None, {})

Worker ==
  [pc: {"down", "scan", "claim", "fetch", "insert", "send", "wait", "save", "record",
        "complete", "judge", "assess"},
   since: Nat, halt: BOOLEAN, cool: Nat, seen: Nat \union {None}, todo: SUBSET Targets,
   tgt: Targets \union {None}, k: 1..MaxAttempts, leg: Legs, at: Nat, index: Nat \ {0},
   reply: Replies \union {"refused"}, verdict: Verdicts]

TypeOK ==
  /\ clock \in 0..MaxTime
  /\ target \in [Targets -> {None, "eligible", "late", "absent"}]
  /\ claims \in [Attempts -> Nat \union {None}]
  /\ slots \in [Slot -> (Attempts \X Legs) \union {None}]
  /\ quota \in Nat \union {None}
  /\ packets \in [Attempts \X Legs -> Evidence \union {None}]
  /\ done \in [Attempts -> Nat \union {None}]
  /\ assessed \in [Targets -> Verdicts \union {None}]
  /\ halted \in BOOLEAN /\ cooling \in Nat
  /\ w \in [Workers -> Worker]
  /\ \A p \in Workers : w[p].pc \notin {"down", "scan"} => w[p].tgt # None
  /\ spent \in Nat /\ trouble \in 0..MaxTrouble
  /\ granted \in Nat /\ wires \in [Attempts \X Legs -> Nat]
  /\ refused \in BOOLEAN /\ doubt \subseteq Workers /\ missed \subseteq Attempts

Init ==
  /\ clock \in 0..MaxTime
  /\ target \in [Targets -> {None, "absent"}]
  /\ claims = [a \in Attempts |-> None]
  /\ slots = [s \in Slot |-> None]
  /\ packets = [x \in Attempts \X Legs |-> None]
  /\ done = [a \in Attempts |-> None]
  /\ assessed = [t \in Targets |-> None]
  /\ halted = FALSE /\ cooling = 0
  /\ w = [p \in Workers |-> Down]
  /\ trouble \in 0..MaxTrouble
  /\ \/ quota = None /\ granted = 0 /\ spent = 0
     \/ quota = 1 /\ granted = 1 /\ spent = 1  \* another consumer was first
  /\ wires = [x \in Attempts \X Legs |-> 0]
  /\ refused = FALSE /\ doubt = {} /\ missed = {}

At(p, pc) == w[p].pc = pc
Becomes(p, r) == w' = [w EXCEPT ![p] = r]
Attempt(p) == <<w[p].tgt, w[p].k>>
Request(p) == <<Attempt(p), w[p].leg>>
\* The worker goes on to pc, or is done with this target.
Goes(p, pc) == Becomes(p, [w[p] EXCEPT !.pc = pc])
NextTarget(p) == Free("scan", w[p].since, w[p].halt, w[p].cool, w[p].seen, w[p].todo)

-----------------------------------------------------------------------------
(* What a worker reads. *)

ClaimsOf(t) == {k \in 1..MaxAttempts : claims[<<t, k>>] # None}
Opened == {a \in Attempts : claims[a] # None /\ done[a] = None}
Incomplete(t) == \E k \in ClaimsOf(t) : done[<<t, k>>] = None
Halted(p) == w[p].halt \/ halted
Cooling(p) == w[p].cool > clock \/ cooling > clock

\* Mutant: no spacing after the attempt before.
DueAtOffset(t, k) == TargetAt[t] + Offset[k]

\* When the attempt after the claimed ones is due.
Due(t, k) ==
  LET due == TargetAt[t] + Offset[k]
  IN  IF k = 1 \/ due >= done[<<t, k - 1>>] + Spacing THEN due ELSE done[<<t, k - 1>>] + Spacing

\* Mutant: an incomplete attempt is found before the deadline is looked at.
ScheduleOpen(t) ==
  LET n == Cardinality(ClaimsOf(t))
  IN  IF Incomplete(t) THEN "incomplete"
      ELSE IF clock >= Deadline[t] THEN "late"
      ELSE IF n = MaxAttempts THEN "exhausted"
      ELSE IF clock >= Due(t, n + 1) THEN "ready" ELSE "pending"

Schedule(t) ==
  LET n == Cardinality(ClaimsOf(t))
  IN  IF clock >= Deadline[t] THEN "late"
      ELSE IF Incomplete(t) THEN "incomplete"
      ELSE IF n = MaxAttempts THEN "exhausted"
      ELSE IF clock >= Due(t, n + 1) THEN "ready" ELSE "pending"

\* Mutant: no barrier.
HeldNever(p, owned) == {}
\* The startup barrier: claims made before this worker started must be complete.
Held(p, owned) == {a \in Opened \ owned : claims[a] <= w[p].since}
Unreadable == Cardinality({a \in Attempts : claims[a] # None}) > ReadLimit
Permitted(p, owned) == ~Unreadable /\ Held(p, owned) = {}
\* A claim nobody completed until its deadline may hide a refusal: the day is halted.
Doubtful(p, owned) == ~Unreadable /\ \E a \in Held(p, owned) : clock >= Deadline[a[1]]

\* A leg counts if its evidence is good, in the window and fresh.
Good(x) ==
  /\ packets[x] # None /\ packets[x].ok
  /\ packets[x].confirmed <= Deadline[x[1][1]]
  /\ packets[x].confirmed - packets[x].received <= TradeAge
Paired(a) ==
  /\ done[a] # None /\ Good(<<a, "own">>) /\ Good(<<a, "spy">>)
  /\ packets[<<a, "spy">>].received - packets[<<a, "own">>].received \in -Skew..Skew

\* Mutants: legs of different attempts make a pair; the end of the target is looked at first.
VerdictAnyLegs(t, terminal) ==
  IF \E j, k \in 1..MaxAttempts : Good(<<<<t, j>>, "own">>) /\ Good(<<<<t, k>>, "spy">>)
  THEN IF t \in SpyEntry THEN "observed" ELSE "partial"
  ELSE IF terminal = None THEN None ELSE "missing"
VerdictTerminalFirst(t, terminal) ==
  IF terminal # None THEN "missing"
  ELSE IF \E k \in 1..MaxAttempts : Paired(<<t, k>>) THEN "observed" ELSE None

\* _assessment: a pair decides at once, anything less only when the target ends.
Verdict(t, terminal) ==
  IF \E k \in 1..MaxAttempts : Paired(<<t, k>>)
  THEN IF t \in SpyEntry THEN "observed" ELSE "partial"
  ELSE IF terminal = None THEN None
  ELSE IF \E k \in 1..MaxAttempts : done[<<t, k>>] # None /\ Good(<<<<t, k>>, "own">>) THEN "partial"
  ELSE IF terminal = "incomplete_attempt" THEN "unknown" ELSE "missing"

\* Either there is a verdict to store, or the worker leaves the target.
Evaluate(p, t, terminal) ==
  LET v == Verdict(t, terminal)
  IN  IF v = None THEN Becomes(p, NextTarget(p))
      ELSE Becomes(p, [w[p] EXCEPT !.pc = "assess", !.tgt = t, !.verdict = v])

Troubled == trouble < MaxTrouble /\ trouble' = trouble + 1

\* A halt by the barrier is remembered even if its durable write raises, which allow() hides.
HaltDay(doubtful) ==
  \/ halted' = (halted \/ doubtful) /\ UNCHANGED trouble
  \/ doubtful /\ Troubled /\ UNCHANGED halted

-----------------------------------------------------------------------------
(* The world *)

Tick ==
  /\ clock < MaxTime
  /\ clock' = clock + 1
  /\ UNCHANGED <<tables, w, spent, trouble, history>>

\* Another consumer of the ledger reserves through quota_ledger.reserve, and sends.
OtherReserves ==
  /\ Troubled
  /\ \E observed \in {None, spent} :
       LET got == Reserve(quota, observed, 1, SharedCap)
       IN  /\ quota' = got.after
           /\ granted' = granted + (IF got.granted THEN 1 ELSE 0)
           /\ spent' = spent + (IF got.granted THEN 1 ELSE 0)
  /\ UNCHANGED <<clock, target, claims, slots, packets, done, assessed, halted, cooling, w,
                 wires, refused, doubt, missed>>

\* The live worker sends without reserving.
OtherSends ==
  /\ Troubled
  /\ spent' = spent + 1
  /\ UNCHANGED <<clock, tables, w, history>>

-----------------------------------------------------------------------------
(* A worker's life *)

\* loop(): a new process; the barrier is asked once before the first tick.
Start(p) ==
  /\ At(p, "down")
  /\ doubt' = IF refused THEN doubt \union {p} ELSE doubt \ {p}
  /\ LET doubtful == ~Unreadable /\ \E a \in Opened : clock >= Deadline[a[1]]
     IN  /\ Becomes(p, Free("scan", clock, doubtful, 0, None, {}))
         /\ HaltDay(doubtful)
  /\ UNCHANGED <<clock, target, claims, slots, quota, packets, done, assessed, cooling,
                 spent, granted, wires, refused, missed>>

\* A kill at any point; what is in memory is gone.
Crash(p) ==
  /\ ~At(p, "down") /\ Troubled
  /\ Becomes(p, Down)
  /\ UNCHANGED <<clock, tables, spent, history>>

\* A database call raises: the tick is abandoned, the memory stays.
Fails(p) ==
  /\ w[p].pc \notin {"down", "send", "wait"} /\ Troubled
  /\ Becomes(p, Free("scan", w[p].since, w[p].halt, w[p].cool, w[p].seen, {}))
  /\ UNCHANGED <<clock, tables, spent, history>>

\* A tick starts: discover() stores what was published, then the targets are read.
Discover(p) ==
  /\ At(p, "scan") /\ w[p].todo = {}
  /\ target' = [t \in Targets |->
       IF target[t] # None THEN target[t] ELSE IF clock < Deadline[t] THEN "eligible" ELSE "late"]
  /\ Becomes(p, [w[p] EXCEPT !.todo = {t \in Targets : assessed[t] = None /\ target[t] # "absent"}])
  /\ UNCHANGED <<clock, claims, slots, quota, packets, done, assessed, halted, cooling,
                 spent, trouble, history>>

\* The list is worked from the latest horizon down.
Takes(p, t) ==
  At(p, "scan") /\ t \in w[p].todo /\ \A u \in w[p].todo : TargetAt[u] <= TargetAt[t]

Passing(p, t) == Free("scan", w[p].since, w[p].halt, w[p].cool, w[p].seen, w[p].todo \ {t})

\* A target of the list that needs no request: assessed already, not eligible, decided by
\* what is stored, or at its end.  The barrier is not asked.
Conclude(p, t) ==
  LET terminal ==
        IF Halted(p) THEN "day_halted"
        ELSE IF Schedule(t) = "late" /\ Incomplete(t) THEN "incomplete_attempt"
        ELSE IF Schedule(t) \in {"late", "exhausted"} THEN Schedule(t) ELSE None
      v == IF target[t] = "late" THEN "not_applicable" ELSE Verdict(t, terminal)
      r == Passing(p, t)
  IN  /\ Takes(p, t)
      /\ \/ assessed[t] # None /\ Becomes(p, r)
         \/ /\ assessed[t] = None /\ v # None
            /\ Becomes(p, [r EXCEPT !.pc = "assess", !.tgt = t, !.verdict = v])
      /\ UNCHANGED <<clock, tables, spent, trouble, history>>

\* A target that may want a request now.  Asking the barrier may halt the day.
Plan(p, t) ==
  LET r == Passing(p, t)
      ready == /\ Schedule(t) = "ready" /\ Permitted(p, {}) /\ ~Cooling(p)
      doubtful == Schedule(t) = "ready" /\ Doubtful(p, {})
  IN  /\ Takes(p, t)
      /\ assessed[t] = None /\ target[t] = "eligible" /\ ~Halted(p)
      /\ Schedule(t) \in {"ready", "incomplete", "pending"} /\ Verdict(t, None) = None
      /\ IF ready
         THEN Becomes(p, [r EXCEPT !.pc = "claim", !.tgt = t, !.at = clock,
                                   !.k = Cardinality(ClaimsOf(t)) + 1])
         ELSE Becomes(p, [r EXCEPT !.halt = @ \/ doubtful])
      /\ HaltDay(doubtful)
      /\ UNCHANGED <<clock, target, claims, slots, quota, packets, done, assessed, cooling,
                     spent, history>>

\* Mutant: the row of the attempt is overwritten.
ClaimAgain(p) ==
  LET a == Attempt(p) IN
  /\ At(p, "claim")
  /\ claims' = [claims EXCEPT ![a] = w[p].at]
  /\ Becomes(p, [w[p] EXCEPT !.pc = "fetch", !.at = 0])
  /\ UNCHANGED <<clock, target, slots, quota, packets, done, assessed, halted, cooling,
                 spent, trouble, history>>

\* claim(): the row of the attempt, if nobody has it; it carries the time of the plan.  The
\* target is read before the insert, so an assessment in between may or may not stop it.
Claim(p) ==
  LET a == Attempt(p) IN
  /\ At(p, "claim")
  /\ \/ /\ claims[a] = None
        /\ claims' = [claims EXCEPT ![a] = w[p].at]
        /\ Becomes(p, [w[p] EXCEPT !.pc = "fetch", !.at = 0])
     \/ /\ claims[a] # None \/ assessed[a[1]] # None
        /\ Becomes(p, NextTarget(p)) /\ UNCHANGED claims
  /\ UNCHANGED <<clock, target, slots, quota, packets, done, assessed, halted, cooling,
                 spent, trouble, history>>

-----------------------------------------------------------------------------
(* One request: the refusals before it, the reservation, the wire, the reply *)

\* fetch() gives up before anything is reserved: the breaker is open, or the limiter is slow.
Unsent(p) ==
  /\ At(p, "fetch")
  /\ Becomes(p, [w[p] EXCEPT !.pc = "record", !.reply = "bad"])
  /\ UNCHANGED <<clock, tables, spent, trouble, history>>

\* before_request() refuses.  Only a halt is stored (again); the other reasons pass.
Refuse(p) ==
  LET a == Attempt(p) IN
  /\ At(p, "fetch")
  /\ LET late == clock >= Deadline[a[1]]
         held == ~Permitted(p, {a})
         doubtful == ~late /\ Doubtful(p, {a})
         day == ~late /\ ~held /\ Halted(p)
     IN  /\ late \/ held \/ Halted(p) \/ Cooling(p)
         /\ HaltDay(doubtful)
         /\ IF day THEN Becomes(p, [w[p] EXCEPT !.pc = "save", !.halt = TRUE, !.reply = "refused"])
            ELSE Becomes(p, [w[p] EXCEPT !.pc = "complete", !.halt = @ \/ doubtful])
  /\ UNCHANGED <<clock, target, claims, slots, quota, packets, done, assessed, cooling,
                 spent, history>>

\* Mutant: the highest slot is tried again.
ReadSlotsHighest(p) ==
  /\ At(p, "fetch")
  /\ clock < Deadline[w[p].tgt] /\ Permitted(p, {Attempt(p)}) /\ ~Halted(p) /\ ~Cooling(p)
  /\ quota' = IF Known(w[p].seen) THEN Raised(quota, w[p].seen) ELSE quota
  /\ Becomes(p, [w[p] EXCEPT !.pc = "insert", !.index = Cardinality({r \in Slot : slots[r] # None})])
  /\ UNCHANGED <<clock, target, claims, slots, packets, done, assessed, halted, cooling,
                 spent, trouble, history>>

\* reserve_leg() begins: the floor is stored in a transaction of its own, then the highest
\* slot is read.
ReadSlots(p) ==
  /\ At(p, "fetch")
  /\ clock < Deadline[w[p].tgt] /\ Permitted(p, {Attempt(p)}) /\ ~Halted(p) /\ ~Cooling(p)
  /\ quota' = IF Known(w[p].seen) THEN Raised(quota, w[p].seen) ELSE quota
  /\ \E s \in 0..ModuleCap :
       /\ s # 0 => slots[s] # None
       /\ \A r \in Slot : slots[r] # None => r <= s
       /\ Becomes(p, [w[p] EXCEPT !.pc = "insert", !.index = s + 1])
  /\ UNCHANGED <<clock, target, claims, slots, packets, done, assessed, halted, cooling,
                 spent, trouble, history>>

\* The slots the insert may still take, going up from the one after the highest it read.
Reachable(p) ==
  {s \in Slot : /\ s \in w[p].index .. (w[p].index + SlotTries - 1)
               /\ \A r \in w[p].index .. s : slots[r] # None <=> r # s}

\* The transaction commits: a slot, the floor again, a unit of the shared quota.
Insert(p) ==
  /\ At(p, "insert")
  /\ quota # None \/ Known(w[p].seen)
  /\ \E s \in Reachable(p) :
       LET got == Reserve(quota, w[p].seen, 1, SharedCap)
       IN  /\ got.granted
           /\ slots' = [slots EXCEPT ![s] = Request(p)]
           /\ quota' = got.after
  /\ granted' = granted + 1
  /\ Becomes(p, [w[p] EXCEPT !.pc = "send", !.index = 1])
  /\ UNCHANGED <<clock, target, claims, packets, done, assessed, halted, cooling,
                 spent, trouble, wires, refused, doubt, missed>>

\* The transaction is rolled back: no slot is left, or the shared quota refuses, or nobody
\* knows what was spent.  The day is halted.
Denied(p) ==
  /\ At(p, "insert")
  /\ \/ Reachable(p) = {}
     \/ quota = None /\ ~Known(w[p].seen)
     \/ ~Reserve(quota, w[p].seen, 1, SharedCap).granted
  /\ Becomes(p, [w[p] EXCEPT !.pc = "save", !.halt = TRUE, !.reply = "refused", !.index = 1])
  /\ UNCHANGED <<clock, tables, spent, trouble, history>>

\* The request goes out, unless the deadline passed during the reservation.
Send(p) ==
  /\ At(p, "send")
  /\ IF clock < Deadline[w[p].tgt]
     THEN /\ Goes(p, "wait")
          /\ wires' = [wires EXCEPT ![Request(p)] = @ + 1]
          /\ spent' = spent + 1
     ELSE Goes(p, "complete") /\ UNCHANGED <<wires, spent>>
  /\ UNCHANGED <<clock, tables, trouble, granted, refused, doubt, missed>>

\* The answer, with the count of the key, or a timeout without one.  A refusal is remembered
\* before it is stored.
Reply(p) ==
  /\ At(p, "wait")
  /\ \E reply \in Replies, counted \in BOOLEAN :
       LET r == [w[p] EXCEPT !.reply = reply, !.at = clock, !.seen = IF counted THEN spent ELSE @] IN
       /\ counted \/ reply = "bad"
       /\ Becomes(p, CASE reply = "fatal" -> [r EXCEPT !.pc = "save", !.halt = TRUE]
                        [] reply = "limited" -> [r EXCEPT !.pc = "save", !.cool = clock + Cooldown]
                        [] OTHER -> [r EXCEPT !.pc = "record"])
       /\ refused' = (refused \/ reply = "fatal")
       /\ doubt' = IF reply = "fatal" THEN doubt \union {p} ELSE doubt
  /\ UNCHANGED <<clock, tables, spent, trouble, granted, wires, missed>>

\* The durable halt or cooldown.
Save(p) ==
  /\ At(p, "save")
  /\ halted' = (halted \/ w[p].reply # "limited")
  /\ cooling' = IF w[p].reply = "limited" /\ clock + Cooldown > cooling
                THEN clock + Cooldown ELSE cooling
  /\ Becomes(p, [w[p] EXCEPT !.pc = IF w[p].reply = "refused" THEN "complete" ELSE "record",
                             !.cool = IF w[p].reply = "limited" THEN clock + Cooldown ELSE @])
  /\ UNCHANGED <<clock, target, claims, slots, quota, packets, done, assessed,
                 spent, trouble, history>>

\* record_leg(): the packet and its confirmation.  A refusal, or the deadline, ends the pair.
Record(p) ==
  /\ At(p, "record")
  /\ packets' = [packets EXCEPT ![Request(p)] =
       [ok |-> w[p].reply = "ok", received |-> w[p].at, confirmed |-> clock]]
  /\ Becomes(p, IF \/ w[p].leg = "spy" \/ w[p].reply \in {"fatal", "limited"}
                   \/ clock >= Deadline[w[p].tgt]
                THEN [w[p] EXCEPT !.pc = "complete", !.at = 0, !.reply = "bad"]
                ELSE [w[p] EXCEPT !.pc = "fetch", !.leg = "spy", !.at = 0, !.reply = "bad"])
  /\ UNCHANGED <<clock, target, claims, slots, quota, done, assessed, halted, cooling,
                 spent, trouble, history>>

\* The target is assessed, or a worker has its verdict in hand.
Decided(t) == assessed[t] # None \/ \E p \in Workers : At(p, "assess") /\ w[p].tgt = t

\* complete(): the completion and its confirmation, then the target is evaluated.
Complete(p) ==
  LET a == Attempt(p) IN
  /\ At(p, "complete")
  /\ done' = [done EXCEPT ![a] = clock]
  /\ missed' = IF Decided(a[1]) THEN missed \union {a} ELSE missed
  /\ Goes(p, "judge")
  /\ UNCHANGED <<clock, target, claims, slots, quota, packets, assessed, halted, cooling,
                 spent, trouble, granted, wires, refused, doubt>>

Judge(p) ==
  /\ At(p, "judge")
  /\ Evaluate(p, w[p].tgt,
       IF Halted(p) THEN "day_halted"
       ELSE IF clock >= Deadline[w[p].tgt] THEN "late"
       ELSE IF w[p].k = MaxAttempts THEN "exhausted" ELSE None)
  /\ UNCHANGED <<clock, tables, spent, trouble, history>>

\* assess(): the first assessment of a target stays.
Assess(p) ==
  LET t == w[p].tgt IN
  /\ At(p, "assess")
  /\ assessed' = [assessed EXCEPT ![t] = IF @ = None THEN w[p].verdict ELSE @]
  /\ Becomes(p, NextTarget(p))
  /\ UNCHANGED <<clock, target, claims, slots, quota, packets, done, halted, cooling,
                 spent, trouble, history>>

Works(p) ==
  \/ Discover(p) \/ (\E t \in Targets : Conclude(p, t) \/ Plan(p, t)) \/ Claim(p)
  \/ Unsent(p) \/ Refuse(p) \/ ReadSlots(p) \/ Insert(p) \/ Denied(p) \/ Send(p) \/ Reply(p)
  \/ Save(p) \/ Record(p) \/ Complete(p) \/ Judge(p) \/ Assess(p)

Next ==
  \/ Tick \/ OtherReserves \/ OtherSends
  \/ \E p \in Workers : Start(p) \/ Crash(p) \/ Fails(p) \/ Works(p)

Spec == Init /\ [][Next]_vars

\* The loops are tasks of an event loop whose waits all have a timeout, and the platform
\* starts a process that stopped.
Fairness == WF_vars(Tick) /\ \A p \in Workers : WF_vars(Works(p)) /\ WF_vars(Start(p))
FairSpec == Spec /\ Fairness

-----------------------------------------------------------------------------
(* Properties *)

\* No more of the module's requests go out than its cap, and the consumers together are
\* granted no more of the shared quota than its cap (storage.py:400-428, quota_ledger.py:143).
CapsKept ==
  /\ Cardinality({x \in Attempts \X Legs : wires[x] # 0}) <= ModuleCap
  /\ granted <= SharedCap

\* A request that went out has a slot of its own, no slot is shared, and no request goes out
\* twice, whatever crashed in between (collector.py:66, storage.py:404).
OneRequest ==
  /\ \A x \in Attempts \X Legs :
       /\ wires[x] <= 1
       /\ wires[x] = 1 => \E s \in Slot : slots[s] = x
  /\ \A r, s \in Slot : slots[r] # None /\ slots[r] = slots[s] => r = s

\* After the vendor refused for the day, neither the worker that was told nor any that starts
\* later sends, even if the refusal could not be stored (collector.py:31, service.py:33).
RefusalStands ==
  [][\A p \in Workers : At(p, "send") /\ w'[p].pc = "wait" => p \notin doubt]_vars

\* An observed assessment rests on one completed attempt with both legs confirmed in the
\* window, and stays as it is (collector.py:294, storage.py:553).
ObservedHasPair ==
  \A t \in Targets : assessed[t] = "observed" =>
    /\ t \in SpyEntry
    /\ \E k \in 1..MaxAttempts : Paired(<<t, k>>) /\ wires[<<<<t, k>>, "own">>] = 1
                                                  /\ wires[<<<<t, k>>, "spy">>] = 1

\* A completed pair is never passed over by a verdict taken after its completion, whichever
\* worker takes it and whichever worker's verdict is stored first (collector.py:238,
\* storage.py:553).  A pair completed after the verdict was taken comes too late: a second
\* worker may find the attempt lost at the deadline while its owner completes it.
PairsCount ==
  \A t \in Targets, k \in 1..MaxAttempts :
    Paired(<<t, k>>) /\ <<t, k>> \notin missed
      => assessed[t] \in {None, IF t \in SpyEntry THEN "observed" ELSE "partial"}

\* What all the workers do together for a target is the life MeasurementLife promises for it:
\* attempts spaced and never two open at once, whatever the workers read before they wrote
\* (collector.py:61-95, storage.py:335-359).
Life(t) == INSTANCE MeasurementLife WITH
  Last <- MaxAttempts,
  Opens <- [k \in 1..MaxAttempts |-> TargetAt[t] + Offset[k]],
  Deadline <- Deadline[t],
  stage <- target[t],
  began <- [k \in 1..MaxAttempts |-> claims[<<t, k>>]],
  ended <- [k \in 1..MaxAttempts |-> done[<<t, k>>]],
  verdict <- assessed[t]

\* Life(t)!Spec of every target, its boxes taken together.
LifeImplemented ==
  /\ \A t \in Targets : Life(t)!Init
  /\ [][\A t \in Targets : [Life(t)!Next]_(Life(t)!vars)]_vars

\* Every discovered target is assessed, held or halted days included (collector.py:367).
TargetsSettle ==
  \A t \in Targets : target[t] \in {"eligible", "late"} ~> assessed[t] # None
=============================================================================
