----------------------- MODULE TimedMeasurementProofs -----------------------
(***************************************************************************)
(* Proofs about TimedMeasurement, for any number of workers and targets,   *)
(* any limits, and any number of crashes and failures.                     *)
(***************************************************************************)
EXTENDS TimedMeasurement, TLAPS, FiniteSetTheorems, FunctionTheorems

\* From the claim to the completion a worker owns its attempt.
Owning == {"fetch", "insert", "send", "wait", "save", "record", "complete"}
Att(r) == <<r.tgt, r.k>>
Req(r) == <<Att(r), r.leg>>

HasPair(t) ==
  /\ t \in SpyEntry
  /\ \E k \in 1..MaxAttempts : Paired(<<t, k>>) /\ wires[<<<<t, k>>, "own">>] = 1
                                                /\ wires[<<<<t, k>>, "spy">>] = 1

(* What holds of the record r of a worker. *)

\* What the fields say where they are used.
Shaped(r) ==
  /\ r.pc = "claim" => r.leg = "own" /\ r.at <= clock
  /\ r.pc = "save" => r.reply \notin {"ok", "bad"}
  /\ r.pc = "assess" /\ r.verdict = "observed" => HasPair(r.tgt)

\* An owner's attempt is claimed, open, and its second leg has no slot during the first.
Owner(r) ==
  r.pc \in Owning =>
    /\ claims[Att(r)] # None /\ done[Att(r)] = None
    /\ r.leg = "own" => \A s \in Slot : slots[s] # <<Att(r), "spy">>

\* Where a worker stands tells how far its request is.
Placed(r) ==
  /\ r.pc \in {"fetch", "insert"} => \A s \in Slot : slots[s] # Req(r)
  /\ r.pc = "send" => wires[Req(r)] = 0
  /\ r.pc \in {"send", "wait"} => \E s \in Slot : slots[s] = Req(r)
  /\ r.pc = "wait" \/ (r.pc = "record" /\ r.reply = "ok") => wires[Req(r)] = 1

Sound(r) == Shaped(r) /\ Owner(r) /\ Placed(r)

\* No attempt has two owners.
OneOwner ==
  \A p, q \in Workers :
    p # q /\ w[p].pc \in Owning /\ w[q].pc \in Owning => Att(w[p]) # Att(w[q])

(* What holds of the tables. *)

LedgerInv ==
  /\ granted <= SharedCap
  /\ quota = None => granted = 0
  /\ quota # None => granted <= quota

TableInv ==
  /\ \A s \in Slot : slots[s] # None => claims[slots[s][1]] # None
  /\ \A a \in Attempts : claims[a] # None => claims[a] <= clock
  /\ \A a \in Attempts : done[a] # None => claims[a] # None
  /\ \A x \in Attempts \X Legs : packets[x] # None /\ packets[x].ok => wires[x] = 1

\* A refusal that is not stored has left its attempt open, claimed before any later start.
Stuck(a) ==
  /\ claims[a] # None /\ done[a] = None
  /\ \A q \in Workers : w[q].pc \in Owning /\ Att(w[q]) = a => w[q].pc = "save" /\ w[q].reply = "fatal"
  /\ \A p \in doubt : w[p].pc = "down" \/ w[p].halt \/ claims[a] <= w[p].since
RefusalInv ==
  /\ doubt # {} => refused
  /\ refused => halted \/ \E a \in Attempts : Stuck(a)
  /\ \A p \in doubt : w[p].pc \notin {"insert", "send"}

IInv ==
  /\ TypeOK /\ LedgerInv /\ TableInv /\ OneRequest /\ ObservedHasPair /\ OneOwner /\ RefusalInv
  /\ \A p \in Workers : Sound(w[p])

-----------------------------------------------------------------------------
LEMMA Nones ==
  /\ None \notin Int /\ None \notin Targets /\ None \notin Workers
  /\ None \notin Verdicts /\ None # "observed" /\ None \notin Attempts \X Legs
  /\ None \notin {"eligible", "late", "absent"}
BY WorldAssumption DEF Verdicts

(* A worker without a target holds nothing. *)
LEMMA FreeSound ==
  ASSUME NEW r, r.pc \in {"down", "scan"}
  PROVE  Sound(r)
BY DEF Sound, Shaped, Owner, Placed, Owning

LEMMA FreeFields ==
  ASSUME NEW pc, NEW t, NEW h, NEW c, NEW n, NEW todo
  PROVE  /\ Free(pc, t, h, c, n, todo).pc = pc
         /\ Free(pc, t, h, c, n, todo).since = t
         /\ Free(pc, t, h, c, n, todo).halt = h
BY DEF Free

LEMMA FreeWorker ==
  ASSUME NEW pc \in {"down", "scan"}, NEW t \in Nat, NEW h \in BOOLEAN, NEW c \in Nat,
         NEW n \in Nat \union {None}, NEW todo \in SUBSET Targets
  PROVE  Free(pc, t, h, c, n, todo) \in Worker
BY DEF Free, Worker, Legs, Replies, Verdicts, MaxAttempts

LEMMA DownWorker == Down \in Worker /\ Sound(Down) /\ Down.pc = "down"
<1>1. Down \in Worker
  BY DEF Down, Free, Worker, Legs, Replies, Verdicts, MaxAttempts
<1>2. Down.pc = "down"
  BY DEF Down, Free
<1> QED BY <1>1, <1>2, FreeSound

LEMMA NextTargetSound ==
  ASSUME TypeOK, NEW p \in Workers
  PROVE  /\ NextTarget(p) \in Worker /\ Sound(NextTarget(p)) /\ NextTarget(p).pc = "scan"
         /\ NextTarget(p).since = w[p].since /\ NextTarget(p).halt = w[p].halt
<1>1. w[p] \in Worker
  BY DEF TypeOK
<1>2. NextTarget(p) \in Worker
  BY <1>1 DEF NextTarget, Free, Worker, Legs, Replies, Verdicts, MaxAttempts
<1>3. /\ NextTarget(p).pc = "scan"
      /\ NextTarget(p).since = w[p].since /\ NextTarget(p).halt = w[p].halt
  BY DEF NextTarget, Free
<1> QED BY <1>2, <1>3, FreeSound

LEMMA Shape ==
  ASSUME IInv, NEW p \in Workers
  PROVE  /\ w[p] \in Worker /\ Sound(w[p]) /\ trouble \in 0..MaxTrouble /\ clock \in Nat
         /\ w[p].halt \in BOOLEAN /\ w[p].since \in Nat /\ w[p].at \in Nat
         /\ w[p].k \in 1..MaxAttempts /\ w[p].leg \in Legs /\ w[p].todo \in SUBSET Targets
         /\ w[p].pc \notin {"down", "scan"} => w[p].tgt \in Targets
         /\ w[p].pc \notin {"down", "scan"} => Att(w[p]) \in Attempts
         /\ w[p].pc \notin {"down", "scan"} => Req(w[p]) \in Attempts \X Legs
         /\ Att(w[p]) = Attempt(p) /\ Req(w[p]) = Request(p)
<1>1. w[p] \in Worker /\ Sound(w[p]) /\ trouble \in 0..MaxTrouble
  BY DEF IInv, TypeOK
<1>2. clock \in Nat
  BY LimitsAssumption DEF IInv, TypeOK
<1>3. /\ w[p].halt \in BOOLEAN /\ w[p].since \in Nat /\ w[p].at \in Nat
      /\ w[p].k \in 1..MaxAttempts /\ w[p].leg \in Legs /\ w[p].todo \in SUBSET Targets
      /\ w[p].tgt \in Targets \union {None}
  BY <1>1 DEF Worker
<1>4. w[p].pc \notin {"down", "scan"} => w[p].tgt \in Targets
  BY <1>3 DEF IInv, TypeOK
<1> QED BY <1>1, <1>2, <1>3, <1>4 DEF Att, Req, Attempt, Request, Attempts

LEMMA InitIInv == Init => IInv
<1> SUFFICES ASSUME Init PROVE IInv
  OBVIOUS
<1>1. \A p \in Workers : w[p] \in Worker /\ Sound(w[p]) /\ w[p].pc = "down"
  BY DownWorker DEF Init
<1>2. w \in [Workers -> Worker]
  BY <1>1 DEF Init
<1>3. TypeOK
  <2>1. /\ target \in [Targets -> {None, "eligible", "late", "absent"}]
        /\ claims \in [Attempts -> Nat \union {None}]
        /\ slots \in [Slot -> (Attempts \X Legs) \union {None}]
        /\ packets \in [Attempts \X Legs -> Evidence \union {None}]
        /\ done \in [Attempts -> Nat \union {None}]
        /\ assessed \in [Targets -> Verdicts \union {None}]
        /\ wires \in [Attempts \X Legs -> Nat]
    BY DEF Init
  <2>2. clock \in 0..MaxTime /\ cooling \in Nat /\ trouble \in 0..MaxTrouble
    BY DEF Init
  <2>3. quota \in Nat \union {None} /\ granted \in Nat /\ spent \in Nat
    BY DEF Init
  <2>4. halted \in BOOLEAN /\ refused \in BOOLEAN /\ doubt \subseteq Workers /\ missed \subseteq Attempts
    BY DEF Init
  <2> QED BY <1>1, <1>2, <2>1, <2>2, <2>3, <2>4 DEF TypeOK
<1>4. LedgerInv
  BY Nones, LimitsAssumption DEF Init, LedgerInv
<1>5. TableInv /\ OneRequest
  BY DEF Init, TableInv, OneRequest
<1>6. ObservedHasPair
  <2>1. \A t \in Targets : assessed[t] = None
    BY DEF Init
  <2> QED BY <2>1, Nones DEF ObservedHasPair
<1>7. OneOwner /\ RefusalInv
  BY <1>1 DEF Init, OneOwner, RefusalInv, Owning
<1> QED BY <1>1, <1>3, <1>4, <1>5, <1>6, <1>7 DEF IInv

-----------------------------------------------------------------------------
(* The ledger keeps its invariant through each of its operations. *)

LEMMA RaisedFacts ==
  ASSUME quota \in Nat \union {None}, NEW o \in Nat \union {None}
  PROVE  /\ Raised(quota, o) \in Nat
         /\ quota # None => Raised(quota, o) >= quota
BY Nones DEF Raised, Ensured, Known

LEMMA ReserveFacts ==
  ASSUME quota \in Nat \union {None}, NEW o \in Nat \union {None}, granted \in Nat, LedgerInv
  PROVE  /\ Reserve(quota, o, 1, SharedCap).after \in Nat
         /\ Reserve(quota, o, 1, SharedCap).granted
              => /\ Reserve(quota, o, 1, SharedCap).after >= granted + 1
                 /\ granted + 1 <= SharedCap
         /\ ~Reserve(quota, o, 1, SharedCap).granted
              => Reserve(quota, o, 1, SharedCap).after >= granted
<1> DEFINE floor == Raised(quota, o)
           got == Reserve(quota, o, 1, SharedCap)
<1>1. floor \in Nat /\ floor >= granted
  <2>1. floor \in Nat /\ (quota # None => floor >= quota)
    BY RaisedFacts
  <2> HIDE DEF floor
  <2>2. CASE quota = None
    BY <2>1, <2>2 DEF LedgerInv
  <2>3. CASE quota # None
    <3>1. quota \in Nat
      BY <2>3
    <3> QED BY <2>1, <2>3, <3>1 DEF LedgerInv
  <2> QED BY <2>2, <2>3
<1>2. SharedCap \in Nat
  BY LimitsAssumption
<1>3. got.granted <=> floor + 1 <= SharedCap
  BY Zenon DEF Reserve, Fits
<1>4. got.after = IF floor + 1 <= SharedCap THEN floor + 1 ELSE floor
  BY Zenon DEF Reserve, Fits
<1> HIDE DEF floor, got
<1>5. /\ got.after \in Nat
      /\ got.granted => got.after >= granted + 1 /\ granted + 1 <= SharedCap
      /\ ~got.granted => got.after >= granted
  BY <1>1, <1>2, <1>3, <1>4
<1> QED BY <1>5 DEF got

(* A step of one worker that leaves the claims, the slots and what was sent alone. *)
LEMMA AnyLocalStep ==
  ASSUME IInv, NEW p \in Workers, NEW r \in Worker, Becomes(p, r), Sound(r),
         r.pc \notin {"down", "scan"} => r.tgt # None,
         r.pc \in Owning => /\ w[p].pc \in Owning /\ r.tgt = w[p].tgt /\ r.k = w[p].k
                            /\ halted' \/ w[p].pc # "save" \/ w[p].reply # "fatal",
         w[p].pc # "down", r.pc = "down" \/ (r.since = w[p].since /\ (w[p].halt => r.halt)),
         r.pc \in {"insert", "send"} => p \notin doubt,
         UNCHANGED <<clock, claims, slots, packets, done, wires, refused, doubt, missed>>,
         assessed' \in [Targets -> Verdicts \union {None}],
         \A t \in Targets : assessed'[t] = "observed" => HasPair(t),
         target' \in [Targets -> {None, "eligible", "late", "absent"}],
         quota' \in Nat \union {None}, granted' \in Nat, LedgerInv',
         halted => halted', halted' \in BOOLEAN, cooling' \in Nat, spent' \in Nat,
         trouble' \in 0..MaxTrouble
  PROVE  IInv'
<1>1. w'[p] = r /\ \A q \in Workers : q # p => w'[q] = w[q]
  BY DEF Becomes, IInv, TypeOK
<1>2. w' \in [Workers -> Worker]
  BY DEF Becomes, IInv, TypeOK
<1>3. \A q \in Workers : Sound(w'[q])
  BY <1>1 DEF IInv
<1>4. \A q \in Workers : Sound(w[q])'
  <2>1. \A t : HasPair(t)' <=> HasPair(t)
    BY DEF HasPair, Paired, Good
  <2> SUFFICES ASSUME NEW q \in Workers PROVE Sound(w[q])'
    OBVIOUS
  <2>2. Sound(w'[q])
    BY <1>3
  <2>3. Shaped(w[q])'
    BY <2>1, <2>2 DEF Sound, Shaped
  <2>4. Owner(w[q])' /\ Placed(w[q])'
    BY <2>2 DEF Sound, Owner, Placed, Att, Req
  <2> QED BY <2>3, <2>4 DEF Sound
<1>5. TypeOK'
  BY <1>1, <1>2 DEF IInv, TypeOK
<1>6. TableInv' /\ OneRequest'
  BY DEF IInv, TableInv, OneRequest
<1>7. ObservedHasPair'
  BY DEF ObservedHasPair, HasPair, Paired, Good
<1>8. OneOwner'
  BY <1>1 DEF IInv, OneOwner, Att
<1>9. RefusalInv'
  <2>1. ASSUME NEW a \in Attempts, Stuck(a), ~halted' PROVE Stuck(a)'
    <3>1. ASSUME NEW q \in Workers, w'[q].pc \in Owning, Att(w'[q]) = a
          PROVE  w'[q].pc = "save" /\ w'[q].reply = "fatal"
      <4>1. w[q].pc \in Owning /\ Att(w[q]) = a
        BY <1>1, <3>1 DEF Att
      <4> QED BY <1>1, <2>1, <3>1, <4>1 DEF Stuck
    <3>2. ASSUME NEW q \in doubt PROVE w'[q].pc = "down" \/ w'[q].halt \/ claims[a] <= w'[q].since
      <4>1. q \in Workers
        BY DEF IInv, TypeOK
      <4>2. CASE q # p
        BY <1>1, <2>1, <4>1, <4>2 DEF Stuck
      <4>3. CASE q = p
        BY <1>1, <2>1, <4>1, <4>3 DEF Stuck
      <4> QED BY <4>2, <4>3
    <3> QED BY <2>1, <3>1, <3>2 DEF Stuck, Att
  <2>2. \A q \in doubt : w'[q].pc \notin {"insert", "send"}
    BY <1>1 DEF IInv, RefusalInv, TypeOK
  <2> QED BY <2>1, <2>2 DEF IInv, RefusalInv
<1> QED BY <1>4, <1>5, <1>6, <1>7, <1>8, <1>9 DEF IInv

LEMMA StillTables ==
  ASSUME IInv
  PROVE  /\ assessed \in [Targets -> Verdicts \union {None}]
         /\ \A t \in Targets : assessed[t] = "observed" => HasPair(t)
         /\ target \in [Targets -> {None, "eligible", "late", "absent"}]
         /\ quota \in Nat \union {None} /\ granted \in Nat /\ LedgerInv
         /\ halted \in BOOLEAN /\ cooling \in Nat /\ spent \in Nat /\ trouble \in 0..MaxTrouble
BY DEF IInv, TypeOK, ObservedHasPair, HasPair

(* The same, without an assessment. *)
LEMMA LocalStep ==
  ASSUME IInv, NEW p \in Workers, NEW r \in Worker, Becomes(p, r), Sound(r),
         r.pc \notin {"down", "scan"} => r.tgt # None,
         r.pc \in Owning => /\ w[p].pc \in Owning /\ r.tgt = w[p].tgt /\ r.k = w[p].k
                            /\ halted' \/ w[p].pc # "save" \/ w[p].reply # "fatal",
         w[p].pc # "down", r.pc = "down" \/ (r.since = w[p].since /\ (w[p].halt => r.halt)),
         r.pc \in {"insert", "send"} => p \notin doubt,
         UNCHANGED <<clock, claims, slots, packets, done, assessed, wires, refused, doubt, missed>>,
         target' \in [Targets -> {None, "eligible", "late", "absent"}],
         quota' \in Nat \union {None}, granted' \in Nat, LedgerInv',
         halted => halted', halted' \in BOOLEAN, cooling' \in Nat, spent' \in Nat,
         trouble' \in 0..MaxTrouble
  PROVE  IInv'
BY AnyLocalStep, StillTables

LEMMA MoreTrouble == ASSUME IInv, Troubled PROVE trouble' \in 0..MaxTrouble
BY LimitsAssumption DEF IInv, TypeOK, Troubled

LEMMA HaltDayFacts ==
  ASSUME IInv, NEW d \in BOOLEAN, HaltDay(d)
  PROVE  (halted => halted') /\ halted' \in BOOLEAN /\ trouble' \in 0..MaxTrouble
BY MoreTrouble DEF HaltDay, IInv, TypeOK

-----------------------------------------------------------------------------
(* The steps of one worker *)

LEMMA CrashInv == ASSUME IInv, NEW p \in Workers, Crash(p) PROVE IInv'
<1>1. /\ Becomes(p, Down) /\ w[p].pc # "down" /\ UNCHANGED <<clock, tables, spent, history>>
      /\ trouble' \in 0..MaxTrouble
  BY MoreTrouble DEF Crash, At
<1>2. LedgerInv'
  BY <1>1 DEF IInv, LedgerInv, tables, history
<1> QED BY <1>1, <1>2, DownWorker, StillTables, LocalStep DEF tables, history, Owning

LEMMA FailsInv == ASSUME IInv, NEW p \in Workers, Fails(p) PROVE IInv'
<1> DEFINE r == Free("scan", w[p].since, w[p].halt, w[p].cool, w[p].seen, {})
<1>1. /\ Becomes(p, r) /\ w[p].pc # "down" /\ UNCHANGED <<clock, tables, spent, history>>
      /\ trouble' \in 0..MaxTrouble
  BY MoreTrouble DEF Fails
<1>2. LedgerInv'
  BY <1>1 DEF IInv, LedgerInv, tables, history
<1>3. r \in Worker
  BY Shape DEF Free, Worker, Legs, Replies, Verdicts, MaxAttempts
<1>4. r.pc = "scan" /\ r.since = w[p].since /\ r.halt = w[p].halt
  BY DEF Free
<1>5. Sound(r)
  BY <1>4, FreeSound
<1>6. w[p].halt => r.halt
  BY <1>4
<1> HIDE DEF r
<1> QED BY <1>1, <1>2, <1>3, <1>4, <1>5, <1>6, StillTables, LocalStep DEF tables, history, Owning

LEMMA DiscoverInv == ASSUME IInv, NEW p \in Workers, Discover(p) PROVE IInv'
<1> DEFINE r == [w[p] EXCEPT !.todo = {t \in Targets : assessed[t] = None /\ target[t] # "absent"}]
<1>1. /\ Becomes(p, r) /\ w[p].pc = "scan"
      /\ UNCHANGED <<clock, claims, slots, quota, packets, done, assessed, halted, cooling,
                     spent, trouble, history>>
  BY DEF Discover, At
<1>2. LedgerInv'
  BY <1>1 DEF IInv, LedgerInv, history
<1>3. r \in Worker /\ r.pc = "scan" /\ r.since = w[p].since /\ r.halt = w[p].halt
  BY <1>1, Shape DEF Worker
<1>4. target' \in [Targets -> {None, "eligible", "late", "absent"}]
  BY DEF Discover, IInv, TypeOK
<1> HIDE DEF r
<1>5. Sound(r) /\ r \in Worker /\ r.pc = "scan" /\ r.since = w[p].since
  BY <1>3, FreeSound
<1>6. w[p].halt => r.halt
  BY <1>3
<1> QED BY <1>1, <1>2, <1>4, <1>5, <1>6, StillTables, LocalStep DEF history, Owning

(* A worker that moves on to a target that needs no request. *)
LEMMA VerdictFacts ==
  ASSUME IInv, NEW t \in Targets, NEW terminal
  PROVE  /\ Verdict(t, terminal) \in Verdicts \union {None}
         /\ Verdict(t, terminal) = "observed" => HasPair(t)
<1>1. Verdict(t, terminal) \in Verdicts \union {None}
  BY DEF Verdict, Verdicts
<1>2. ASSUME Verdict(t, terminal) = "observed" PROVE HasPair(t)
  <2>1. t \in SpyEntry /\ \E k \in 1..MaxAttempts : Paired(<<t, k>>)
    BY <1>2, Nones DEF Verdict
  <2>2. ASSUME NEW k \in 1..MaxAttempts, Paired(<<t, k>>)
        PROVE  wires[<<<<t, k>>, "own">>] = 1 /\ wires[<<<<t, k>>, "spy">>] = 1
    BY <2>2 DEF Paired, Good, IInv, TableInv, Attempts, Legs
  <2> QED BY <2>1, <2>2 DEF HasPair
<1> QED BY <1>1, <1>2

LEMMA Passes ==
  ASSUME IInv, NEW p \in Workers, NEW t \in Targets
  PROVE  /\ Passing(p, t) \in Worker /\ Passing(p, t).pc = "scan"
         /\ Passing(p, t).since = w[p].since /\ Passing(p, t).halt = w[p].halt
         /\ Passing(p, t).leg = "own" /\ Passing(p, t).tgt = None
<1>1. Passing(p, t) \in Worker
  BY Shape DEF Passing, Free, Worker, Legs, Replies, Verdicts, MaxAttempts
<1> QED BY <1>1 DEF Passing, Free

LEMMA AssessSound ==
  ASSUME IInv, NEW r, r.pc = "assess", NEW t \in Targets, r.tgt = t,
         r.verdict = "observed" => HasPair(t)
  PROVE  Sound(r)
BY DEF Sound, Shaped, Owner, Placed, Owning

LEMMA ConcludeInv ==
  ASSUME IInv, NEW p \in Workers, NEW t \in Targets, Conclude(p, t) PROVE IInv'
<1>1. w[p].pc = "scan" /\ UNCHANGED <<clock, tables, spent, trouble, history>>
  BY DEF Conclude, Takes, At
<1>2. LedgerInv'
  BY <1>1 DEF IInv, LedgerInv, tables, history
<1>3. CASE Becomes(p, Passing(p, t))
  BY <1>1, <1>2, <1>3, Passes, FreeSound, StillTables, LocalStep DEF tables, history, Owning
<1>4. ASSUME NEW v \in Verdicts, v = "observed" => HasPair(t),
             Becomes(p, [Passing(p, t) EXCEPT !.pc = "assess", !.tgt = t, !.verdict = v])
      PROVE  IInv'
  <2> DEFINE x == Passing(p, t)
             r == [x EXCEPT !.pc = "assess", !.tgt = t, !.verdict = v]
  <2>0. x \in Worker /\ x.since = w[p].since /\ x.halt = w[p].halt /\ Becomes(p, r)
    BY <1>4, Passes
  <2> HIDE DEF x
  <2>1. /\ r \in Worker /\ r.pc = "assess" /\ r.tgt = t /\ r.verdict = v
        /\ r.since = w[p].since /\ r.halt = w[p].halt
    BY <2>0 DEF Worker
  <2>2. Sound(r) /\ r.tgt # None
    BY <1>4, <2>1, Nones, AssessSound
  <2> HIDE DEF r
  <2> QED BY <1>1, <1>2, <2>0, <2>1, <2>2, StillTables, LocalStep DEF tables, history, Owning
<1>5. CASE ~Becomes(p, Passing(p, t))
  <2> DEFINE terminal == IF Halted(p) THEN "day_halted"
        ELSE IF Schedule(t) = "late" /\ Incomplete(t) THEN "incomplete_attempt"
        ELSE IF Schedule(t) \in {"late", "exhausted"} THEN Schedule(t) ELSE None
        v == IF target[t] = "late" THEN "not_applicable" ELSE Verdict(t, terminal)
  <2>1. v # None /\ Becomes(p, [Passing(p, t) EXCEPT !.pc = "assess", !.tgt = t, !.verdict = v])
    BY <1>5, Zenon DEF Conclude
  <2>2. v \in Verdicts /\ (v = "observed" => HasPair(t))
    BY <2>1, VerdictFacts DEF Verdicts
  <2> QED BY <1>4, <2>1, <2>2
<1> QED BY <1>3, <1>5

LEMMA ClaimsFinite ==
  ASSUME NEW t \in Targets
  PROVE  /\ IsFiniteSet(ClaimsOf(t)) /\ Cardinality(ClaimsOf(t)) \in 0..MaxAttempts
         /\ Cardinality(ClaimsOf(t)) \in Nat
<1>1. ClaimsOf(t) \in SUBSET (1..MaxAttempts) /\ MaxAttempts \in Nat
  BY DEF ClaimsOf, MaxAttempts
<1>2. IsFiniteSet(1..MaxAttempts) /\ Cardinality(1..MaxAttempts) = MaxAttempts
  <2>1. 1 \in Int /\ 3 \in Int /\ 3 - 1 + 1 = 3 /\ ~(1 > 3)
    OBVIOUS
  <2> QED BY <2>1, FS_Interval DEF MaxAttempts
<1>3. IsFiniteSet(ClaimsOf(t)) /\ Cardinality(ClaimsOf(t)) <= MaxAttempts
  BY <1>1, <1>2, FS_Subset
<1> QED BY <1>1, <1>3, FS_CardinalityType

LEMMA PlanInv ==
  ASSUME IInv, NEW p \in Workers, NEW t \in Targets, Plan(p, t) PROVE IInv'
<1> DEFINE ready == Schedule(t) = "ready" /\ Permitted(p, {}) /\ ~Cooling(p)
           doubtful == Schedule(t) = "ready" /\ Doubtful(p, {})
           k == Cardinality(ClaimsOf(t)) + 1
           x == Passing(p, t)
           c == [x EXCEPT !.pc = "claim", !.tgt = t, !.at = clock, !.k = k]
           h == [x EXCEPT !.halt = @ \/ doubtful]
<1>0. x \in Worker /\ x.pc = "scan" /\ x.leg = "own" /\ x.since = w[p].since /\ x.halt = w[p].halt
  BY Passes
<1>1. /\ w[p].pc = "scan"
      /\ UNCHANGED <<clock, target, claims, slots, quota, packets, done, assessed, cooling,
                     spent, history>>
      /\ HaltDay(doubtful)
  BY DEF Plan, Takes, At
<1>2. doubtful \in BOOLEAN
  BY DEF Doubtful
<1>3. (halted => halted') /\ halted' \in BOOLEAN /\ trouble' \in 0..MaxTrouble
  <2> HIDE DEF doubtful
  <2> QED BY <1>1, <1>2, HaltDayFacts
<1>4. LedgerInv'
  BY <1>1 DEF IInv, LedgerInv, history
<1>7. (ready /\ Becomes(p, c)) \/ Becomes(p, h)
  BY Zenon DEF Plan
<1> HIDE DEF x
<1>5. CASE ready /\ Becomes(p, c)
  <2>1. k \in 1..MaxAttempts
    BY <1>5, ClaimsFinite DEF Schedule, MaxAttempts
  <2>2. c \in Worker /\ c.pc = "claim" /\ c.tgt = t /\ c.leg = "own" /\ c.at = clock
        /\ c.since = w[p].since /\ c.halt = w[p].halt
    BY <1>0, <2>1, Shape DEF Worker
  <2>3. Sound(c) /\ c.tgt # None
    BY <2>2, Nones, Shape DEF Sound, Shaped, Owner, Placed, Owning
  <2> HIDE DEF c
  <2> QED BY <1>1, <1>3, <1>4, <1>5, <2>2, <2>3, StillTables, LocalStep DEF history, Owning
<1>6. CASE Becomes(p, h)
  <2> HIDE DEF doubtful
  <2>1. h \in Worker /\ h.pc = "scan" /\ h.since = w[p].since
    BY <1>0, <1>2 DEF Worker
  <2>2. w[p].halt => h.halt
    BY <1>0, <1>2 DEF Worker
  <2>3. Sound(h)
    <3> HIDE DEF h
    <3> QED BY <2>1, FreeSound
  <2> HIDE DEF h
  <2> QED BY <1>1, <1>3, <1>4, <1>6, <2>1, <2>2, <2>3, StillTables, LocalStep DEF history, Owning
<1> QED BY <1>5, <1>6, <1>7

(* An owner that goes on with the same request. *)
LEMMA SameRequest ==
  ASSUME IInv, NEW p \in Workers, w[p].pc \in Owning,
         NEW r, r.tgt = w[p].tgt, r.k = w[p].k, r.leg = w[p].leg
  PROVE  Owner(r) /\ r.tgt # None /\ Att(r) = Att(w[p]) /\ Req(r) = Req(w[p])
<1>1. Att(r) = Att(w[p]) /\ Req(r) = Req(w[p])
  BY DEF Att, Req
<1>2. r.tgt # None
  BY Shape, Nones DEF Owning
<1>3. Owner(r)
  BY <1>1, Shape DEF Sound, Owner
<1> QED BY <1>1, <1>2, <1>3

LEMMA Rests ==
  ASSUME IInv, NEW p \in Workers, w[p].pc \in Owning,
         NEW r, r.tgt = w[p].tgt, r.k = w[p].k, r.leg = w[p].leg,
         \/ r.pc = "complete"
         \/ r.pc = "save" /\ r.reply \notin {"ok", "bad"}
         \/ r.pc = "record" /\ r.reply # "ok"
  PROVE  Sound(r) /\ r.tgt # None
<1>1. Owner(r) /\ r.tgt # None
  BY SameRequest
<1>2. Shaped(r) /\ Placed(r)
  BY DEF Shaped, Placed
<1> QED BY <1>1, <1>2 DEF Sound

LEMMA UnsentInv == ASSUME IInv, NEW p \in Workers, Unsent(p) PROVE IInv'
<1> DEFINE r == [w[p] EXCEPT !.pc = "record", !.reply = "bad"]
<1>1. w[p].pc = "fetch" /\ Becomes(p, r) /\ UNCHANGED <<clock, tables, spent, trouble, history>>
  BY DEF Unsent, At
<1>2. LedgerInv'
  BY <1>1 DEF IInv, LedgerInv, tables, history
<1>3. /\ r \in Worker /\ r.pc = "record" /\ r.reply = "bad" /\ r.tgt = w[p].tgt /\ r.k = w[p].k
      /\ r.leg = w[p].leg /\ r.since = w[p].since /\ r.halt = w[p].halt
  BY ZenonT(60), Shape DEF Worker, Replies
<1> HIDE DEF r
<1>4. Sound(r) /\ r.tgt # None
  BY ZenonT(60), <1>1, <1>3, Shape, Nones DEF Sound, Shaped, Owner, Placed, Owning, Att, Req
<1>5. w[p].halt => r.halt
  BY <1>3
<1> QED BY <1>1, <1>2, <1>3, <1>4, <1>5, StillTables, LocalStep DEF tables, history, Owning

LEMMA RefuseInv == ASSUME IInv, NEW p \in Workers, Refuse(p) PROVE IInv'
<1> DEFINE late == clock >= Deadline[w[p].tgt]
           doubtful == ~late /\ Doubtful(p, {Attempt(p)})
           d == [w[p] EXCEPT !.pc = "save", !.halt = TRUE, !.reply = "refused"]
           c == [w[p] EXCEPT !.pc = "complete", !.halt = @ \/ doubtful]
<1>1. /\ w[p].pc = "fetch" /\ HaltDay(doubtful)
      /\ UNCHANGED <<clock, target, claims, slots, quota, packets, done, assessed, cooling,
                     spent, history>>
      /\ Becomes(p, d) \/ Becomes(p, c)
  BY DEF Refuse, At, Attempt
<1>2. doubtful \in BOOLEAN
  BY DEF Doubtful
<1> HIDE DEF doubtful
<1>3. (halted => halted') /\ halted' \in BOOLEAN /\ trouble' \in 0..MaxTrouble
  BY <1>1, <1>2, HaltDayFacts
<1>4. LedgerInv'
  BY <1>1 DEF IInv, LedgerInv, history
<1>5. CASE Becomes(p, d)
  <2>1. /\ d \in Worker /\ d.pc = "save" /\ d.reply = "refused" /\ d.tgt = w[p].tgt
        /\ d.k = w[p].k /\ d.leg = w[p].leg /\ d.since = w[p].since /\ d.halt = TRUE
    BY ZenonT(60), Shape DEF Worker, Replies
  <2> HIDE DEF d
  <2>2. Sound(d) /\ d.tgt # None
    BY <1>1, <2>1, Rests DEF Owning
  <2>3. w[p].halt => d.halt
    BY <2>1
  <2> QED BY <1>1, <1>3, <1>4, <1>5, <2>1, <2>2, <2>3, StillTables, LocalStep DEF history, Owning
<1>6. CASE Becomes(p, c)
  <2>1. /\ c \in Worker /\ c.pc = "complete" /\ c.tgt = w[p].tgt
        /\ c.k = w[p].k /\ c.leg = w[p].leg /\ c.since = w[p].since
    BY ZenonT(60), <1>2, Shape DEF Worker
  <2>3. w[p].halt => c.halt
    BY <1>2, Shape DEF Worker
  <2> HIDE DEF c, d
  <2>4. w[p].pc \in Owning
    BY <1>1 DEF Owning
  <2>2. Sound(c) /\ c.tgt # None
    <3>1. Owner(c) /\ c.tgt # None
      BY <2>1, <2>4, SameRequest
    <3>2. Shaped(c) /\ Placed(c)
      BY <2>1 DEF Shaped, Placed
    <3> QED BY <3>1, <3>2 DEF Sound
  <2> QED BY <1>1, <1>3, <1>4, <1>6, <2>1, <2>2, <2>3, StillTables, LocalStep DEF history, Owning
<1> QED BY <1>1, <1>5, <1>6

(* A worker that may know of the refusal is never allowed to reserve. *)
LEMMA DoubtHeld ==
  ASSUME IInv, NEW p \in Workers, p \in doubt, w[p].pc \in Owning, w[p].pc # "save",
         ~Halted(p), Permitted(p, {Attempt(p)})
  PROVE  FALSE
<1>1. refused /\ ~halted /\ ~w[p].halt
  BY DEF IInv, RefusalInv, Halted
<1>2. PICK a \in Attempts : Stuck(a)
  BY <1>1 DEF IInv, RefusalInv
<1>3. a # Attempt(p)
  BY <1>2 DEF Stuck, Att, Attempt
<1>4. a \in Opened /\ claims[a] <= w[p].since
  BY <1>1, <1>2 DEF Stuck, Opened, Owning
<1>5. a \in Held(p, {Attempt(p)})
  BY <1>3, <1>4 DEF Held
<1> QED BY <1>5 DEF Permitted

LEMMA ReadSlotsInv == ASSUME IInv, NEW p \in Workers, ReadSlots(p) PROVE IInv'
<1>1. /\ w[p].pc = "fetch" /\ ~Halted(p) /\ Permitted(p, {Attempt(p)})
      /\ UNCHANGED <<clock, target, claims, slots, packets, done, assessed, halted, cooling,
                     spent, trouble, history>>
      /\ quota' = IF Known(w[p].seen) THEN Raised(quota, w[p].seen) ELSE quota
  BY DEF ReadSlots, At
<1>2. PICK s \in 0..ModuleCap : Becomes(p, [w[p] EXCEPT !.pc = "insert", !.index = s + 1])
  BY DEF ReadSlots
<1> DEFINE r == [w[p] EXCEPT !.pc = "insert", !.index = s + 1]
<1>3. p \notin doubt
  BY <1>1, DoubtHeld DEF Owning
<1>4. w[p].seen \in Nat \union {None}
  BY Shape DEF Worker
<1>5. quota' \in Nat \union {None} /\ LedgerInv'
  <2>1. /\ Raised(quota, w[p].seen) \in Nat /\ (quota # None => Raised(quota, w[p].seen) >= quota)
    BY <1>4, StillTables, RaisedFacts
  <2>2. granted' = granted /\ granted \in Nat /\ LedgerInv /\ quota \in Nat \union {None}
    BY <1>1, StillTables DEF history
  <2>3. CASE Known(w[p].seen)
    BY <1>1, <2>1, <2>2, <2>3, Nones DEF LedgerInv
  <2>4. CASE ~Known(w[p].seen)
    BY <1>1, <2>2, <2>4 DEF LedgerInv
  <2> QED BY <2>3, <2>4
<1>6. /\ r \in Worker /\ r.pc = "insert" /\ r.tgt = w[p].tgt /\ r.k = w[p].k
      /\ r.leg = w[p].leg /\ r.since = w[p].since /\ r.halt = w[p].halt
  <2>1. s + 1 \in Nat \ {0}
    BY LimitsAssumption
  <2> QED BY ZenonT(60), <2>1, Shape DEF Worker
<1>10. Becomes(p, r)
  BY <1>2
<1> HIDE DEF r
<1>7. Sound(r) /\ r.tgt # None
  <2>1. Owner(r) /\ r.tgt # None /\ Req(r) = Req(w[p])
    BY <1>1, <1>6, SameRequest DEF Owning
  <2>2. Shaped(r)
    BY <1>6 DEF Shaped
  <2>3. Placed(r)
    BY <1>1, <1>6, <2>1, Shape DEF Sound, Placed
  <2> QED BY <2>1, <2>2, <2>3 DEF Sound
<1>8. w[p].halt => r.halt
  BY <1>6
<1> QED BY <1>1, <1>3, <1>5, <1>6, <1>7, <1>8, <1>10, StillTables, LocalStep DEF history, Owning

LEMMA DeniedInv == ASSUME IInv, NEW p \in Workers, Denied(p) PROVE IInv'
<1> DEFINE r == [w[p] EXCEPT !.pc = "save", !.halt = TRUE, !.reply = "refused", !.index = 1]
<1>1. w[p].pc = "insert" /\ Becomes(p, r) /\ UNCHANGED <<clock, tables, spent, trouble, history>>
  BY DEF Denied, At
<1>2. LedgerInv'
  BY <1>1 DEF IInv, LedgerInv, tables, history
<1>3. /\ r \in Worker /\ r.pc = "save" /\ r.reply = "refused" /\ r.tgt = w[p].tgt
      /\ r.k = w[p].k /\ r.leg = w[p].leg /\ r.since = w[p].since /\ r.halt = TRUE
  <2>1. 1 \in Nat \ {0} /\ TRUE \in BOOLEAN
    OBVIOUS
  <2> QED BY ZenonT(60), <2>1, Shape DEF Worker, Replies
<1> HIDE DEF r
<1>4. Sound(r) /\ r.tgt # None
  BY <1>1, <1>3, Rests DEF Owning
<1>5. w[p].halt => r.halt
  BY <1>3
<1> QED BY <1>1, <1>2, <1>3, <1>4, <1>5, StillTables, LocalStep DEF tables, history, Owning

LEMMA SaveInv == ASSUME IInv, NEW p \in Workers, Save(p) PROVE IInv'
<1> DEFINE pc == IF w[p].reply = "refused" THEN "complete" ELSE "record"
           cool == IF w[p].reply = "limited" THEN clock + Cooldown ELSE w[p].cool
           r == [w[p] EXCEPT !.pc = pc, !.cool = cool]
<1>1. /\ w[p].pc = "save" /\ Becomes(p, r)
      /\ UNCHANGED <<clock, target, claims, slots, quota, packets, done, assessed,
                     spent, trouble, history>>
      /\ halted' = (halted \/ w[p].reply # "limited")
  BY DEF Save, At
<1>2. LedgerInv'
  BY <1>1 DEF IInv, LedgerInv, history
<1>3. cool \in Nat /\ cooling' \in Nat /\ clock + Cooldown \in Nat
  <2>1. clock + Cooldown \in Nat
    BY Shape, LimitsAssumption
  <2> QED BY <2>1, Shape, StillTables DEF Save, Worker
<1>4. pc \in {"complete", "record"}
  OBVIOUS
<1> HIDE DEF pc, cool
<1>5. /\ r \in Worker /\ r.pc \in {"complete", "record"} /\ r.tgt = w[p].tgt /\ r.reply = w[p].reply
      /\ r.k = w[p].k /\ r.leg = w[p].leg /\ r.since = w[p].since /\ r.halt = w[p].halt
  BY ZenonT(60), <1>3, <1>4, Shape DEF Worker
<1> HIDE DEF r
<1>6. Sound(r) /\ r.tgt # None
  BY <1>1, <1>5, Shape, Nones DEF Sound, Shaped, Owner, Placed, Owning, Att, Req
<1>7. w[p].halt => r.halt
  BY <1>5
<1>8. halted' \in BOOLEAN /\ (halted => halted') /\ (halted' \/ w[p].reply # "fatal")
  BY <1>1, StillTables
<1> QED BY <1>1, <1>2, <1>3, <1>5, <1>6, <1>7, <1>8, StillTables, LocalStep DEF history, Owning

LEMMA JudgeInv == ASSUME IInv, NEW p \in Workers, Judge(p) PROVE IInv'
<1>1. w[p].pc = "judge" /\ UNCHANGED <<clock, tables, spent, trouble, history>>
  BY DEF Judge, At
<1>2. LedgerInv'
  BY <1>1 DEF IInv, LedgerInv, tables, history
<1> DEFINE t == w[p].tgt
<1>3. t \in Targets
  BY <1>1, Shape
<1>4. PICK terminal : Evaluate(p, t, terminal)
  BY DEF Judge
<1> DEFINE v == Verdict(t, terminal)
           r == [w[p] EXCEPT !.pc = "assess", !.tgt = t, !.verdict = v]
<1>5. CASE Becomes(p, NextTarget(p))
  <2>1. w[p].halt => NextTarget(p).halt
    BY NextTargetSound DEF IInv
  <2>2. TypeOK
    BY DEF IInv
  <2> QED BY <1>1, <1>2, <1>5, <2>1, <2>2, NextTargetSound, StillTables, LocalStep
        DEF tables, history, Owning
<1>6. CASE v # None /\ Becomes(p, r)
  <2>1. v \in Verdicts /\ (v = "observed" => HasPair(t))
    BY <1>3, <1>6, VerdictFacts
  <2> HIDE DEF v
  <2>2. /\ r \in Worker /\ r.pc = "assess" /\ r.tgt = t /\ r.verdict = v
        /\ r.since = w[p].since /\ r.halt = w[p].halt
    BY ZenonT(60), <1>3, <2>1, Shape DEF Worker
  <2> HIDE DEF r
  <2>3. Sound(r) /\ r.tgt # None
    BY <1>3, <2>1, <2>2, Nones, AssessSound
  <2>4. w[p].halt => r.halt
    BY <2>2
  <2> QED BY <1>1, <1>2, <1>6, <2>2, <2>3, <2>4, StillTables, LocalStep DEF tables, history, Owning
<1> QED BY <1>4, <1>5, <1>6 DEF Evaluate

-----------------------------------------------------------------------------
(* The steps that change the tables *)

LEMMA TickInv == ASSUME IInv, Tick PROVE IInv'
<1>1. /\ clock' = clock + 1 /\ clock < MaxTime /\ clock \in Nat
      /\ UNCHANGED <<target, claims, slots, quota, packets, done, assessed, halted, cooling, w,
                     spent, trouble, granted, wires, refused, doubt, missed>>
  BY LimitsAssumption DEF Tick, tables, history, IInv, TypeOK
<1>2. TypeOK'
  BY SMTT(30), <1>1, LimitsAssumption DEF IInv, TypeOK
<1>3. LedgerInv' /\ OneRequest' /\ OneOwner' /\ RefusalInv'
  BY <1>1 DEF IInv, LedgerInv, OneRequest, OneOwner, Att, RefusalInv, Stuck
<1>4. \A t : HasPair(t)' <=> HasPair(t)
  BY <1>1 DEF HasPair, Paired, Good
<1>5. ObservedHasPair'
  BY <1>1 DEF IInv, ObservedHasPair, Paired, Good
<1>6. TableInv'
  BY <1>1 DEF IInv, TypeOK, TableInv
<1>7. ASSUME NEW p \in Workers PROVE Sound(w[p])'
  <2>1. w[p].at <= clock => w[p].at <= clock + 1
    BY <1>1, Shape
  <2>2. Shaped(w[p])'
    BY <1>1, <1>4, <2>1, Shape DEF Sound, Shaped
  <2>3. Owner(w[p])' /\ Placed(w[p])'
    BY <1>1, Shape DEF Sound, Owner, Placed, Att, Req
  <2> QED BY <2>2, <2>3 DEF Sound
<1> QED BY <1>2, <1>3, <1>5, <1>6, <1>7 DEF IInv

(* What others do to the ledger and the key. *)
LEMMA OtherStep ==
  ASSUME IInv,
         UNCHANGED <<clock, target, claims, slots, packets, done, assessed, halted, cooling, w,
                     wires, refused, doubt, missed>>,
         quota' \in Nat \union {None}, granted' \in Nat, LedgerInv', spent' \in Nat,
         trouble' \in 0..MaxTrouble
  PROVE  IInv'
<1>1. TypeOK'
  BY DEF IInv, TypeOK
<1>2. TableInv' /\ OneRequest' /\ OneOwner' /\ RefusalInv'
  BY DEF IInv, TableInv, OneRequest, OneOwner, Att, RefusalInv, Stuck
<1>3. ObservedHasPair'
  BY DEF IInv, ObservedHasPair, Paired, Good
<1>4. \A t : HasPair(t)' <=> HasPair(t)
  BY DEF HasPair, Paired, Good
<1>5. ASSUME NEW p \in Workers PROVE Sound(w[p])'
  <2>1. Shaped(w[p])'
    BY <1>4, Shape DEF Sound, Shaped
  <2>2. Owner(w[p])' /\ Placed(w[p])'
    BY Shape DEF Sound, Owner, Placed, Att, Req
  <2> QED BY <2>1, <2>2 DEF Sound
<1> QED BY <1>1, <1>2, <1>3, <1>5 DEF IInv

LEMMA OtherReservesInv == ASSUME IInv, OtherReserves PROVE IInv'
<1>1. PICK o \in {None, spent} :
        /\ quota' = Reserve(quota, o, 1, SharedCap).after
        /\ granted' = granted + (IF Reserve(quota, o, 1, SharedCap).granted THEN 1 ELSE 0)
        /\ spent' = spent + (IF Reserve(quota, o, 1, SharedCap).granted THEN 1 ELSE 0)
  BY DEF OtherReserves
<1> DEFINE got == Reserve(quota, o, 1, SharedCap)
<1>2. o \in Nat \union {None}
  BY StillTables
<1>3. /\ got.after \in Nat
      /\ got.granted => got.after >= granted + 1 /\ granted + 1 <= SharedCap
      /\ ~got.granted => got.after >= granted
  BY <1>2, StillTables, ReserveFacts
<1> HIDE DEF got
<1>4. quota' = got.after /\ granted' = granted + (IF got.granted THEN 1 ELSE 0)
      /\ spent' = spent + (IF got.granted THEN 1 ELSE 0)
  BY <1>1 DEF got
<1>5. quota' \in Nat /\ granted' \in Nat /\ spent' \in Nat /\ LedgerInv'
  BY <1>3, <1>4, StillTables, Nones DEF LedgerInv
<1> QED BY <1>5, MoreTrouble, OtherStep DEF OtherReserves

LEMMA OtherSendsInv == ASSUME IInv, OtherSends PROVE IInv'
<1>1. /\ spent' = spent + 1 /\ trouble' \in 0..MaxTrouble
      /\ UNCHANGED <<clock, tables, w, history>>
  BY MoreTrouble DEF OtherSends
<1>2. LedgerInv' /\ spent' \in Nat
  BY <1>1, StillTables DEF LedgerInv, tables, history
<1> QED BY <1>1, <1>2, StillTables, OtherStep DEF tables, history

LEMMA StartInv == ASSUME IInv, NEW p \in Workers, Start(p) PROVE IInv'
<1> DEFINE doubtful == ~Unreadable /\ \E a \in Opened : clock >= Deadline[a[1]]
           r == Free("scan", clock, doubtful, 0, None, {})
<1>1. /\ w[p].pc = "down" /\ Becomes(p, r) /\ HaltDay(doubtful)
      /\ UNCHANGED <<clock, target, claims, slots, quota, packets, done, assessed, cooling,
                     spent, granted, wires, refused, missed>>
      /\ doubt' = IF refused THEN doubt \union {p} ELSE doubt \ {p}
  BY DEF Start, At
<1> HIDE DEF doubtful
<1>2. doubtful \in BOOLEAN
  BY DEF doubtful
<1>3. (halted => halted') /\ halted' \in BOOLEAN /\ trouble' \in 0..MaxTrouble
  BY <1>1, <1>2, HaltDayFacts
<1>4. r \in Worker
  BY <1>2, Shape DEF Free, Worker, Legs, Replies, Verdicts, MaxAttempts
<1>5. r.pc = "scan" /\ r.since = clock
  BY DEF Free
<1> HIDE DEF r
<1>6. w'[p] = r /\ \A q \in Workers : q # p => w'[q] = w[q]
  BY <1>1 DEF Becomes, IInv, TypeOK
<1>7. TypeOK'
  <2>1. w' \in [Workers -> Worker]
    BY <1>1, <1>4 DEF Becomes, IInv, TypeOK
  <2> QED BY <1>1, <1>3, <1>5, <1>6, <2>1 DEF IInv, TypeOK
<1>8. LedgerInv' /\ TableInv' /\ OneRequest' /\ OneOwner'
  BY <1>1, <1>5, <1>6 DEF IInv, LedgerInv, TableInv, OneRequest, OneOwner, Att, Owning
<1>9. ObservedHasPair'
  BY <1>1 DEF IInv, ObservedHasPair, Paired, Good
<1>10. \A t : HasPair(t)' <=> HasPair(t)
  BY <1>1 DEF HasPair, Paired, Good
<1>11. ASSUME NEW q \in Workers PROVE Sound(w[q])'
  <2>1. Sound(w'[q])
    BY <1>5, <1>6, FreeSound DEF IInv
  <2>2. Shaped(w[q])'
    BY <1>1, <1>10, <2>1 DEF Sound, Shaped
  <2>3. Owner(w[q])' /\ Placed(w[q])'
    BY <1>1, <2>1 DEF Sound, Owner, Placed, Att, Req
  <2> QED BY <2>2, <2>3 DEF Sound
<1>12. RefusalInv'
  <2>1. ASSUME NEW a \in Attempts, Stuck(a), refused PROVE Stuck(a)'
    <3>1. claims[a] <= clock
      BY <2>1 DEF Stuck, IInv, TableInv
    <3>2. \A q \in doubt' : w'[q].pc = "down" \/ w'[q].halt \/ claims[a] <= w'[q].since
      BY <1>1, <1>5, <1>6, <2>1, <3>1 DEF Stuck, IInv, TypeOK
    <3>3. \A q \in Workers : w'[q].pc \in Owning /\ Att(w'[q]) = a
                               => w'[q].pc = "save" /\ w'[q].reply = "fatal"
      BY <1>5, <1>6, <2>1 DEF Stuck, Owning, Att
    <3> QED BY <1>1, <2>1, <3>2, <3>3 DEF Stuck, Att
  <2>2. \A q \in doubt' : w'[q].pc \notin {"insert", "send"}
    BY <1>1, <1>5, <1>6 DEF IInv, RefusalInv, TypeOK
  <2> QED BY <1>1, <1>3, <2>1, <2>2 DEF IInv, RefusalInv
<1> QED BY <1>7, <1>8, <1>9, <1>11, <1>12 DEF IInv

(* A step of one worker with its own attempt, which may write to the tables. *)

LEMMA ClaimInv == ASSUME IInv, NEW p \in Workers, Claim(p) PROVE IInv'
<1> DEFINE a == Attempt(p)
           r == [w[p] EXCEPT !.pc = "fetch", !.at = 0]
<1>1. /\ w[p].pc = "claim"
      /\ UNCHANGED <<clock, target, slots, quota, packets, done, assessed, halted, cooling,
                     spent, trouble, history>>
  BY DEF Claim, At
<1>2. LedgerInv'
  BY <1>1 DEF IInv, LedgerInv, history
<1>3. a \in Attempts /\ a = Att(w[p])
  BY <1>1, Shape
<1>4. CASE Becomes(p, NextTarget(p)) /\ UNCHANGED claims
  <2>1. TypeOK /\ (w[p].halt => NextTarget(p).halt)
    BY NextTargetSound DEF IInv
  <2> QED BY <1>1, <1>2, <1>4, <2>1, NextTargetSound, StillTables, LocalStep DEF history, Owning
<1>5. CASE claims[a] = None /\ claims' = [claims EXCEPT ![a] = w[p].at] /\ Becomes(p, r)
  <2>1. /\ r \in Worker /\ r.pc = "fetch" /\ r.tgt = w[p].tgt /\ r.k = w[p].k /\ r.leg = "own"
        /\ r.since = w[p].since /\ r.halt = w[p].halt
    BY ZenonT(60), <1>1, Shape DEF Sound, Shaped, Worker
  <2>2. w'[p] = r /\ \A q \in Workers : q # p => w'[q] = w[q]
    BY <1>5 DEF Becomes, IInv, TypeOK
  <2> HIDE DEF r, a
  <2>3. /\ claims \in [Attempts -> Nat \union {None}] /\ w[p].at \in Nat /\ w[p].at <= clock
        /\ claims'[a] = w[p].at /\ claims'[a] # None
        /\ \A b \in Attempts : b # a => claims'[b] = claims[b]
    BY <1>1, <1>3, <1>5, Shape, Nones DEF IInv, TypeOK, Sound, Shaped
  <2>4. \A b \in Attempts : claims[b] # None => claims'[b] = claims[b]
    BY <1>5, <2>3
  <2>5. TypeOK'
    <3>1. w' \in [Workers -> Worker] /\ claims' \in [Attempts -> Nat \union {None}]
      BY <1>5, <2>1, <2>3 DEF Becomes, IInv, TypeOK
    <3> QED BY <1>1, <2>1, <2>2, <3>1 DEF IInv, TypeOK, history
  <2>6. /\ done[a] = None
        /\ \A s \in Slot : slots[s] # <<a, "own">> /\ slots[s] # <<a, "spy">>
        /\ \A q \in Workers : w[q].pc \in Owning => Att(w[q]) # a
    <3>1. done[a] = None
      BY <1>3, <1>5 DEF IInv, TableInv
    <3>2. ASSUME NEW s \in Slot, NEW l \in Legs, slots[s] = <<a, l>> PROVE FALSE
      <4>1. slots[s] # None
        BY <1>3, <3>2, Nones
      <4>2. claims[slots[s][1]] # None
        BY <4>1 DEF IInv, TableInv
      <4> QED BY <1>5, <3>2, <4>2
    <3>3. \A q \in Workers : w[q].pc \in Owning => Att(w[q]) # a
      BY <1>5, Shape DEF Sound, Owner
    <3> QED BY <3>1, <3>2, <3>3 DEF Legs
  <2>7. TableInv'
    <3>1. \A s \in Slot : slots[s] # None => slots[s][1] \in Attempts
      BY DEF IInv, TypeOK
    <3>2. \A s \in Slot : slots'[s] # None => claims'[slots'[s][1]] # None
      BY <1>1, <2>4, <3>1 DEF IInv, TableInv
    <3>3. \A b \in Attempts : claims'[b] # None => claims'[b] <= clock'
      BY <1>1, <2>3 DEF IInv, TableInv
    <3>4. \A b \in Attempts : done'[b] # None => claims'[b] # None
      BY <1>1, <2>4 DEF IInv, TableInv
    <3> QED BY <1>1, <3>2, <3>3, <3>4 DEF IInv, TableInv, history
  <2>8. OneRequest' /\ ObservedHasPair' /\ (\A t : HasPair(t)' <=> HasPair(t))
    BY ZenonT(60), <1>1 DEF IInv, OneRequest, ObservedHasPair, HasPair, Paired, Good, history
  <2>9. OneOwner'
    BY <1>3, <2>1, <2>2, <2>6 DEF IInv, OneOwner, Att
  <2>10. RefusalInv'
    <3>1. ASSUME NEW b \in Attempts, Stuck(b) PROVE Stuck(b)'
      <4>1. b # a
        BY <1>5, <3>1 DEF Stuck
      <4>2. \A q \in Workers : w'[q].pc \in Owning /\ Att(w'[q]) = b
                                 => w'[q].pc = "save" /\ w'[q].reply = "fatal"
        BY <1>3, <2>1, <2>2, <3>1, <4>1 DEF Stuck, Att
      <4>3. \A q \in doubt : w'[q].pc = "down" \/ w'[q].halt \/ claims[b] <= w'[q].since
        BY <1>1, <2>1, <2>2, <3>1 DEF Stuck, IInv, TypeOK
      <4> QED BY <1>1, <2>4, <3>1, <4>2, <4>3 DEF Stuck, Att, history
    <3>2. \A q \in doubt : w'[q].pc \notin {"insert", "send"}
      BY <2>1, <2>2 DEF IInv, RefusalInv, TypeOK
    <3> QED BY <1>1, <3>1, <3>2 DEF IInv, RefusalInv, history
  <2>11. ASSUME NEW q \in Workers, q # p PROVE Sound(w[q])'
    <3>1. Shaped(w[q])'
      BY <1>1, <2>2, <2>8, <2>11, Shape DEF Sound, Shaped
    <3>2. Owner(w[q])'
      BY <1>1, <2>2, <2>4, <2>11, Shape DEF Sound, Owner, Att, Owning
    <3>3. Placed(w[q])'
      BY SMTT(30), <1>1, <2>2, <2>11, Shape DEF Sound, Placed, Att, Req, history
    <3> QED BY <3>1, <3>2, <3>3 DEF Sound
  <2>12. Sound(w[p])'
    <3>1. /\ w'[p].pc = "fetch" /\ w'[p].leg = "own" /\ Att(w'[p]) = a
          /\ Req(w'[p]) = <<a, "own">>
      BY <1>3, <2>1, <2>2 DEF Att, Req
    <3>2. Shaped(w[p])'
      BY <3>1 DEF Shaped
    <3>3. Owner(w[p])'
      BY <1>1, <2>3, <2>6, <3>1 DEF Owner, Att
    <3>4. Placed(w[p])'
      BY <1>1, <2>6, <3>1 DEF Placed, Att, Req
    <3> QED BY <3>2, <3>3, <3>4 DEF Sound
  <2> QED BY <1>2, <2>5, <2>7, <2>8, <2>9, <2>10, <2>11, <2>12 DEF IInv
<1> QED BY <1>4, <1>5 DEF Claim

(* A step of an owner with its own attempt leaves what the others rely on. *)
LEMMA OwnStep ==
  ASSUME IInv, NEW p \in Workers, w[p].pc \in Owning, w[p].pc # "save", NEW r \in Worker,
         Becomes(p, r), r.pc # "down", r.pc # "scan", r.tgt = w[p].tgt, r.k = w[p].k,
         r.since = w[p].since, w[p].halt => r.halt,
         UNCHANGED <<clock, claims, target, assessed, halted, cooling, trouble>>,
         \A b \in Attempts : b # Att(w[p]) => done'[b] = done[b],
         \A x \in Attempts \X Legs :
           x[1] # Att(w[p]) => packets'[x] = packets[x] /\ wires'[x] = wires[x],
         \A s \in Slot : slots'[s] # slots[s] =>
           slots[s] = None /\ slots'[s] \in {Att(w[p])} \X Legs,
         doubt' \in SUBSET Workers, \A q \in doubt' \ doubt : w'[q].halt
  PROVE  /\ w'[p] = r /\ w' \in [Workers -> Worker] /\ \A q \in Workers : q # p => w'[q] = w[q]
         /\ \A q \in Workers : w'[q].pc \notin {"down", "scan"} => w'[q].tgt # None
         /\ OneOwner' /\ ObservedHasPair'
         /\ \A b \in Attempts : Stuck(b) => Stuck(b)'
         /\ \A q \in Workers : q # p => Sound(w[q])'
<1> DEFINE a == Att(w[p])
<1>1. w'[p] = r /\ w' \in [Workers -> Worker] /\ \A q \in Workers : q # p => w'[q] = w[q]
  BY DEF Becomes, IInv, TypeOK
<1>2. a \in Attempts /\ w[p].tgt # None /\ done[a] = None /\ claims[a] # None
  BY Shape, Nones DEF Owning, Sound, Owner
<1>3. \A q \in Workers : w'[q].pc \notin {"down", "scan"} => w'[q].tgt # None
  BY <1>1, <1>2 DEF IInv, TypeOK
<1>4. Att(r) = a
  BY DEF Att
<1>5. OneOwner'
  BY <1>1, <1>4 DEF IInv, OneOwner, Att
<1>6. ASSUME NEW t \in Targets, HasPair(t) PROVE HasPair(t)'
  <2>1. PICK k \in 1..MaxAttempts : /\ Paired(<<t, k>>)
                                    /\ wires[<<<<t, k>>, "own">>] = 1
                                    /\ wires[<<<<t, k>>, "spy">>] = 1
    BY <1>6 DEF HasPair
  <2>2. <<t, k>> \in Attempts /\ <<t, k>> # a
    BY <1>2, <2>1 DEF Paired, Attempts
  <2> DEFINE o == <<<<t, k>>, "own">>
             s == <<<<t, k>>, "spy">>
  <2>3. o \in Attempts \X Legs /\ s \in Attempts \X Legs /\ o[1] # a /\ s[1] # a
    BY <2>2 DEF Legs
  <2>4. /\ packets'[o] = packets[o] /\ packets'[s] = packets[s] /\ done'[<<t, k>>] = done[<<t, k>>]
        /\ wires'[o] = wires[o] /\ wires'[s] = wires[s]
    BY <2>2, <2>3
  <2>5. Paired(<<t, k>>)'
    BY <2>1, <2>4 DEF Paired, Good
  <2> QED BY <1>6, <2>1, <2>4, <2>5 DEF HasPair
<1>7. ObservedHasPair'
  BY <1>6 DEF IInv, ObservedHasPair, HasPair
<1>8. ASSUME NEW b \in Attempts, Stuck(b) PROVE Stuck(b)'
  <2>1. b # a
    BY <1>8 DEF Stuck
  <2>2. \A q \in Workers : w'[q].pc \in Owning /\ Att(w'[q]) = b
                             => w'[q].pc = "save" /\ w'[q].reply = "fatal"
    BY <1>1, <1>4, <1>8, <2>1 DEF Stuck, Att
  <2>3. ASSUME NEW q \in doubt' PROVE w'[q].pc = "down" \/ w'[q].halt \/ claims[b] <= w'[q].since
    <3>1. CASE q \notin doubt
      BY <2>3, <3>1
    <3>2. CASE q \in doubt /\ q # p
      BY <1>1, <1>8, <2>3, <3>2 DEF Stuck
    <3>3. CASE q \in doubt /\ q = p
      BY <1>1, <1>8, <3>3 DEF Stuck, Owning
    <3> QED BY <3>1, <3>2, <3>3
  <2> QED BY <1>8, <2>1, <2>2, <2>3 DEF Stuck, Att
<1>9. ASSUME NEW q \in Workers, q # p PROVE Sound(w[q])'
  <2>1. w'[q] = w[q] /\ Sound(w[q])
    BY <1>1, <1>9 DEF IInv
  <2>2. Shaped(w[q])'
    <3>1. w[q].pc = "assess" => w[q].tgt \in Targets
      BY Shape
    <3> QED BY <1>6, <2>1, <3>1 DEF Sound, Shaped
  <2>3. w[q].pc \in Owning => /\ Att(w[q]) \in Attempts /\ Att(w[q]) # a /\ Req(w[q]) \in Attempts \X Legs
                              /\ Req(w[q])[1] = Att(w[q])
    BY <1>9, Shape DEF IInv, OneOwner, Owning, Req
  <2>4. Owner(w[q])'
    BY <2>1, <2>3, Nones DEF Sound, Owner, Att, Legs
  <2>5. Placed(w[q])'
    <3>1. {"fetch", "insert", "send", "wait", "record"} \subseteq Owning
      BY DEF Owning
    <3>2. ASSUME w[q].pc \in Owning, NEW s \in Slot PROVE slots'[s] = Req(w[q]) <=> slots[s] = Req(w[q])
      BY <2>3, <3>2, Nones
    <3>3. w[q].pc \in Owning => wires'[Req(w[q])] = wires[Req(w[q])]
      BY <2>3
    <3> QED BY <2>1, <3>1, <3>2, <3>3 DEF Sound, Placed, Att, Req
  <2> QED BY <2>2, <2>4, <2>5 DEF Sound
<1> QED BY <1>1, <1>3, <1>5, <1>7, <1>8, <1>9

LEMMA InsertInv == ASSUME IInv, NEW p \in Workers, Insert(p) PROVE IInv'
<1> DEFINE a == Att(w[p])
           x == Req(w[p])
           r == [w[p] EXCEPT !.pc = "send", !.index = 1]
           got == Reserve(quota, w[p].seen, 1, SharedCap)
<1>1. /\ w[p].pc = "insert" /\ Becomes(p, r) /\ granted' = granted + 1
      /\ UNCHANGED <<clock, target, claims, packets, done, assessed, halted, cooling,
                     spent, trouble, wires, refused, doubt, missed>>
  BY DEF Insert, At
<1>2. PICK s \in Reachable(p) : got.granted /\ slots' = [slots EXCEPT ![s] = x] /\ quota' = got.after
  BY Shape DEF Insert
<1>3. s \in Slot /\ slots[s] = None
  BY <1>2 DEF Reachable
<1>4. LedgerInv' /\ quota' \in Nat \union {None} /\ granted' \in Nat
  <2>1. w[p].seen \in Nat \union {None}
    BY Shape DEF Worker
  <2>2. got.after \in Nat /\ got.after >= granted + 1 /\ granted + 1 <= SharedCap
    BY <1>2, <2>1, StillTables, ReserveFacts
  <2>3. quota' = got.after
    BY <1>2
  <2> HIDE DEF got
  <2> QED BY <1>1, <2>2, <2>3, StillTables, Nones DEF LedgerInv
<1>5. /\ r \in Worker /\ r.pc = "send" /\ r.tgt = w[p].tgt /\ r.k = w[p].k /\ r.leg = w[p].leg
      /\ r.since = w[p].since /\ r.halt = w[p].halt
  <2>1. 1 \in Nat \ {0}
    OBVIOUS
  <2> QED BY ZenonT(60), <2>1, Shape DEF Worker
<1> HIDE DEF r, got
<1>6. a \in Attempts /\ x \in Attempts \X Legs /\ x[1] = a /\ x \in {a} \X Legs /\ x # None
  BY <1>1, Shape, Nones DEF Req
<1>7. /\ slots \in [Slot -> (Attempts \X Legs) \union {None}]
      /\ slots'[s] = x /\ \A t \in Slot : t # s => slots'[t] = slots[t]
      /\ \A t \in Slot : slots[t] # x
  BY <1>1, <1>2, <1>3, <1>6, Shape DEF IInv, TypeOK, Sound, Placed
<1>8. slots' \in [Slot -> (Attempts \X Legs) \union {None}]
  BY <1>2, <1>6, <1>7
<1>9. /\ w'[p] = r /\ w' \in [Workers -> Worker] /\ \A q \in Workers : q # p => w'[q] = w[q]
      /\ \A q \in Workers : w'[q].pc \notin {"down", "scan"} => w'[q].tgt # None
      /\ OneOwner' /\ ObservedHasPair'
      /\ \A b \in Attempts : Stuck(b) => Stuck(b)'
      /\ \A q \in Workers : q # p => Sound(w[q])'
  <2>1. \A t \in Slot : slots'[t] # slots[t] => slots[t] = None /\ slots'[t] \in {a} \X Legs
    BY <1>3, <1>6, <1>7
  <2>2. w[p].pc \in Owning /\ (w[p].halt => r.halt) /\ doubt' \in SUBSET Workers
    BY <1>1, <1>5 DEF Owning, IInv, TypeOK
  <2> HIDE DEF a, x
  <2> QED BY <1>1, <1>5, <2>1, <2>2, OwnStep DEF a
<1>10. TypeOK'
  BY <1>1, <1>4, <1>8, <1>9 DEF IInv, TypeOK
<1>11. TableInv'
  <2>1. claims[a] # None
    BY <1>1, Shape DEF Sound, Owner, Owning
  <2>2. \A t \in Slot : slots'[t] # None => claims[slots'[t][1]] # None
    BY <1>6, <1>7, <2>1 DEF IInv, TableInv
  <2> QED BY <1>1, <2>2 DEF IInv, TableInv
<1>12. OneRequest'
  <2>1. \A u, t \in Slot : slots'[u] # None /\ slots'[t] = slots'[u] => u = t
    BY <1>7 DEF IInv, OneRequest
  <2>2. \A y \in Attempts \X Legs : wires[y] = 1 => \E t \in Slot : slots'[t] = y
    BY <1>3, <1>7, Nones DEF IInv, OneRequest
  <2> QED BY <1>1, <2>1, <2>2 DEF IInv, OneRequest
<1>13. RefusalInv'
  <2>1. p \notin doubt
    BY <1>1 DEF IInv, RefusalInv
  <2>2. \A q \in doubt : w'[q].pc \notin {"insert", "send"}
    BY <1>9, <2>1 DEF IInv, RefusalInv, TypeOK
  <2> QED BY <1>1, <1>9, <2>2 DEF IInv, RefusalInv
<1>14. Sound(w[p])'
  <2>1. /\ w'[p].pc = "send" /\ Att(w'[p]) = a /\ Req(w'[p]) = x /\ w'[p].leg = w[p].leg
    BY <1>5, <1>9 DEF Att, Req
  <2>2. Shaped(w[p])'
    BY <2>1 DEF Shaped
  <2>3. Owner(w[p])'
    <3>1. /\ claims[a] # None /\ done[a] = None
          /\ w[p].leg = "own" => \A t \in Slot : slots[t] # <<a, "spy">>
      BY <1>1, Shape DEF Sound, Owner, Owning
    <3>2. w[p].leg = "own" => x # <<a, "spy">>
      BY DEF Req
    <3>3. w[p].leg = "own" => \A t \in Slot : slots'[t] # <<a, "spy">>
      BY <1>7, <3>1, <3>2
    <3> QED BY <1>1, <2>1, <3>1, <3>3 DEF Owner, Att
  <2>4. Placed(w[p])'
    <3>1. wires[x] = 0
      <4>1. \A y \in Attempts \X Legs : wires[y] \in Nat /\ wires[y] <= 1
        BY DEF IInv, OneRequest, TypeOK
      <4>2. wires[x] # 1
        BY <1>6, <1>7 DEF IInv, OneRequest
      <4> HIDE DEF x
      <4> QED BY <1>6, <4>1, <4>2
    <3> QED BY <1>1, <1>3, <1>7, <2>1, <3>1 DEF Placed, Req, Att
  <2> QED BY <2>2, <2>3, <2>4 DEF Sound
<1>15. \A q \in Workers : Sound(w[q])'
  BY <1>9, <1>14
<1> QED BY <1>4, <1>9, <1>10, <1>11, <1>12, <1>13, <1>15 DEF IInv

LEMMA SendInv == ASSUME IInv, NEW p \in Workers, Send(p) PROVE IInv'
<1> DEFINE a == Att(w[p])
           x == Req(w[p])
<1>1. /\ w[p].pc = "send" /\ UNCHANGED <<clock, tables, trouble, granted, refused, doubt, missed>>
  BY DEF Send, At
<1>2. LedgerInv'
  BY <1>1 DEF IInv, LedgerInv, tables
<1>3. CASE Goes(p, "complete") /\ UNCHANGED <<wires, spent>>
  <2> DEFINE r == [w[p] EXCEPT !.pc = "complete"]
  <2>1. /\ r \in Worker /\ r.pc = "complete" /\ r.tgt = w[p].tgt /\ r.k = w[p].k
        /\ r.leg = w[p].leg /\ r.since = w[p].since /\ r.halt = w[p].halt
    BY Shape DEF Worker
  <2>2. Becomes(p, r) /\ w[p].pc \in Owning
    BY <1>1, <1>3 DEF Goes, Owning
  <2> HIDE DEF r
  <2>3. Sound(r) /\ r.tgt # None
    <3>1. Owner(r) /\ r.tgt # None
      BY <2>1, <2>2, SameRequest
    <3>2. Shaped(r) /\ Placed(r)
      BY <2>1 DEF Shaped, Placed
    <3> QED BY <3>1, <3>2 DEF Sound
  <2>4. w[p].halt => r.halt
    BY <2>1
  <2> QED BY <1>1, <1>2, <1>3, <2>1, <2>2, <2>3, <2>4, StillTables, LocalStep DEF tables, Owning
<1>4. CASE Goes(p, "wait") /\ wires' = [wires EXCEPT ![x] = @ + 1] /\ spent' = spent + 1
  <2> DEFINE r == [w[p] EXCEPT !.pc = "wait"]
  <2>1. /\ r \in Worker /\ r.pc = "wait" /\ r.tgt = w[p].tgt /\ r.k = w[p].k
        /\ r.leg = w[p].leg /\ r.since = w[p].since /\ r.halt = w[p].halt
    BY Shape DEF Worker
  <2>2. Becomes(p, r) /\ w[p].pc \in Owning
    BY <1>1, <1>4 DEF Goes, Owning
  <2> HIDE DEF r
  <2>3. a \in Attempts /\ x \in Attempts \X Legs /\ x[1] = a
    BY <1>1, Shape DEF Req
  <2>4. wires[x] = 0 /\ \E s \in Slot : slots[s] = x
    BY <1>1, Shape DEF Sound, Placed
  <2>5. /\ wires'[x] = 1 /\ \A y \in Attempts \X Legs : y # x => wires'[y] = wires[y]
        /\ wires' \in [Attempts \X Legs -> Nat]
    BY <1>4, <2>3, <2>4 DEF IInv, TypeOK
  <2>6. /\ w'[p] = r /\ w' \in [Workers -> Worker] /\ \A q \in Workers : q # p => w'[q] = w[q]
        /\ \A q \in Workers : w'[q].pc \notin {"down", "scan"} => w'[q].tgt # None
        /\ OneOwner' /\ ObservedHasPair'
        /\ \A b \in Attempts : Stuck(b) => Stuck(b)'
        /\ \A q \in Workers : q # p => Sound(w[q])'
    <3>1. \A y \in Attempts \X Legs : y[1] # a => wires'[y] = wires[y]
      BY <2>3, <2>5
    <3>2. (w[p].halt => r.halt) /\ doubt' \in SUBSET Workers /\ w[p].pc # "save"
      BY <1>1, <2>1 DEF IInv, TypeOK
    <3> HIDE DEF a, x
    <3> QED BY <1>1, <2>1, <2>2, <3>1, <3>2, OwnStep DEF a, tables
  <2>7. TypeOK'
    BY <1>1, <1>4, <2>5, <2>6, StillTables DEF IInv, TypeOK, tables
  <2>8. OneRequest' /\ TableInv'
    BY <1>1, <2>4, <2>5 DEF IInv, OneRequest, TableInv, tables
  <2>9. RefusalInv'
    BY <1>1, <2>1, <2>6 DEF IInv, RefusalInv, TypeOK, tables
  <2>10. Sound(w[p])'
    <3>1. /\ w'[p].pc = "wait" /\ Att(w'[p]) = a /\ Req(w'[p]) = x /\ w'[p].leg = w[p].leg
      BY <2>1, <2>6 DEF Att, Req
    <3>2. Shaped(w[p])' /\ Placed(w[p])'
      BY <1>1, <2>4, <2>5, <3>1 DEF Shaped, Placed, Req, Att, tables
    <3>3. Owner(w[p])'
      BY <1>1, <3>1, Shape DEF Sound, Owner, Owning, Att, tables
    <3> QED BY <3>2, <3>3 DEF Sound
  <2>11. \A q \in Workers : Sound(w[q])'
    BY <2>6, <2>10
  <2> QED BY <1>2, <2>6, <2>7, <2>8, <2>9, <2>11 DEF IInv
<1> QED BY <1>3, <1>4, Shape DEF Send

LEMMA ReplyInv == ASSUME IInv, NEW p \in Workers, Reply(p) PROVE IInv'
<1>1. /\ w[p].pc = "wait" /\ UNCHANGED <<clock, tables, spent, trouble, granted, wires, missed>>
  BY DEF Reply, At
<1>2. PICK reply \in Replies, counted \in BOOLEAN :
        LET r == [w[p] EXCEPT !.reply = reply, !.at = clock, !.seen = IF counted THEN spent ELSE @] IN
        /\ Becomes(p, CASE reply = "fatal" -> [r EXCEPT !.pc = "save", !.halt = TRUE]
                         [] reply = "limited" -> [r EXCEPT !.pc = "save", !.cool = clock + Cooldown]
                         [] OTHER -> [r EXCEPT !.pc = "record"])
        /\ refused' = (refused \/ reply = "fatal")
        /\ doubt' = IF reply = "fatal" THEN doubt \union {p} ELSE doubt
  BY DEF Reply
<1> DEFINE a == Att(w[p])
           x == Req(w[p])
           e == [w[p] EXCEPT !.reply = reply, !.at = clock, !.seen = IF counted THEN spent ELSE @]
           r == CASE reply = "fatal" -> [e EXCEPT !.pc = "save", !.halt = TRUE]
                  [] reply = "limited" -> [e EXCEPT !.pc = "save", !.cool = clock + Cooldown]
                  [] OTHER -> [e EXCEPT !.pc = "record"]
<1>3. Becomes(p, r)
  BY <1>2
<1>4. /\ e \in Worker /\ e.reply = reply /\ e.tgt = w[p].tgt /\ e.k = w[p].k /\ e.leg = w[p].leg
      /\ e.since = w[p].since /\ e.halt = w[p].halt
  <2>1. (IF counted THEN spent ELSE w[p].seen) \in Nat \union {None}
    BY StillTables, Shape DEF Worker
  <2> QED BY ZenonT(60), <2>1, Shape DEF Worker
<1> HIDE DEF e
<1>5. /\ r \in Worker /\ r.tgt = w[p].tgt /\ r.k = w[p].k /\ r.leg = w[p].leg
      /\ r.since = w[p].since /\ r.reply = reply /\ r.pc \in {"save", "record"}
      /\ r.pc = "save" => reply \notin {"ok", "bad"}
      /\ reply = "fatal" => r.pc = "save"
  <2>1. clock + Cooldown \in Nat
    BY Shape, LimitsAssumption
  <2>2. CASE reply = "fatal"
    BY <1>4, <2>2 DEF Worker
  <2>3. CASE reply = "limited"
    BY <1>4, <2>1, <2>3 DEF Worker
  <2>4. CASE reply \notin {"fatal", "limited"}
    <3>1. r = [e EXCEPT !.pc = "record"]
      BY <2>4
    <3> HIDE DEF r
    <3> QED BY <1>4, <2>4, <3>1 DEF Worker
  <2> QED BY <2>2, <2>3, <2>4
<1>6. (w[p].halt => r.halt) /\ (reply = "fatal" => r.halt)
  <2>2. CASE reply = "fatal"
    BY <1>4, <2>2 DEF Worker
  <2>3. CASE reply = "limited"
    BY <1>4, <2>3 DEF Worker
  <2>4. CASE reply \notin {"fatal", "limited"}
    <3>1. r = [e EXCEPT !.pc = "record"]
      BY <2>4
    <3> HIDE DEF r
    <3> QED BY <1>4, <2>4, <3>1 DEF Worker
  <2> QED BY <2>2, <2>3, <2>4
<1> HIDE DEF r
<1>7. /\ w'[p] = r /\ w' \in [Workers -> Worker] /\ \A q \in Workers : q # p => w'[q] = w[q]
      /\ \A q \in Workers : w'[q].pc \notin {"down", "scan"} => w'[q].tgt # None
      /\ OneOwner' /\ ObservedHasPair'
      /\ \A b \in Attempts : Stuck(b) => Stuck(b)'
      /\ \A q \in Workers : q # p => Sound(w[q])'
  <2>1. w'[p] = r
    BY <1>3 DEF Becomes, IInv, TypeOK
  <2>2. doubt' \in SUBSET Workers /\ \A q \in doubt' \ doubt : w'[q].halt
    BY <1>2, <1>6, <2>1 DEF IInv, TypeOK
  <2>3. w[p].pc \in Owning /\ w[p].pc # "save" /\ r.pc # "down" /\ r.pc # "scan"
    BY <1>1, <1>5 DEF Owning
  <2> QED BY <1>1, <1>3, <1>5, <1>6, <2>2, <2>3, OwnStep DEF tables
<1>8. /\ refused' \in BOOLEAN /\ doubt' \subseteq Workers
  BY <1>2 DEF IInv, TypeOK
<1>9. TypeOK' /\ LedgerInv' /\ TableInv' /\ OneRequest'
  BY <1>1, <1>7, <1>8 DEF IInv, TypeOK, LedgerInv, TableInv, OneRequest, tables
<1>10. a \in Attempts /\ claims[a] # None /\ done[a] = None
  BY <1>1, Shape DEF Sound, Owner, Owning
<1>11. RefusalInv'
  <2>1. \A q \in doubt' : w'[q].pc \notin {"insert", "send"}
    BY <1>2, <1>5, <1>7 DEF IInv, RefusalInv, TypeOK
  <2>2. doubt' # {} => refused'
    BY <1>2 DEF IInv, RefusalInv
  <2>3. CASE refused \/ reply # "fatal"
    BY <1>1, <1>2, <1>7, <2>1, <2>2, <2>3 DEF IInv, RefusalInv, tables
  <2>4. CASE ~refused /\ reply = "fatal"
    <3>1. doubt' = {p}
      BY <1>2, <2>4 DEF IInv, RefusalInv
    <3>2. ASSUME NEW q \in Workers, w'[q].pc \in Owning, Att(w'[q]) = a
          PROVE  w'[q].pc = "save" /\ w'[q].reply = "fatal"
      <4>1. q = p
        BY <1>1, <1>7, <3>2 DEF IInv, OneOwner, Owning
      <4> QED BY <1>5, <1>7, <2>4, <4>1
    <3>3. Stuck(a)'
      <4> DEFINE b == a
      <4>1. w'[p].halt
        BY <1>6, <1>7, <2>4
      <4>2. a' = a
        BY <1>5, <1>7 DEF Att
      <4> HIDE DEF a
      <4> QED BY <1>1, <1>10, <3>1, <3>2, <4>1, <4>2 DEF Stuck, Att, tables
    <3>4. \E b \in Attempts : Stuck(b)'
      <4>1. a' = a
        BY <1>5, <1>7 DEF Att
      <4> HIDE DEF a
      <4> QED BY <1>10, <3>3, <4>1 DEF Stuck
    <3> QED BY <2>1, <2>2, <3>4 DEF RefusalInv
  <2> QED BY <2>3, <2>4 DEF Replies
<1>12. Sound(w[p])'
  <2>1. /\ w'[p].pc \in {"save", "record"} /\ Att(w'[p]) = a /\ Req(w'[p]) = x
        /\ w'[p].leg = w[p].leg /\ w'[p].reply = reply
        /\ w'[p].pc = "save" => reply \notin {"ok", "bad"}
    BY <1>5, <1>7 DEF Att, Req
  <2>2. wires[x] = 1
    BY <1>1, Shape DEF Sound, Placed
  <2>3. Shaped(w[p])' /\ Placed(w[p])'
    BY <1>1, <2>1, <2>2 DEF Shaped, Placed, Att, Req
  <2>4. Owner(w[p])'
    BY <1>1, <2>1, Shape DEF Sound, Owner, Owning, Att, tables
  <2> QED BY <2>3, <2>4 DEF Sound
<1>13. \A q \in Workers : Sound(w[q])'
  BY <1>7, <1>12
<1> QED BY <1>7, <1>9, <1>11, <1>13 DEF IInv

LEMMA RecordInv == ASSUME IInv, NEW p \in Workers, Record(p) PROVE IInv'
<1> DEFINE a == Att(w[p])
           x == Req(w[p])
           e == [ok |-> w[p].reply = "ok", received |-> w[p].at, confirmed |-> clock]
           c == [w[p] EXCEPT !.pc = "complete", !.at = 0, !.reply = "bad"]
           f == [w[p] EXCEPT !.pc = "fetch", !.leg = "spy", !.at = 0, !.reply = "bad"]
<1>1. /\ w[p].pc = "record" /\ packets' = [packets EXCEPT ![x] = e]
      /\ UNCHANGED <<clock, target, claims, slots, quota, done, assessed, halted, cooling,
                     spent, trouble, history>>
  BY Shape DEF Record, At
<1>2. /\ c \in Worker /\ c.pc = "complete" /\ c.tgt = w[p].tgt /\ c.k = w[p].k
       /\ c.since = w[p].since /\ c.halt = w[p].halt /\ c.leg = w[p].leg
  BY ZenonT(60), Shape DEF Worker, Replies
<1>13. /\ f \in Worker /\ f.pc = "fetch" /\ f.tgt = w[p].tgt /\ f.k = w[p].k
       /\ f.since = w[p].since /\ f.halt = w[p].halt /\ f.leg = "spy"
  BY ZenonT(60), Shape DEF Worker, Replies, Legs
<1>14. Becomes(p, c) \/ (Becomes(p, f) /\ w[p].leg = "own")
  <2>1. IF \/ w[p].leg = "spy" \/ w[p].reply \in {"fatal", "limited"} \/ clock >= Deadline[w[p].tgt]
        THEN Becomes(p, c) ELSE Becomes(p, f)
    BY Zenon DEF Record
  <2> HIDE DEF c, f
  <2> QED BY <2>1, Shape DEF Legs
<1>3. PICK r : /\ Becomes(p, r)
               /\ r \in Worker /\ r.pc \in {"complete", "fetch"} /\ r.tgt = w[p].tgt /\ r.k = w[p].k
               /\ r.since = w[p].since /\ r.halt = w[p].halt
               /\ r.pc = "complete" => r.leg = w[p].leg
               /\ r.pc = "fetch" => w[p].leg = "own" /\ r.leg = "spy"
  <2> HIDE DEF c, f
  <2> QED BY <1>2, <1>13, <1>14
<1> HIDE DEF c, f
<1>4. a \in Attempts /\ x \in Attempts \X Legs /\ x[1] = a
  BY <1>1, Shape DEF Req
<1>5. e \in Evidence /\ e.ok = (w[p].reply = "ok")
  BY Shape DEF Evidence
<1> HIDE DEF e
<1>6. /\ packets' \in [Attempts \X Legs -> Evidence \union {None}]
      /\ packets'[x] = e /\ \A y \in Attempts \X Legs : y # x => packets'[y] = packets[y]
  BY <1>1, <1>4, <1>5 DEF IInv, TypeOK
<1>7. /\ w'[p] = r /\ w' \in [Workers -> Worker] /\ \A q \in Workers : q # p => w'[q] = w[q]
      /\ \A q \in Workers : w'[q].pc \notin {"down", "scan"} => w'[q].tgt # None
      /\ OneOwner' /\ ObservedHasPair'
      /\ \A b \in Attempts : Stuck(b) => Stuck(b)'
      /\ \A q \in Workers : q # p => Sound(w[q])'
  <2>1. \A y \in Attempts \X Legs : y[1] # a => packets'[y] = packets[y]
    BY <1>4, <1>6
  <2>2. w[p].pc \in Owning /\ w[p].pc # "save" /\ (w[p].halt => r.halt) /\ doubt' \in SUBSET Workers
    BY <1>1, <1>3 DEF Owning, IInv, TypeOK, history
  <2> HIDE DEF a, x
  <2> QED BY <1>1, <1>3, <2>1, <2>2, OwnStep DEF a, history
<1>8. TypeOK' /\ LedgerInv' /\ OneRequest'
  BY <1>1, <1>6, <1>7 DEF IInv, TypeOK, LedgerInv, OneRequest, history
<1>9. TableInv'
  <2>1. w[p].reply = "ok" => wires[x] = 1
    BY <1>1, Shape DEF Sound, Placed
  <2>2. \A y \in Attempts \X Legs : packets'[y] # None /\ packets'[y].ok => wires[y] = 1
    <3> HIDE DEF x
    <3> QED BY <1>4, <1>5, <1>6, <2>1 DEF IInv, TableInv
  <2> QED BY <1>1, <2>2 DEF IInv, TableInv, history
<1>10. RefusalInv'
  BY <1>1, <1>3, <1>7 DEF IInv, RefusalInv, TypeOK, history
<1>11. Sound(w[p])'
  <2>1. /\ w'[p].pc \in {"complete", "fetch"} /\ Att(w'[p]) = a
        /\ w'[p].pc = "complete" => w'[p].leg = w[p].leg
        /\ w'[p].pc = "fetch" => w[p].leg = "own" /\ w'[p].leg = "spy" /\ Req(w'[p]) = <<a, "spy">>
    BY <1>3, <1>7 DEF Att, Req
  <2>2. /\ claims[a] # None /\ done[a] = None
        /\ w[p].leg = "own" => \A s \in Slot : slots[s] # <<a, "spy">>
    BY <1>1, Shape DEF Sound, Owner, Owning
  <2>3. Shaped(w[p])'
    BY <2>1 DEF Shaped
  <2>4. Owner(w[p])'
    BY <1>1, <2>1, <2>2 DEF Owner, Att
  <2>5. Placed(w[p])'
    BY <1>1, <2>1, <2>2 DEF Placed, Req, Att
  <2> QED BY <2>3, <2>4, <2>5 DEF Sound
<1>12. \A q \in Workers : Sound(w[q])'
  BY <1>7, <1>11
<1> QED BY <1>7, <1>8, <1>9, <1>10, <1>12 DEF IInv

LEMMA CompleteInv == ASSUME IInv, NEW p \in Workers, Complete(p) PROVE IInv'
<1> DEFINE a == Att(w[p])
           r == [w[p] EXCEPT !.pc = "judge"]
<1>1. /\ w[p].pc = "complete" /\ done' = [done EXCEPT ![a] = clock] /\ Becomes(p, r)
      /\ UNCHANGED <<clock, target, claims, slots, quota, packets, assessed, halted, cooling,
                     spent, trouble, granted, wires, refused, doubt>>
      /\ missed' \subseteq missed \union {a}
  BY Shape DEF Complete, At, Goes
<1>2. /\ r \in Worker /\ r.pc = "judge" /\ r.tgt = w[p].tgt /\ r.k = w[p].k
      /\ r.since = w[p].since /\ r.halt = w[p].halt
  BY Shape DEF Worker
<1> HIDE DEF r
<1>3. a \in Attempts /\ clock \in Nat /\ claims[a] # None
  BY <1>1, Shape DEF Sound, Owner, Owning
<1>4. /\ done' \in [Attempts -> Nat \union {None}]
      /\ \A b \in Attempts : b # a => done'[b] = done[b]
  BY <1>1, <1>3 DEF IInv, TypeOK
<1>5. /\ w'[p] = r /\ w' \in [Workers -> Worker] /\ \A q \in Workers : q # p => w'[q] = w[q]
      /\ \A q \in Workers : w'[q].pc \notin {"down", "scan"} => w'[q].tgt # None
      /\ OneOwner' /\ ObservedHasPair'
      /\ \A b \in Attempts : Stuck(b) => Stuck(b)'
      /\ \A q \in Workers : q # p => Sound(w[q])'
  <2>1. w[p].pc \in Owning /\ w[p].pc # "save" /\ (w[p].halt => r.halt) /\ doubt' \in SUBSET Workers
    BY <1>1, <1>2 DEF Owning, IInv, TypeOK
  <2> HIDE DEF a
  <2> QED BY <1>1, <1>2, <1>4, <2>1, OwnStep DEF a
<1>6. missed' \subseteq Attempts /\ TypeOK' /\ LedgerInv' /\ OneRequest'
  BY <1>1, <1>3, <1>4, <1>5 DEF IInv, TypeOK, LedgerInv, OneRequest
<1>7. TableInv'
  <2>1. \A b \in Attempts : done'[b] # None => claims[b] # None
    BY <1>3, <1>4 DEF IInv, TableInv
  <2> QED BY <1>1, <2>1 DEF IInv, TableInv
<1>8. RefusalInv'
  BY <1>1, <1>2, <1>5 DEF IInv, RefusalInv, TypeOK
<1>9. Sound(w[p])'
  BY <1>2, <1>5 DEF Sound, Shaped, Owner, Placed, Owning
<1>10. \A q \in Workers : Sound(w[q])'
  BY <1>5, <1>9
<1> QED BY <1>5, <1>6, <1>7, <1>8, <1>10 DEF IInv

LEMMA AssessInv == ASSUME IInv, NEW p \in Workers, Assess(p) PROVE IInv'
<1> DEFINE t == w[p].tgt
<1>1. /\ w[p].pc = "assess" /\ Becomes(p, NextTarget(p))
      /\ assessed' = [assessed EXCEPT ![t] = IF @ = None THEN w[p].verdict ELSE @]
      /\ UNCHANGED <<clock, target, claims, slots, quota, packets, done, halted, cooling,
                     spent, trouble, history>>
  BY DEF Assess, At
<1>2. /\ t \in Targets /\ w[p].verdict \in Verdicts
      /\ w[p].verdict = "observed" => HasPair(t)
  BY <1>1, Shape DEF Worker, Sound, Shaped
<1>3. assessed' \in [Targets -> Verdicts \union {None}]
  BY <1>1, <1>2, StillTables
<1>4. \A u \in Targets : assessed'[u] = "observed" => HasPair(u)
  BY <1>1, <1>2, StillTables
<1>5. LedgerInv'
  BY <1>1 DEF IInv, LedgerInv, history
<1>6. TypeOK /\ (w[p].halt => NextTarget(p).halt)
  BY NextTargetSound DEF IInv
<1> QED BY <1>1, <1>3, <1>4, <1>5, <1>6, NextTargetSound, StillTables, AnyLocalStep
      DEF history, Owning

-----------------------------------------------------------------------------
LEMMA NextIInv == ASSUME IInv, [Next]_vars PROVE IInv'
<1>1. CASE Tick \/ OtherReserves \/ OtherSends
  BY <1>1, TickInv, OtherReservesInv, OtherSendsInv
<1>2. ASSUME NEW p \in Workers, Start(p) \/ Crash(p) \/ Fails(p) PROVE IInv'
  BY <1>2, StartInv, CrashInv, FailsInv
<1>3. ASSUME NEW p \in Workers, NEW t \in Targets, Conclude(p, t) \/ Plan(p, t) PROVE IInv'
  BY <1>3, ConcludeInv, PlanInv
<1>4. ASSUME NEW p \in Workers,
             \/ Discover(p) \/ Claim(p) \/ Unsent(p) \/ Refuse(p) \/ ReadSlots(p) \/ Insert(p)
             \/ Denied(p) \/ Send(p)
      PROVE  IInv'
  BY <1>4, DiscoverInv, ClaimInv, UnsentInv, RefuseInv, ReadSlotsInv, InsertInv, DeniedInv, SendInv
<1>5. ASSUME NEW p \in Workers,
             \/ Reply(p) \/ Save(p) \/ Record(p) \/ Complete(p) \/ Judge(p) \/ Assess(p)
      PROVE  IInv'
  BY <1>5, ReplyInv, SaveInv, RecordInv, CompleteInv, JudgeInv, AssessInv
<1>6. CASE UNCHANGED vars
  <2>1. /\ UNCHANGED <<clock, target, claims, slots, quota, packets, done, assessed, halted,
                       cooling, w, spent, trouble, granted, wires, refused, doubt, missed>>
    BY <1>6 DEF vars, tables, history
  <2> QED BY <2>1, StillTables, OtherStep DEF LedgerInv
<1> QED BY <1>1, <1>2, <1>3, <1>4, <1>5, <1>6 DEF Next, Works

\* Every variable keeps its type (the tables of storage.py and the loop of collector.py).
THEOREM TypeCorrect == Spec => []TypeOK
<1>1. Init => IInv
  BY InitIInv
<1>2. IInv /\ [Next]_vars => IInv'
  BY NextIInv
<1>3. IInv => TypeOK
  BY DEF IInv
<1> QED BY <1>1, <1>2, <1>3, PTL DEF Spec

\* A request has its own slot, and goes out once, for any number of workers and crashes
\* (collector.py:66, storage.py:404).
THEOREM OneRequestHolds == Spec => []OneRequest
<1>1. Init => IInv
  BY InitIInv
<1>2. IInv /\ [Next]_vars => IInv'
  BY NextIInv
<1>3. IInv => OneRequest
  BY DEF IInv
<1> QED BY <1>1, <1>2, <1>3, PTL DEF Spec

(* The requests that went out are no more than the slots: each has one of its own. *)
LEMMA SentFitsSlots ==
  ASSUME IInv
  PROVE  Cardinality({x \in Attempts \X Legs : wires[x] # 0}) <= ModuleCap
<1> DEFINE Sent == {x \in Attempts \X Legs : wires[x] # 0}
           Full == {s \in Slot : slots[s] \in Sent}
           f == [s \in Full |-> slots[s]]
<1>1. ModuleCap \in Nat
  BY LimitsAssumption
<1>2. IsFiniteSet(Slot) /\ Cardinality(Slot) = ModuleCap
  <2>1. 1 \in Int /\ ModuleCap \in Int
    BY <1>1
  <2> QED BY <1>1, <2>1, FS_Interval DEF Slot
<1>3. IsFiniteSet(Full) /\ Cardinality(Full) <= Cardinality(Slot) /\ Cardinality(Full) \in Nat
  BY <1>2, FS_Subset, FS_CardinalityType
<1>4. \A x \in Sent : wires[x] = 1
  <2>1. \A x \in Attempts \X Legs : wires[x] \in Nat /\ wires[x] <= 1
    BY DEF IInv, OneRequest, TypeOK
  <2> QED BY <2>1
<1>5. f \in Surjection(Full, Sent)
  <2>1. f \in [Full -> Sent]
    OBVIOUS
  <2>2. \A x \in Sent : \E s \in Full : f[s] = x
    BY <1>4 DEF IInv, OneRequest
  <2> QED BY <2>1, <2>2 DEF Surjection
<1> HIDE DEF f, Full, Sent
<1>6. IsFiniteSet(Sent) /\ Cardinality(Sent) <= Cardinality(Full)
  BY <1>3, <1>5, FS_Surjection
<1>7. Cardinality(Sent) \in Nat
  BY <1>6, FS_CardinalityType
<1> QED BY <1>1, <1>2, <1>3, <1>6, <1>7 DEF Sent

\* No cap is crossed, by any number of workers and other consumers (storage.py:400-428,
\* quota_ledger.py:143).
THEOREM CapsKeptHolds == Spec => []CapsKept
<1>1. Init => IInv
  BY InitIInv
<1>2. IInv /\ [Next]_vars => IInv'
  BY NextIInv
<1>3. IInv => CapsKept
  BY SentFitsSlots DEF IInv, LedgerInv, CapsKept
<1> QED BY <1>1, <1>2, <1>3, PTL DEF Spec

\* An observed assessment rests on a completed pair that was sent (collector.py:294).
THEOREM ObservedHasPairHolds == Spec => []ObservedHasPair
<1>1. Init => IInv
  BY InitIInv
<1>2. IInv /\ [Next]_vars => IInv'
  BY NextIInv
<1>3. IInv => ObservedHasPair
  BY DEF IInv
<1> QED BY <1>1, <1>2, <1>3, PTL DEF Spec

\* Once the vendor refused for the day, no worker sends that was told or started later, even if
\* the refusal was never stored (collector.py:31, service.py:33).
THEOREM RefusalStandsHolds == Spec => RefusalStands
<1>1. Init => IInv
  BY InitIInv
<1>2. IInv /\ [Next]_vars => IInv'
  BY NextIInv
<1>3. IInv => \A p \in Workers : At(p, "send") => p \notin doubt
  BY DEF IInv, RefusalInv, At
<1>4. IInv /\ [Next]_vars =>
        [\A p \in Workers : At(p, "send") /\ w'[p].pc = "wait" => p \notin doubt]_vars
  BY <1>3
<1> QED BY <1>1, <1>2, <1>4, PTL DEF Spec, RefusalStands
-----------------------------------------------------------------------------
(***************************************************************************)
(* The life of a target.  Only the plan sees that the attempt before has   *)
(* ended and that the spacing is kept; the claim comes later, and others   *)
(* may have written in between.  The invariant carries what the plan saw   *)
(* to the claim, where it still holds because nothing in the tables that   *)
(* was written is written again.                                           *)
(***************************************************************************)
Stages == {"eligible", "late"}

\* An attempt may begin at this time: in the window, and spaced from the one before.
Timely(t, k, at) ==
  /\ at >= TargetAt[t] + Offset[k] /\ at < Deadline[t]
  /\ k # 1 => done[<<t, k - 1>>] # None /\ at >= done[<<t, k - 1>>] + Spacing

Decides(t, v) ==
  /\ target[t] \in Stages /\ (target[t] = "late" <=> v = "not_applicable")
  /\ v \in {"observed", "partial"} => \E k \in 1..MaxAttempts : done[<<t, k>>] # None

\* What holds of a worker's record r because of what the worker saw.
Course(r) ==
  /\ \A t \in r.todo : target[t] \in Stages
  /\ r.pc = "claim" => target[r.tgt] = "eligible" /\ Timely(r.tgt, r.k, r.at)
  /\ r.pc \in Owning \union {"judge"} => target[r.tgt] = "eligible"
  /\ r.pc = "assess" => Decides(r.tgt, r.verdict)

Begun ==
  \A t \in Targets, k \in 1..MaxAttempts :
    claims[<<t, k>>] # None => target[t] = "eligible" /\ Timely(t, k, claims[<<t, k>>])

LifeInv == IInv /\ Begun /\ \A p \in Workers : Course(w[p])

\* No step takes back what a table says.
Grows ==
  /\ \A t \in Targets : target[t] # None => target'[t] = target[t]
  /\ \A a \in Attempts : claims[a] # None => claims'[a] = claims[a]
  /\ \A a \in Attempts : done[a] # None => done'[a] = done[a]

LEMMA StageFacts == None \notin Stages /\ "absent" \notin Stages
BY WorldAssumption DEF Stages

LEMMA Written == ASSUME IInv, NEW p \in Workers, NEW r, Becomes(p, r)
                 PROVE  w'[p] = r /\ \A q \in Workers : q # p => w'[q] = w[q]
BY DEF Becomes, IInv, TypeOK

(* From the request to the completion a worker keeps its target. *)
Moves(p) ==
  \/ Unsent(p) \/ Refuse(p) \/ ReadSlots(p) \/ Insert(p) \/ Denied(p) \/ Send(p) \/ Reply(p)
  \/ Save(p) \/ Record(p) \/ Complete(p)

Keeps(p, r) ==
  /\ r.pc \in Owning \union {"judge"} /\ r.tgt = w[p].tgt /\ r.k = w[p].k /\ r.todo = w[p].todo

LEMMA MovesKeep ==
  ASSUME IInv, NEW p \in Workers, Moves(p)
  PROVE  /\ w[p].pc \in Owning /\ Keeps(p, w'[p]) /\ \A q \in Workers : q # p => w'[q] = w[q]
         /\ UNCHANGED <<target, claims, assessed>> /\ (Complete(p) \/ UNCHANGED done)
<1> USE DEF Owning, Keeps, At
<1>0. w[p] \in Worker
  BY Shape
<1>1. CASE Unsent(p)
  <2>1. PICK r : r = [w[p] EXCEPT !.pc = "record", !.reply = "bad"]
    OBVIOUS
  <2>2. Keeps(p, r)
    BY ZenonT(60), <1>0, <2>1 DEF Worker
  <2> QED BY <1>1, <2>1, <2>2, Written DEF Unsent, tables
<1>2. CASE Refuse(p)
  <2>1. Keeps(p, [w[p] EXCEPT !.pc = "save", !.halt = TRUE, !.reply = "refused"])
    BY ZenonT(60), <1>0 DEF Worker
  <2>2. ASSUME NEW h PROVE Keeps(p, [w[p] EXCEPT !.pc = "complete", !.halt = h])
    BY ZenonT(60), <1>0 DEF Worker
  <2>3. \E r : Becomes(p, r) /\ Keeps(p, r)
    <3>1. PICK d : \/ Becomes(p, [w[p] EXCEPT !.pc = "save", !.halt = TRUE, !.reply = "refused"])
                   \/ Becomes(p, [w[p] EXCEPT !.pc = "complete", !.halt = @ \/ d])
      BY <1>2, Zenon DEF Refuse, At
    <3> QED BY <2>1, <2>2, <3>1
  <2> QED BY <1>2, <2>3, Written DEF Refuse
<1>3. CASE ReadSlots(p)
  <2>1. PICK n : Becomes(p, [w[p] EXCEPT !.pc = "insert", !.index = n])
    BY <1>3 DEF ReadSlots
  <2>2. Keeps(p, [w[p] EXCEPT !.pc = "insert", !.index = n])
    BY ZenonT(60), <1>0 DEF Worker
  <2> QED BY <1>3, <2>1, <2>2, Written DEF ReadSlots
<1>4. CASE Insert(p)
  <2>1. Keeps(p, [w[p] EXCEPT !.pc = "send", !.index = 1])
    BY ZenonT(60), <1>0 DEF Worker
  <2> QED BY <1>4, <2>1, Written DEF Insert
<1>5. CASE Denied(p)
  <2>1. Keeps(p, [w[p] EXCEPT !.pc = "save", !.halt = TRUE, !.reply = "refused", !.index = 1])
    BY ZenonT(60), <1>0 DEF Worker
  <2> QED BY <1>5, <2>1, Written DEF Denied, tables
<1>6. CASE Send(p)
  <2>1. ASSUME NEW pc \in {"wait", "complete"} PROVE Keeps(p, [w[p] EXCEPT !.pc = pc])
    BY ZenonT(60), <1>0 DEF Worker
  <2>2. PICK pc \in {"wait", "complete"} : Becomes(p, [w[p] EXCEPT !.pc = pc])
    BY <1>6 DEF Send, Goes
  <2>3. \E r : Becomes(p, r) /\ Keeps(p, r)
    BY <2>1, <2>2, Zenon
  <2>4. UNCHANGED <<target, claims, assessed, done>>
    BY <1>6 DEF Send, tables
  <2>5. w[p].pc = "send"
    BY <1>6 DEF Send
  <2> QED BY <2>3, <2>4, <2>5, Written
<1>7. CASE Reply(p)
  <2>1. PICK y, n :
          LET r == [w[p] EXCEPT !.reply = y, !.at = clock, !.seen = n] IN
          Becomes(p, CASE y = "fatal" -> [r EXCEPT !.pc = "save", !.halt = TRUE]
                       [] y = "limited" -> [r EXCEPT !.pc = "save", !.cool = clock + Cooldown]
                       [] OTHER -> [r EXCEPT !.pc = "record"])
    BY <1>7, Zenon DEF Reply
  <2> DEFINE r == [w[p] EXCEPT !.reply = y, !.at = clock, !.seen = n]
  <2>2. /\ r = [x \in DOMAIN w[p] |-> r[x]] /\ DOMAIN r = DOMAIN w[p]
        /\ r.tgt = w[p].tgt /\ r.k = w[p].k /\ r.todo = w[p].todo
    BY ZenonT(60), <1>0 DEF Worker
  <2>3. /\ "tgt" \in DOMAIN r /\ "k" \in DOMAIN r /\ "todo" \in DOMAIN r /\ "pc" \in DOMAIN r
    BY <1>0, <2>2 DEF Worker
  <2> HIDE DEF r
  <2>4. /\ Keeps(p, [r EXCEPT !.pc = "save", !.halt = TRUE])
        /\ Keeps(p, [r EXCEPT !.pc = "save", !.cool = clock + Cooldown])
        /\ Keeps(p, [r EXCEPT !.pc = "record"])
    BY ZenonT(60), <2>2, <2>3
  <2>5. \E s : Becomes(p, s) /\ Keeps(p, s)
    BY <2>1, <2>4 DEF r
  <2> QED BY <1>7, <2>5, Written DEF Reply, tables
<1>8. CASE Save(p)
  <2>1. ASSUME NEW pc \in {"record", "complete"}, NEW c
        PROVE  Keeps(p, [w[p] EXCEPT !.pc = pc, !.cool = c])
    BY ZenonT(60), <1>0 DEF Worker
  <2>2. PICK c : \E pc \in {"record", "complete"} : Becomes(p, [w[p] EXCEPT !.pc = pc, !.cool = c])
    BY <1>8, Zenon DEF Save
  <2>3. \E r : Becomes(p, r) /\ Keeps(p, r)
    BY <2>1, <2>2, Zenon
  <2> QED BY <1>8, <2>3, Written DEF Save
<1>9. CASE Record(p)
  <2>1. Keeps(p, [w[p] EXCEPT !.pc = "complete", !.at = 0, !.reply = "bad"])
    BY ZenonT(60), <1>0 DEF Worker
  <2>2. Keeps(p, [w[p] EXCEPT !.pc = "fetch", !.leg = "spy", !.at = 0, !.reply = "bad"])
    BY ZenonT(60), <1>0 DEF Worker
  <2>3. \E r : Becomes(p, r) /\ Keeps(p, r)
    <3>1. \/ Becomes(p, [w[p] EXCEPT !.pc = "complete", !.at = 0, !.reply = "bad"])
          \/ Becomes(p, [w[p] EXCEPT !.pc = "fetch", !.leg = "spy", !.at = 0, !.reply = "bad"])
      BY <1>9, Zenon DEF Record
    <3> QED BY <2>1, <2>2, <3>1
  <2> QED BY <1>9, <2>3, Written DEF Record
<1>10. CASE Complete(p)
  <2>1. Keeps(p, [w[p] EXCEPT !.pc = "judge"])
    BY ZenonT(60), <1>0 DEF Worker
  <2> QED BY <1>10, <2>1, Written DEF Complete, Goes
<1> QED BY <1>1, <1>2, <1>3, <1>4, <1>5, <1>6, <1>7, <1>8, <1>9, <1>10 DEF Moves

(* A worker at rest: its list is all that matters. *)
Idles(p, r) == r.pc \in {"down", "scan"} /\ r.todo \subseteq w[p].todo

LEMMA FreeTodo ==
  ASSUME NEW pc, NEW t, NEW h, NEW c, NEW n, NEW todo
  PROVE  Free(pc, t, h, c, n, todo).pc = pc /\ Free(pc, t, h, c, n, todo).todo = todo
BY DEF Free

LEMMA ResetsRest ==
  ASSUME IInv, NEW p \in Workers, Start(p) \/ Crash(p) \/ Fails(p) \/ Assess(p)
  PROVE  /\ Idles(p, w'[p]) /\ \A q \in Workers : q # p => w'[q] = w[q]
         /\ UNCHANGED <<target, claims, done, packets>>
<1>1. \E r : Becomes(p, r) /\ Idles(p, r)
  <2>1. CASE Start(p)
    BY <2>1, FreeTodo DEF Start, Idles
  <2>2. CASE Crash(p)
    <3>1. Down.pc = "down" /\ Down.todo = {}
      BY DEF Down, Free
    <3> QED BY <2>2, <3>1 DEF Crash, Idles
  <2>3. CASE Fails(p)
    BY <2>3, FreeTodo DEF Fails, Idles
  <2>4. CASE Assess(p)
    BY <2>4, FreeTodo DEF Assess, Idles, NextTarget
  <2> QED BY <2>1, <2>2, <2>3, <2>4
<1>2. UNCHANGED <<target, claims, done, packets>>
  BY DEF Start, Crash, Fails, Assess, tables
<1> QED BY <1>1, <1>2, Written

(* A worker that leaves its list for a target. *)
LEMMA PassingTodo ==
  ASSUME NEW p, NEW t
  PROVE  Passing(p, t).pc = "scan" /\ Passing(p, t).todo = w[p].todo \ {t}
BY FreeTodo DEF Passing

LEMMA Concludes ==
  ASSUME IInv, NEW p \in Workers, NEW t \in Targets, Conclude(p, t)
  PROVE  /\ t \in w[p].todo /\ \A q \in Workers : q # p => w'[q] = w[q]
         /\ w'[p].todo \subseteq w[p].todo
         /\ \/ w'[p].pc = "scan"
            \/ /\ w'[p].pc = "assess" /\ w'[p].tgt = t /\ assessed[t] = None
               /\ \/ target[t] = "late" /\ w'[p].verdict = "not_applicable"
                  \/ /\ target[t] # "late" /\ w'[p].verdict # None
                     /\ \E terminal : w'[p].verdict = Verdict(t, terminal)
<1> DEFINE terminal == IF Halted(p) THEN "day_halted"
        ELSE IF Schedule(t) = "late" /\ Incomplete(t) THEN "incomplete_attempt"
        ELSE IF Schedule(t) \in {"late", "exhausted"} THEN Schedule(t) ELSE None
      v == IF target[t] = "late" THEN "not_applicable" ELSE Verdict(t, terminal)
      x == Passing(p, t)
<1>1. /\ t \in w[p].todo
      /\ \/ Becomes(p, x)
         \/ /\ assessed[t] = None /\ v # None
            /\ Becomes(p, [x EXCEPT !.pc = "assess", !.tgt = t, !.verdict = v])
  BY Zenon DEF Conclude, Takes
<1>2. v # None => \/ target[t] = "late" /\ v = "not_applicable"
                  \/ target[t] # "late" /\ \E e : v = Verdict(t, e)
  BY Zenon
<1>3. x \in Worker /\ x.pc = "scan" /\ x.todo \subseteq w[p].todo
  BY Passes, PassingTodo
<1> HIDE DEF x, v
<1>4. CASE Becomes(p, x)
  BY <1>1, <1>3, <1>4, Written
<1>5. CASE /\ assessed[t] = None /\ v # None
           /\ Becomes(p, [x EXCEPT !.pc = "assess", !.tgt = t, !.verdict = v])
  <2>1. PICK r : r = [x EXCEPT !.pc = "assess", !.tgt = t, !.verdict = v]
    OBVIOUS
  <2>2. r.pc = "assess" /\ r.tgt = t /\ r.verdict = v /\ r.todo = x.todo
    BY ZenonT(60), <1>3, <2>1 DEF Worker
  <2>3. w'[p] = r /\ \A q \in Workers : q # p => w'[q] = w[q]
    BY <1>5, <2>1, Written
  <2> QED BY <1>1, <1>2, <1>3, <1>5, <2>2, <2>3
<1> QED BY <1>1, <1>4, <1>5

LEMMA Plans ==
  ASSUME IInv, NEW p \in Workers, NEW t \in Targets, Plan(p, t)
  PROVE  /\ t \in w[p].todo /\ \A q \in Workers : q # p => w'[q] = w[q]
         /\ w'[p].todo \subseteq w[p].todo
         /\ \/ w'[p].pc = "scan"
            \/ /\ w'[p].pc = "claim" /\ w'[p].tgt = t /\ w'[p].at = clock
               /\ w'[p].k = Cardinality(ClaimsOf(t)) + 1
               /\ Schedule(t) = "ready" /\ target[t] = "eligible" /\ assessed[t] = None
<1> DEFINE ready == Schedule(t) = "ready" /\ Permitted(p, {}) /\ ~Cooling(p)
           k == Cardinality(ClaimsOf(t)) + 1
           x == Passing(p, t)
<1>1. PICK d : /\ t \in w[p].todo /\ target[t] = "eligible" /\ assessed[t] = None
               /\ \/ ready /\ Becomes(p, [x EXCEPT !.pc = "claim", !.tgt = t, !.at = clock, !.k = k])
                  \/ Becomes(p, [x EXCEPT !.halt = @ \/ d])
  BY Zenon DEF Plan, Takes
<1>2. x \in Worker /\ x.pc = "scan" /\ x.todo \subseteq w[p].todo
  BY Passes, PassingTodo
<1> HIDE DEF x, k
<1>3. CASE ready /\ Becomes(p, [x EXCEPT !.pc = "claim", !.tgt = t, !.at = clock, !.k = k])
  <2>1. PICK r : r = [x EXCEPT !.pc = "claim", !.tgt = t, !.at = clock, !.k = k]
    OBVIOUS
  <2>2. r.pc = "claim" /\ r.tgt = t /\ r.at = clock /\ r.k = k /\ r.todo = x.todo
    BY ZenonT(60), <1>2, <2>1 DEF Worker
  <2>3. w'[p] = r /\ \A q \in Workers : q # p => w'[q] = w[q]
    BY <1>3, <2>1, Written
  <2> QED BY <1>1, <1>2, <1>3, <2>2, <2>3 DEF k
<1>4. CASE Becomes(p, [x EXCEPT !.halt = @ \/ d])
  <2>1. PICK r : r = [x EXCEPT !.halt = @ \/ d]
    OBVIOUS
  <2>2. r.pc = "scan" /\ r.todo = x.todo
    BY ZenonT(60), <1>2, <2>1 DEF Worker
  <2> QED BY <1>1, <1>2, <1>4, <2>1, <2>2, Written
<1> QED BY <1>1, <1>3, <1>4

LEMMA Claims ==
  ASSUME IInv, NEW p \in Workers, Claim(p)
  PROVE  /\ w[p].pc = "claim" /\ \A q \in Workers : q # p => w'[q] = w[q]
         /\ w'[p].todo = w[p].todo
         /\ \/ w'[p].pc = "scan" /\ UNCHANGED claims
            \/ /\ w'[p].pc = "fetch" /\ w'[p].tgt = w[p].tgt
               /\ claims[Att(w[p])] = None /\ claims' = [claims EXCEPT ![Att(w[p])] = w[p].at]
<1>1. /\ w[p].pc = "claim"
      /\ \/ /\ claims[Att(w[p])] = None /\ claims' = [claims EXCEPT ![Att(w[p])] = w[p].at]
            /\ Becomes(p, [w[p] EXCEPT !.pc = "fetch", !.at = 0])
         \/ Becomes(p, NextTarget(p)) /\ UNCHANGED claims
  BY Shape DEF Claim, At
<1>2. NextTarget(p).pc = "scan" /\ NextTarget(p).todo = w[p].todo
  BY FreeTodo DEF NextTarget
<1>3. ASSUME NEW r, r = [w[p] EXCEPT !.pc = "fetch", !.at = 0]
      PROVE  r.pc = "fetch" /\ r.tgt = w[p].tgt /\ r.todo = w[p].todo
  BY ZenonT(60), <1>3, Shape DEF Worker
<1> QED BY <1>1, <1>2, <1>3, Written

LEMMA Judges ==
  ASSUME IInv, NEW p \in Workers, Judge(p)
  PROVE  /\ w[p].pc = "judge" /\ \A q \in Workers : q # p => w'[q] = w[q]
         /\ w'[p].todo = w[p].todo
         /\ \/ w'[p].pc = "scan"
            \/ /\ w'[p].pc = "assess" /\ w'[p].tgt = w[p].tgt /\ w'[p].verdict # None
               /\ \E terminal : w'[p].verdict = Verdict(w[p].tgt, terminal)
<1> DEFINE t == w[p].tgt
<1>0. PICK terminal : w[p].pc = "judge" /\ Evaluate(p, t, terminal)
  BY DEF Judge, At
<1> DEFINE v == Verdict(t, terminal)
<1>1. /\ w[p].pc = "judge"
      /\ IF v = None THEN Becomes(p, NextTarget(p))
         ELSE Becomes(p, [w[p] EXCEPT !.pc = "assess", !.tgt = t, !.verdict = v])
  BY <1>0, Zenon DEF Evaluate
<1>2. NextTarget(p).pc = "scan" /\ NextTarget(p).todo = w[p].todo
  BY FreeTodo DEF NextTarget
<1>3. CASE v = None
  BY <1>1, <1>2, <1>3, Written
<1>4. CASE v # None
  <2> HIDE DEF v
  <2>1. PICK r : r = [w[p] EXCEPT !.pc = "assess", !.tgt = t, !.verdict = v]
    OBVIOUS
  <2>2. r.pc = "assess" /\ r.tgt = t /\ r.verdict = v /\ r.todo = w[p].todo
    BY ZenonT(60), <2>1, Shape DEF Worker
  <2>3. w'[p] = r /\ \A q \in Workers : q # p => w'[q] = w[q]
    BY <1>1, <1>4, <2>1, Written DEF v
  <2> QED BY <1>1, <1>4, <2>2, <2>3 DEF v
<1> QED BY <1>3, <1>4

-----------------------------------------------------------------------------
(* The tables only grow. *)
LEMMA NextGrows == ASSUME IInv, [Next]_vars PROVE Grows
<1>1. ASSUME UNCHANGED <<target, claims, done>> PROVE Grows
  BY <1>1 DEF Grows
<1>2. CASE Tick \/ OtherReserves \/ OtherSends \/ UNCHANGED vars
  BY <1>1, <1>2 DEF Tick, OtherReserves, OtherSends, vars, tables
<1>3. ASSUME NEW p \in Workers, Start(p) \/ Crash(p) \/ Fails(p) \/ Assess(p) PROVE Grows
  BY <1>1, <1>3, ResetsRest
<1>4. ASSUME NEW p \in Workers, NEW t \in Targets, Conclude(p, t) \/ Plan(p, t) PROVE Grows
  BY <1>1, <1>4 DEF Conclude, Plan, tables
<1>5. ASSUME NEW p \in Workers, Judge(p) PROVE Grows
  BY <1>1, <1>5 DEF Judge, tables
<1>6. ASSUME NEW p \in Workers, Discover(p) PROVE Grows
  <2>1. /\ UNCHANGED <<claims, done>>
        /\ \A t \in Targets : target[t] # None => target'[t] = target[t]
    BY <1>6 DEF Discover
  <2> QED BY <2>1 DEF Grows
<1>7. ASSUME NEW p \in Workers, Claim(p) PROVE Grows
  <2>1. UNCHANGED <<target, done>>
    BY <1>7 DEF Claim
  <2>2. \/ UNCHANGED claims
        \/ claims[Att(w[p])] = None /\ claims' = [claims EXCEPT ![Att(w[p])] = w[p].at]
    BY <1>7, Claims
  <2>3. \A a \in Attempts : claims[a] # None => claims'[a] = claims[a]
    BY <2>2 DEF IInv, TypeOK
  <2> QED BY <2>1, <2>3 DEF Grows
<1>8. ASSUME NEW p \in Workers, Moves(p) PROVE Grows
  <2>1. CASE Complete(p)
    <3>1. /\ UNCHANGED <<target, claims>> /\ done' = [done EXCEPT ![Att(w[p])] = clock]
      BY <2>1, Shape DEF Complete
    <3>2. done[Att(w[p])] = None
      BY <2>1, Shape DEF Complete, At, Sound, Owner, Owning
    <3>3. \A a \in Attempts : done[a] # None => done'[a] = done[a]
      BY <3>1, <3>2 DEF IInv, TypeOK
    <3> QED BY <3>1, <3>3 DEF Grows
  <2> QED BY <1>1, <1>8, <2>1, MovesKeep
<1> QED BY <1>2, <1>3, <1>4, <1>5, <1>6, <1>7, <1>8 DEF Next, Works, Moves

(* What a worker saw stays true. *)
LEMMA TimelyStays ==
  ASSUME Grows, NEW t \in Targets, NEW k \in 1..MaxAttempts, NEW at, Timely(t, k, at)
  PROVE  /\ at >= TargetAt[t] + Offset[k] /\ at < Deadline[t]
         /\ k # 1 => done'[<<t, k - 1>>] # None /\ at >= done'[<<t, k - 1>>] + Spacing
<1>1. k # 1 => <<t, k - 1>> \in Attempts
  BY DEF Attempts, MaxAttempts
<1> QED BY <1>1 DEF Timely, Grows

LEMMA CourseStays ==
  ASSUME IInv', Grows, NEW p \in Workers, Course(w'[p])
  PROVE  Course(w[p])'
<1>1. w'[p] \in Worker /\ (w'[p].pc \notin {"down", "scan"} => w'[p].tgt \in Targets)
  BY DEF IInv, TypeOK, Worker
<1>2. w'[p].todo \in SUBSET Targets /\ w'[p].k \in 1..MaxAttempts
  BY <1>1 DEF Worker
<1>3. \A t \in Targets : target[t] \in Stages => target'[t] = target[t]
  BY StageFacts DEF Grows
<1>4. \A t \in w'[p].todo : target'[t] \in Stages
  BY <1>2, <1>3 DEF Course
<1>5. w'[p].pc = "claim" => target'[w'[p].tgt] = "eligible" /\ Timely(w[p].tgt, w[p].k, w[p].at)'
  BY <1>1, <1>2, <1>3, TimelyStays DEF Course, Timely, Stages
<1>6. w'[p].pc \in Owning \union {"judge"} => target'[w'[p].tgt] = "eligible"
  BY <1>1, <1>3 DEF Course, Stages, Owning
<1>7. w'[p].pc = "assess" => Decides(w[p].tgt, w[p].verdict)'
  <2> SUFFICES ASSUME w'[p].pc = "assess" PROVE Decides(w[p].tgt, w[p].verdict)'
    OBVIOUS
  <2>1. w'[p].tgt \in Targets /\ Decides(w'[p].tgt, w'[p].verdict)
    BY <1>1 DEF Course
  <2>2. \A k \in 1..MaxAttempts : done[<<w'[p].tgt, k>>] # None => done'[<<w'[p].tgt, k>>] # None
    BY <2>1 DEF Grows, Attempts
  <2> QED BY <1>3, <2>1, <2>2 DEF Decides
<1> QED BY <1>4, <1>5, <1>6, <1>7 DEF Course

(* The attempts of a target are claimed in order. *)
LEMMA LastClaimed ==
  ASSUME LifeInv, NEW t \in Targets, NEW n \in Nat, n = Cardinality(ClaimsOf(t)), n # 0
  PROVE  n \in 1..MaxAttempts /\ claims[<<t, n>>] # None
<1>1. \A k \in 1..MaxAttempts : k # 1 /\ claims[<<t, k>>] # None => claims[<<t, k - 1>>] # None
  <2> SUFFICES ASSUME NEW k \in 1..MaxAttempts, k # 1, claims[<<t, k>>] # None
               PROVE  claims[<<t, k - 1>>] # None
    OBVIOUS
  <2>1. done[<<t, k - 1>>] # None
    BY DEF LifeInv, Begun, Timely
  <2>2. <<t, k - 1>> \in Attempts
    BY DEF Attempts, MaxAttempts
  <2> QED BY <2>1, <2>2 DEF LifeInv, IInv, TableInv
<1>2. ClaimsOf(t) \in {{}, {1}, {1, 2}, {1, 2, 3}}
  <2>1. ClaimsOf(t) \subseteq {1, 2, 3}
    BY DEF ClaimsOf, MaxAttempts
  <2>2. (2 \in ClaimsOf(t) => 1 \in ClaimsOf(t)) /\ (3 \in ClaimsOf(t) => 2 \in ClaimsOf(t))
    <3>1. 2 - 1 = 1 /\ 3 - 1 = 2 /\ 1..MaxAttempts = {1, 2, 3}
      BY DEF MaxAttempts
    <3> QED BY <1>1, <3>1 DEF ClaimsOf
  <2> HIDE DEF MaxAttempts
  <2>3. CASE 3 \in ClaimsOf(t)
    BY <2>1, <2>2, <2>3
  <2>4. CASE 3 \notin ClaimsOf(t) /\ 2 \in ClaimsOf(t)
    BY <2>1, <2>2, <2>4
  <2>5. CASE 3 \notin ClaimsOf(t) /\ 2 \notin ClaimsOf(t)
    BY <2>1, <2>5
  <2> QED BY <2>3, <2>4, <2>5
<1>3. /\ Cardinality({}) = 0 /\ Cardinality({1}) = 1 /\ Cardinality({1, 2}) = 2
      /\ Cardinality({1, 2, 3}) = 3
  <2>1. IsFiniteSet({1}) /\ Cardinality({1}) = 1
    BY FS_Singleton
  <2>2. IsFiniteSet({1} \union {2}) /\ Cardinality({1} \union {2}) = 2
    BY <2>1, FS_AddElement
  <2>3. Cardinality({1} \union {2} \union {3}) = 3
    <3> DEFINE S == {1} \union {2}
    <3>1. 3 \notin S /\ IsFiniteSet(S) /\ Cardinality(S) = 2
      BY <2>2
    <3> HIDE DEF S
    <3>2. Cardinality(S \union {3}) = 2 + 1
      BY <3>1, FS_AddElement
    <3> QED BY <3>2 DEF S
  <2>4. {1, 2} = {1} \union {2} /\ {1, 2, 3} = {1} \union {2} \union {3}
    OBVIOUS
  <2> QED BY <2>1, <2>2, <2>3, <2>4, FS_EmptySet
<1>4. n \in ClaimsOf(t)
  BY <1>2, <1>3
<1> QED BY <1>4 DEF ClaimsOf

(* What the plan saw. *)
LEMMA ReadyTimely ==
  ASSUME LifeInv, NEW t \in Targets, Schedule(t) = "ready"
  PROVE  Timely(t, Cardinality(ClaimsOf(t)) + 1, clock)
<1> DEFINE n == Cardinality(ClaimsOf(t))
<1>1. n \in Nat /\ n <= MaxAttempts
  BY ClaimsFinite DEF MaxAttempts
<1> HIDE DEF n
<1>2. ~Incomplete(t) /\ ~(clock >= Deadline[t]) /\ n # MaxAttempts /\ clock >= Due(t, n + 1)
  BY Zenon DEF Schedule, n
<1>3. clock \in Nat /\ Deadline[t] \in Nat /\ Spacing \in Nat
  BY WorldAssumption, LimitsAssumption DEF LifeInv, IInv, TypeOK
<1>4. TargetAt[t] + Offset[n + 1] \in Nat
  <2>1. n + 1 \in 1..MaxAttempts
    BY <1>1, <1>2 DEF MaxAttempts
  <2> QED BY <2>1, WorldAssumption, LimitsAssumption
<1>5. CASE n = 0
  <2>1. n + 1 = 1
    BY <1>5
  <2>2. Due(t, n + 1) = TargetAt[t] + Offset[n + 1]
    BY <2>1 DEF Due
  <2> QED BY <1>2, <1>3, <1>4, <2>1, <2>2 DEF Timely, n
<1>6. CASE n # 0
  <2>1. n \in 1..MaxAttempts /\ claims[<<t, n>>] # None
    BY <1>1, <1>6, LastClaimed DEF n
  <2>2. done[<<t, n>>] # None
    BY <1>2, <2>1 DEF Incomplete, ClaimsOf
  <2>3. done[<<t, n>>] \in Nat
    BY <2>1, <2>2 DEF LifeInv, IInv, TypeOK, Attempts
  <2>4. n + 1 # 1 /\ (n + 1) - 1 = n
    BY <1>1, <1>6
  <2>5. clock >= TargetAt[t] + Offset[n + 1] /\ clock >= done[<<t, n>>] + Spacing
    <3> DEFINE d == TargetAt[t] + Offset[n + 1]
               e == done[<<t, n>>] + Spacing
    <3>1. Due(t, n + 1) = IF d >= e THEN d ELSE e
      BY <2>4 DEF Due
    <3>2. d \in Nat /\ e \in Nat
      BY <1>3, <1>4, <2>3
    <3> HIDE DEF d, e
    <3>3. clock >= d /\ clock >= e
      BY <1>2, <1>3, <3>1, <3>2
    <3> QED BY <3>3 DEF d, e
  <2> QED BY <1>2, <1>3, <2>2, <2>4, <2>5 DEF Timely, n
<1> QED BY <1>5, <1>6

LEMMA VerdictDecides ==
  ASSUME NEW t \in Targets, target[t] = "eligible", NEW terminal, NEW v,
         v = Verdict(t, terminal), v # None
  PROVE  Decides(t, v)
<1>1. v \in {"observed", "partial", "unknown", "missing"}
  BY DEF Verdict
<1>2. v \in {"observed", "partial"} => \E k \in 1..MaxAttempts : done[<<t, k>>] # None
  BY DEF Verdict, Paired
<1> QED BY <1>1, <1>2 DEF Decides, Stages

LEMMA InitLifeInv == Init => LifeInv
<1> SUFFICES ASSUME Init PROVE LifeInv
  OBVIOUS
<1>1. \A p \in Workers : Course(w[p])
  <2>1. \A p \in Workers : w[p].pc = "down" /\ w[p].todo = {}
    BY DEF Init, Down, Free
  <2> QED BY <2>1 DEF Course, Owning
<1>2. Begun
  BY DEF Init, Begun, Attempts
<1> QED BY <1>1, <1>2, InitIInv DEF LifeInv

(* After any step but the discovery, the worker's record agrees with the tables before it. *)
LEMMA StepCourse ==
  ASSUME LifeInv, NEW p \in Workers,
         \/ Start(p) \/ Crash(p) \/ Fails(p) \/ Assess(p) \/ Moves(p) \/ Claim(p) \/ Judge(p)
         \/ \E t \in Targets : Conclude(p, t) \/ Plan(p, t)
  PROVE  Course(w'[p]) /\ \A q \in Workers : q # p => w'[q] = w[q]
<1>0. IInv /\ Course(w[p])
  BY DEF LifeInv
<1>1. \A t \in w[p].todo : target[t] \in Stages
  BY <1>0 DEF Course
<1>2. CASE Start(p) \/ Crash(p) \/ Fails(p) \/ Assess(p)
  BY <1>0, <1>1, <1>2, ResetsRest DEF Course, Idles, Owning
<1>3. CASE Moves(p)
  <2>1. w[p].pc \in Owning /\ Keeps(p, w'[p]) /\ \A q \in Workers : q # p => w'[q] = w[q]
    BY <1>0, <1>3, MovesKeep
  <2> QED BY <1>0, <2>1 DEF Course, Keeps, Owning
<1>4. CASE Claim(p)
  <2>1. /\ w[p].pc = "claim" /\ \A q \in Workers : q # p => w'[q] = w[q]
        /\ w'[p].todo = w[p].todo
        /\ w'[p].pc = "scan" \/ (w'[p].pc = "fetch" /\ w'[p].tgt = w[p].tgt)
    BY <1>0, <1>4, Claims
  <2> QED BY <1>0, <2>1 DEF Course, Owning
<1>5. CASE Judge(p)
  <2>1. /\ w[p].pc = "judge" /\ \A q \in Workers : q # p => w'[q] = w[q]
        /\ w'[p].todo = w[p].todo
        /\ \/ w'[p].pc = "scan"
           \/ /\ w'[p].pc = "assess" /\ w'[p].tgt = w[p].tgt /\ w'[p].verdict # None
              /\ \E terminal : w'[p].verdict = Verdict(w[p].tgt, terminal)
    BY <1>0, <1>5, Judges
  <2>2. w[p].tgt \in Targets /\ target[w[p].tgt] = "eligible"
    BY <1>0, <2>1, Shape DEF Course
  <2>3. w'[p].pc = "assess" => Decides(w'[p].tgt, w'[p].verdict)
    BY <2>1, <2>2, VerdictDecides
  <2> QED BY <1>1, <2>1, <2>3 DEF Course, Owning
<1>6. ASSUME NEW t \in Targets, Conclude(p, t)
      PROVE  Course(w'[p]) /\ \A q \in Workers : q # p => w'[q] = w[q]
  <2>1. /\ t \in w[p].todo /\ \A q \in Workers : q # p => w'[q] = w[q]
        /\ w'[p].todo \subseteq w[p].todo
        /\ \/ w'[p].pc = "scan"
           \/ /\ w'[p].pc = "assess" /\ w'[p].tgt = t
              /\ \/ target[t] = "late" /\ w'[p].verdict = "not_applicable"
                 \/ /\ target[t] # "late" /\ w'[p].verdict # None
                    /\ \E terminal : w'[p].verdict = Verdict(t, terminal)
    BY <1>0, <1>6, Concludes
  <2>2. target[t] \in Stages
    BY <1>1, <2>1
  <2>3. w'[p].pc = "assess" => Decides(w'[p].tgt, w'[p].verdict)
    <3>1. CASE target[t] = "late"
      BY <2>1, <3>1 DEF Decides, Stages
    <3>2. CASE target[t] # "late"
      BY <2>1, <2>2, <3>2, VerdictDecides DEF Stages
    <3> QED BY <3>1, <3>2
  <2> QED BY <1>1, <2>1, <2>3 DEF Course, Owning
<1>7. ASSUME NEW t \in Targets, Plan(p, t)
      PROVE  Course(w'[p]) /\ \A q \in Workers : q # p => w'[q] = w[q]
  <2>1. /\ \A q \in Workers : q # p => w'[q] = w[q]
        /\ w'[p].todo \subseteq w[p].todo
        /\ \/ w'[p].pc = "scan"
           \/ /\ w'[p].pc = "claim" /\ w'[p].tgt = t /\ w'[p].at = clock
              /\ w'[p].k = Cardinality(ClaimsOf(t)) + 1
              /\ Schedule(t) = "ready" /\ target[t] = "eligible"
    BY <1>0, <1>7, Plans
  <2>2. w'[p].pc = "claim" => Timely(t, w'[p].k, w'[p].at)
    BY <2>1, ReadyTimely
  <2> QED BY <1>1, <2>1, <2>2 DEF Course, Owning
<1> QED BY <1>2, <1>3, <1>4, <1>5, <1>6, <1>7

LEMMA BegunKept == ASSUME LifeInv, IInv', [Next]_vars PROVE Begun'
<1>1. Grows
  BY NextGrows DEF LifeInv
<1>2. ASSUME NEW t \in Targets, NEW k \in 1..MaxAttempts, claims[<<t, k>>] # None
      PROVE  target'[t] = "eligible" /\ Timely(t, k, claims[<<t, k>>])'
  <2>1. /\ target[t] = "eligible" /\ Timely(t, k, claims[<<t, k>>])
        /\ claims'[<<t, k>>] = claims[<<t, k>>] /\ target'[t] = target[t]
    BY <1>1, <1>2, StageFacts DEF LifeInv, Begun, Grows, Attempts, Stages
  <2> QED BY <1>1, <2>1, TimelyStays DEF Timely
<1>3. CASE UNCHANGED claims
  BY <1>2, <1>3 DEF Begun
<1>4. ASSUME NEW p \in Workers, Claim(p) PROVE Begun'
  <2>1. w[p].pc = "claim" /\ w[p].tgt \in Targets /\ w[p].k \in 1..MaxAttempts
    BY <1>4, Claims, Shape DEF LifeInv
  <2>2. PICK u \in Targets, j \in 1..MaxAttempts : u = w[p].tgt /\ j = w[p].k
    BY <2>1
  <2>4. UNCHANGED claims \/ claims' = [claims EXCEPT ![<<u, j>>] = w[p].at]
    BY <1>4, <2>2, Claims DEF LifeInv, Att
  <2>5. target[u] = "eligible" /\ Timely(u, j, w[p].at)
    BY <2>1, <2>2 DEF LifeInv, Course
  <2>3. CASE claims' = [claims EXCEPT ![<<u, j>>] = w[p].at]
    <3>1. claims'[<<u, j>>] = w[p].at /\ <<u, j>> \in Attempts
      BY <2>2, <2>3 DEF LifeInv, IInv, TypeOK, Attempts
    <3>2. \A t \in Targets, k \in 1..MaxAttempts : <<t, k>> # <<u, j>> => claims'[<<t, k>>] = claims[<<t, k>>]
      BY <2>3 DEF LifeInv, IInv, TypeOK, Attempts
    <3>3. target'[u] = "eligible" /\ Timely(u, j, claims[<<u, j>>])'
      BY <1>1, <2>5, <3>1, StageFacts, TimelyStays DEF Timely, Grows, Stages
    <3>4. SUFFICES ASSUME NEW t \in Targets, NEW k \in 1..MaxAttempts, claims'[<<t, k>>] # None
                   PROVE  target'[t] = "eligible" /\ Timely(t, k, claims[<<t, k>>])'
      BY DEF Begun
    <3>5. CASE t = u /\ k = j
      BY <3>3, <3>5 DEF Timely
    <3>6. CASE <<t, k>> # <<u, j>>
      BY <1>2, <3>2, <3>4, <3>6
    <3> QED BY <3>5, <3>6
  <2> QED BY <1>3, <2>3, <2>4
<1>5. ASSUME NEW p \in Workers, NEW t \in Targets, Conclude(p, t) \/ Plan(p, t)
      PROVE  UNCHANGED claims
  BY <1>5 DEF Conclude, Plan, tables
<1>6. ASSUME NEW p \in Workers, Moves(p) \/ Start(p) \/ Crash(p) \/ Fails(p) \/ Assess(p)
      PROVE  UNCHANGED claims
  BY <1>6, MovesKeep, ResetsRest DEF LifeInv
<1>7. ASSUME NEW p \in Workers, Discover(p) \/ Judge(p) PROVE UNCHANGED claims
  BY <1>7 DEF Discover, Judge, tables
<1>8. Tick \/ OtherReserves \/ OtherSends \/ UNCHANGED vars => UNCHANGED claims
  BY DEF Tick, OtherReserves, OtherSends, vars, tables
<1> QED BY <1>3, <1>4, <1>5, <1>6, <1>7, <1>8 DEF Next, Works, Moves

LEMMA NextLifeInv == ASSUME LifeInv, [Next]_vars PROVE LifeInv'
<1>1. IInv' /\ Grows
  BY NextIInv, NextGrows DEF LifeInv
<1>2. Begun'
  BY <1>1, BegunKept
<1>3. ASSUME UNCHANGED w PROVE \A q \in Workers : Course(w[q])'
  BY <1>1, <1>3, CourseStays DEF LifeInv
<1>4. ASSUME NEW p \in Workers, Course(w'[p]), \A q \in Workers : q # p => w'[q] = w[q]
      PROVE  \A q \in Workers : Course(w[q])'
  <2>1. \A q \in Workers : Course(w'[q])
    BY <1>4 DEF LifeInv
  <2> QED BY <1>1, <2>1, CourseStays
<1>5. ASSUME NEW p \in Workers, Discover(p) PROVE \A q \in Workers : Course(w[q])'
  <2> DEFINE Todo == {t \in Targets : assessed[t] = None /\ target[t] # "absent"}
  <2>1. w[p] \in Worker /\ w[p].pc = "scan" /\ Becomes(p, [w[p] EXCEPT !.todo = Todo])
    BY <1>5, Shape DEF Discover, At, LifeInv
  <2>2. ASSUME NEW r, r = [w[p] EXCEPT !.todo = Todo] PROVE r.pc = "scan" /\ r.todo = Todo
    BY <2>1, <2>2 DEF Worker
  <2>3. /\ w'[p].pc = "scan" /\ w'[p].todo = Todo
        /\ \A q \in Workers : q # p => w'[q] = w[q]
    BY <2>1, <2>2, Written DEF LifeInv
  <2>4. \A t \in Todo : target'[t] \in Stages
    BY <1>5 DEF Discover, Stages, LifeInv, IInv, TypeOK
  <2>5. Course(w[p])'
    BY <2>3, <2>4 DEF Course, Owning
  <2>6. \A q \in Workers : q # p => Course(w'[q])
    BY <2>3 DEF LifeInv
  <2> QED BY <1>1, <2>5, <2>6, CourseStays
<1>6. CASE Tick \/ OtherReserves \/ OtherSends \/ UNCHANGED vars
  BY <1>1, <1>2, <1>3, <1>6 DEF Tick, OtherReserves, OtherSends, vars, LifeInv
<1>7. ASSUME NEW p \in Workers,
             \/ Start(p) \/ Crash(p) \/ Fails(p) \/ Assess(p) \/ Moves(p) \/ Claim(p) \/ Judge(p)
             \/ \E t \in Targets : Conclude(p, t) \/ Plan(p, t)
      PROVE  LifeInv'
  BY <1>1, <1>2, <1>4, <1>7, StepCourse DEF LifeInv
<1>8. ASSUME NEW p \in Workers, Discover(p) PROVE LifeInv'
  BY <1>1, <1>2, <1>5, <1>8 DEF LifeInv
<1> QED BY <1>6, <1>7, <1>8 DEF Next, Works, Moves

-----------------------------------------------------------------------------
(* Every step is a step of the life of a target, or none. *)

LEMMA InitLives == ASSUME Init, NEW t \in Targets PROVE Life(t)!Init
<1>1. /\ target[t] \in {None, "absent"} /\ assessed[t] = None
      /\ \A k \in 1..MaxAttempts : claims[<<t, k>>] = None /\ done[<<t, k>>] = None
  BY DEF Init, Attempts
<1> QED BY <1>1 DEF Life!Init

LEMMA StillLives ==
  ASSUME UNCHANGED <<target, claims, done, assessed>>, NEW t \in Targets
  PROVE  UNCHANGED Life(t)!vars
BY DEF Life!vars

LEMMA DiscoverLives ==
  ASSUME LifeInv, NEW p \in Workers, Discover(p), NEW t \in Targets
  PROVE  Life(t)!Next \/ UNCHANGED Life(t)!vars
<1>1. /\ UNCHANGED <<claims, done, assessed>>
      /\ target'[t] = IF target[t] # None THEN target[t]
                      ELSE IF clock < Deadline[t] THEN "eligible" ELSE "late"
  BY DEF Discover
<1>2. CASE target[t] # None
  <2>1. target'[t] = target[t]
    BY <1>1, <1>2
  <2> QED BY <1>1, <2>1 DEF Life!vars
<1>3. CASE target[t] = None
  <2>1. target'[t] \in {"eligible", "late"}
    BY <1>1, <1>3
  <2> QED BY <1>1, <1>3, <2>1 DEF Life!Next, Life!Discover
<1> QED BY <1>2, <1>3

LEMMA ClaimLives ==
  ASSUME LifeInv, NEW p \in Workers, Claim(p), NEW t \in Targets
  PROVE  Life(t)!Next \/ UNCHANGED Life(t)!vars
<1>1. UNCHANGED <<target, done, assessed>>
  BY DEF Claim
<1>2. w[p].pc = "claim" /\ w[p].tgt \in Targets /\ w[p].k \in 1..MaxAttempts /\ w[p].at \in Nat
  BY Claims, Shape DEF LifeInv
<1>3. PICK u \in Targets, j \in 1..MaxAttempts, n \in Nat : u = w[p].tgt /\ j = w[p].k /\ n = w[p].at
  BY <1>2
<1>4. target[u] = "eligible" /\ Timely(u, j, n)
  BY <1>2, <1>3 DEF LifeInv, Course
<1>5. CASE UNCHANGED claims
  BY <1>1, <1>5, StillLives
<1>6. CASE claims[<<u, j>>] = None /\ claims' = [claims EXCEPT ![<<u, j>>] = n]
  <2>1. /\ claims'[<<u, j>>] = n
        /\ \A a \in Attempts : a # <<u, j>> => claims'[a] = claims[a]
    BY <1>6 DEF LifeInv, IInv, TypeOK, Attempts
  <2>2. CASE t # u
    <3>1. \A k \in 1..MaxAttempts : claims'[<<t, k>>] = claims[<<t, k>>]
      BY <2>1, <2>2 DEF Attempts
    <3> QED BY <1>1, <3>1 DEF Life!vars
  <2>3. CASE t = u
    <3> DEFINE began == [k \in 1..MaxAttempts |-> claims[<<t, k>>]]
               ended == [k \in 1..MaxAttempts |-> done[<<t, k>>]]
               opens == [k \in 1..MaxAttempts |-> TargetAt[t] + Offset[k]]
    <3>1. began' = [began EXCEPT ![j] = n]
      BY <2>1, <2>3 DEF Attempts
    <3>2. n \in opens[j] .. Deadline[t] - 1
      <4>1. TargetAt[t] \in Nat /\ Offset[j] \in Nat /\ Deadline[t] \in Nat
        BY WorldAssumption, LimitsAssumption
      <4>2. opens[j] = TargetAt[t] + Offset[j]
        OBVIOUS
      <4> HIDE DEF opens
      <4>3. n >= opens[j] /\ n < Deadline[t]
        BY <1>4, <2>3, <4>2 DEF Timely
      <4> QED BY <4>1, <4>2, <4>3
    <3>3. j # 1 => ended[j - 1] # None /\ n >= ended[j - 1] + Spacing
      <4>1. j # 1 => j - 1 \in 1..MaxAttempts
        BY DEF MaxAttempts
      <4> QED BY <1>4, <2>3, <4>1 DEF Timely
    <3>4. began[j] = None /\ target[t] = "eligible"
      BY <1>4, <1>6, <2>3
    <3>5. ended' = ended
      BY <1>1
    <3>6. Life(t)!Begin(j)
      BY <1>1, <3>1, <3>2, <3>3, <3>4, <3>5 DEF Life!Begin
    <3> QED BY <3>6 DEF Life!Next
  <2> QED BY <2>2, <2>3
<1> QED BY <1>3, <1>5, <1>6, Claims DEF LifeInv, Att

LEMMA CompleteLives ==
  ASSUME LifeInv, NEW p \in Workers, Complete(p), NEW t \in Targets
  PROVE  Life(t)!Next \/ UNCHANGED Life(t)!vars
<1>1. UNCHANGED <<target, claims, assessed>> /\ done' = [done EXCEPT ![Att(w[p])] = clock]
      /\ w[p].pc = "complete"
  BY Shape DEF Complete, At, LifeInv
<1>2. /\ w[p].tgt \in Targets /\ w[p].k \in 1..MaxAttempts /\ clock \in Nat
      /\ claims[Att(w[p])] # None /\ done[Att(w[p])] = None
  BY <1>1, Shape DEF LifeInv, Sound, Owner, Owning
<1>3. PICK u \in Targets, j \in 1..MaxAttempts, n \in Nat : u = w[p].tgt /\ j = w[p].k /\ n = clock
  BY <1>2
<1>4. /\ claims[<<u, j>>] # None /\ done[<<u, j>>] = None /\ n >= claims[<<u, j>>]
      /\ done' = [done EXCEPT ![<<u, j>>] = n] /\ n # None
  <2>1. claims[<<u, j>>] # None => claims[<<u, j>>] <= clock
    BY DEF LifeInv, IInv, TableInv, Attempts
  <2>2. claims[<<u, j>>] \in Nat \union {None}
    BY DEF LifeInv, IInv, TypeOK, Attempts
  <2> QED BY <1>1, <1>2, <1>3, <2>1, <2>2, Nones DEF Att
<1>5. /\ done'[<<u, j>>] = n
      /\ \A a \in Attempts : a # <<u, j>> => done'[a] = done[a]
  BY <1>4 DEF LifeInv, IInv, TypeOK, Attempts
<1>6. CASE t # u
  <2>1. \A k \in 1..MaxAttempts : done'[<<t, k>>] = done[<<t, k>>]
    BY <1>5, <1>6 DEF Attempts
  <2> QED BY <1>1, <2>1 DEF Life!vars
<1>7. CASE t = u
  <2> DEFINE began == [k \in 1..MaxAttempts |-> claims[<<t, k>>]]
             ended == [k \in 1..MaxAttempts |-> done[<<t, k>>]]
  <2>1. ended' = [ended EXCEPT ![j] = n] /\ ended'[j] = n
    BY <1>5, <1>7 DEF Attempts
  <2>2. began[j] # None /\ ended[j] = None /\ n >= began[j] /\ began' = began
    BY <1>1, <1>4, <1>7
  <2>3. Life(t)!End(j)
    BY <1>1, <1>4, <2>1, <2>2 DEF Life!End
  <2> QED BY <2>3 DEF Life!Next
<1> QED BY <1>6, <1>7

LEMMA AssessLives ==
  ASSUME LifeInv, NEW p \in Workers, Assess(p), NEW t \in Targets
  PROVE  Life(t)!Next \/ UNCHANGED Life(t)!vars
<1>1. /\ UNCHANGED <<target, claims, done>> /\ w[p].pc = "assess"
      /\ assessed' = [assessed EXCEPT ![w[p].tgt] = IF @ = None THEN w[p].verdict ELSE @]
  BY DEF Assess, At
<1>2. w[p].tgt \in Targets /\ w[p].verdict \in Verdicts /\ Decides(w[p].tgt, w[p].verdict)
  BY <1>1, Shape DEF LifeInv, Course, Worker
<1>3. assessed'[t] = IF t = w[p].tgt /\ assessed[t] = None THEN w[p].verdict ELSE assessed[t]
  BY <1>1 DEF LifeInv, IInv, TypeOK
<1>4. CASE t = w[p].tgt /\ assessed[t] = None
  <2>1. PICK v \in Verdicts : v = w[p].verdict
    BY <1>2
  <2>2. assessed'[t] = v /\ assessed[t] = None
    BY <1>3, <1>4, <2>1
  <2>3. Life(t)!Decide(v)
    BY <1>1, <1>2, <1>4, <2>1, <2>2 DEF Life!Decide, Decides, Stages
  <2> QED BY <2>3 DEF Life!Next, Verdicts
<1>5. CASE ~(t = w[p].tgt /\ assessed[t] = None)
  <2>1. assessed'[t] = assessed[t]
    BY <1>3, <1>5
  <2> QED BY <1>1, <2>1 DEF Life!vars
<1> QED BY <1>4, <1>5

LEMMA NextLives ==
  ASSUME LifeInv, [Next]_vars, NEW t \in Targets
  PROVE  Life(t)!Next \/ UNCHANGED Life(t)!vars
<1>1. CASE Tick \/ OtherReserves \/ OtherSends \/ UNCHANGED vars
  BY <1>1, StillLives DEF Tick, OtherReserves, OtherSends, vars, tables
<1>2. ASSUME NEW p \in Workers, Discover(p) \/ Claim(p) \/ Complete(p) \/ Assess(p)
      PROVE  Life(t)!Next \/ UNCHANGED Life(t)!vars
  BY <1>2, DiscoverLives, ClaimLives, CompleteLives, AssessLives
<1>3. ASSUME NEW p \in Workers, Start(p) \/ Crash(p) \/ Fails(p) \/ Judge(p) \/
                                \E u \in Targets : Conclude(p, u) \/ Plan(p, u)
      PROVE  UNCHANGED Life(t)!vars
  BY <1>3, StillLives DEF Start, Crash, Fails, Judge, Conclude, Plan, tables
<1>4. ASSUME NEW p \in Workers, Moves(p), ~Complete(p) PROVE UNCHANGED Life(t)!vars
  BY <1>4, MovesKeep, StillLives DEF LifeInv
<1> QED BY <1>1, <1>2, <1>3, <1>4 DEF Next, Works, Moves

\* Any number of workers together give each target the life MeasurementLife promises: attempts
\* in the window, spaced, never two open, and one verdict (collector.py:61-95,
\* storage.py:335-359).
THEOREM LifeImplementedHolds == Spec => LifeImplemented
<1>1. Init => LifeInv
  BY InitLifeInv
<1>2. LifeInv /\ [Next]_vars => LifeInv'
  BY NextLifeInv
<1>3. Init => \A t \in Targets : Life(t)!Init
  BY InitLives
<1>4. LifeInv /\ [Next]_vars => [\A t \in Targets : [Life(t)!Next]_(Life(t)!vars)]_vars
  BY NextLives
<1> QED BY <1>1, <1>2, <1>3, <1>4, PTL DEF Spec, LifeImplemented

(* Two attempts of a target are never open at once, whoever makes them. *)
OneOpen ==
  \A t \in Targets, j, k \in 1..MaxAttempts :
    <<t, j>> \in Opened /\ <<t, k>> \in Opened => j = k

LEMMA Ordered ==
  ASSUME LifeInv, NEW t \in Targets, NEW j \in 1..MaxAttempts, NEW k \in 1..MaxAttempts, j < k,
         claims[<<t, k>>] # None
  PROVE  done[<<t, j>>] # None
<1>1. \A i \in 1..MaxAttempts : claims[<<t, i>>] # None /\ i # 1 => done[<<t, i - 1>>] # None
  BY DEF LifeInv, Begun, Timely
<1>2. \A i \in 1..MaxAttempts : done[<<t, i>>] # None => claims[<<t, i>>] # None
  BY DEF LifeInv, IInv, TableInv, Attempts
<1>3. /\ claims[<<t, 2>>] # None => done[<<t, 1>>] # None
      /\ claims[<<t, 3>>] # None => done[<<t, 2>>] # None
  <2>1. 2 \in 1..MaxAttempts /\ 3 \in 1..MaxAttempts /\ 2 - 1 = 1 /\ 3 - 1 = 2
    BY DEF MaxAttempts
  <2>2. claims[<<t, 2>>] # None => done[<<t, 2 - 1>>] # None
    BY <1>1, <2>1
  <2>3. claims[<<t, 3>>] # None => done[<<t, 3 - 1>>] # None
    BY <1>1, <2>1
  <2> QED BY <2>1, <2>2, <2>3
<1>4. done[<<t, 2>>] # None => claims[<<t, 2>>] # None
  BY <1>2 DEF MaxAttempts
<1>5. (j = 1 /\ k = 2) \/ (j = 1 /\ k = 3) \/ (j = 2 /\ k = 3)
  BY DEF MaxAttempts
<1> QED BY <1>3, <1>4, <1>5

\* However many workers serve a target, at most one attempt of it is open: a claim is made only
\* after the attempt before was completed (collector.py:83, storage.py:351-355).
THEOREM OneOpenHolds == Spec => []OneOpen
<1>1. Init => LifeInv
  BY InitLifeInv
<1>2. LifeInv /\ [Next]_vars => LifeInv'
  BY NextLifeInv
<1>3. LifeInv => OneOpen
  <2> SUFFICES ASSUME LifeInv, NEW t \in Targets, NEW j \in 1..MaxAttempts, NEW k \in 1..MaxAttempts,
                      <<t, j>> \in Opened, <<t, k>> \in Opened
               PROVE  j = k
    BY DEF OneOpen
  <2>1. claims[<<t, j>>] # None /\ done[<<t, j>>] = None /\ claims[<<t, k>>] # None /\ done[<<t, k>>] = None
    BY DEF Opened
  <2>2. ~(j < k) /\ ~(k < j)
    BY <2>1, Ordered
  <2> QED BY <2>2 DEF MaxAttempts
<1> QED BY <1>1, <1>2, <1>3, PTL DEF Spec

-----------------------------------------------------------------------------
(***************************************************************************)
(* A pair that is completed is not passed over: every verdict taken after  *)
(* its completion rests on it, whichever worker holds the verdict, and an  *)
(* assessment that stood before has put the pair among the missed ones.    *)
(***************************************************************************)
Rated(t) == IF t \in SpyEntry THEN "observed" ELSE "partial"
Timeful(t, k) == Paired(<<t, k>>) /\ <<t, k>> \notin missed

Judged(r) ==
  r.pc = "assess" => \A k \in 1..MaxAttempts : Timeful(r.tgt, k) => r.verdict = Rated(r.tgt)

PairsInv == LifeInv /\ PairsCount /\ \A p \in Workers : Judged(w[p])

(* Evidence is only added to an open attempt, so a pair is made by the completion alone. *)
LEMMA PairsMade ==
  ASSUME IInv, [Next]_vars, NEW a \in Attempts, Paired(a)', ~Paired(a)
  PROVE  \E p \in Workers : Complete(p) /\ a = Att(w[p])
<1>1. ASSUME UNCHANGED <<done, packets>> PROVE FALSE
  BY <1>1 DEF Paired, Good
<1>2. CASE Tick \/ OtherReserves \/ OtherSends \/ UNCHANGED vars
  BY <1>1, <1>2 DEF Tick, OtherReserves, OtherSends, vars, tables
<1>3. ASSUME NEW p \in Workers, Start(p) \/ Crash(p) \/ Fails(p) \/ Assess(p) \/ Discover(p) \/
                                Claim(p) \/ Judge(p) \/ \E t \in Targets : Conclude(p, t) \/ Plan(p, t)
      PROVE  FALSE
  BY <1>1, <1>3
     DEF Start, Crash, Fails, Assess, Discover, Claim, Judge, Conclude, Plan, tables
<1>4. ASSUME NEW p \in Workers, Unsent(p) \/ Refuse(p) \/ ReadSlots(p) \/ Insert(p) \/ Denied(p) \/
                                Send(p) \/ Reply(p) \/ Save(p)
      PROVE  FALSE
  BY <1>1, <1>4 DEF Unsent, Refuse, ReadSlots, Insert, Denied, Send, Reply, Save, tables
<1>5. ASSUME NEW p \in Workers, Record(p) PROVE FALSE
  <2>1. /\ w[p].pc = "record" /\ UNCHANGED <<clock, done>>
        /\ \E e : packets' = [packets EXCEPT ![Req(w[p])] = e]
    BY <1>5, Shape DEF Record, At
  <2>2. done[Att(w[p])] = None
    BY <2>1, Shape DEF Sound, Owner, Owning
  <2>3. a # Att(w[p])
    BY <2>1, <2>2 DEF Paired
  <2>4. ASSUME NEW leg \in Legs PROVE packets'[<<a, leg>>] = packets[<<a, leg>>]
    BY <2>1, <2>3 DEF Req, IInv, TypeOK
  <2>5. /\ packets'[<<a, "own">>] = packets[<<a, "own">>]
        /\ packets'[<<a, "spy">>] = packets[<<a, "spy">>]
    BY <2>4 DEF Legs
  <2> QED BY <2>1, <2>5 DEF Paired, Good
<1>6. ASSUME NEW p \in Workers, Complete(p) PROVE a = Att(w[p])
  <2>1. UNCHANGED packets /\ done' = [done EXCEPT ![Att(w[p])] = clock]
    BY <1>6, Shape DEF Complete
  <2>2. SUFFICES ASSUME a # Att(w[p]) PROVE FALSE
    OBVIOUS
  <2>3. done'[a] = done[a]
    BY <2>1, <2>2 DEF IInv, TypeOK
  <2> QED BY <2>1, <2>3 DEF Paired, Good
<1> QED BY <1>2, <1>3, <1>4, <1>5, <1>6 DEF Next, Works

LEMMA VerdictPaired ==
  ASSUME NEW t \in Targets, NEW k \in 1..MaxAttempts, Paired(<<t, k>>), NEW terminal
  PROVE  Verdict(t, terminal) = Rated(t)
BY DEF Verdict, Rated

(* Steps that complete nothing: the worker's record after the step, against the tables before. *)
LEMMA StepJudged ==
  ASSUME PairsInv, NEW p \in Workers,
         \/ Start(p) \/ Crash(p) \/ Fails(p) \/ Moves(p) \/ Claim(p) \/ Judge(p) \/ Discover(p)
         \/ Assess(p) \/ \E t \in Targets : Conclude(p, t) \/ Plan(p, t)
  PROVE  /\ Judged(w'[p]) /\ \A q \in Workers : q # p => w'[q] = w[q]
         /\ UNCHANGED assessed \/ Assess(p)
<1>0. IInv /\ LifeInv
  BY DEF PairsInv, LifeInv
<1>1. CASE Start(p) \/ Crash(p) \/ Fails(p) \/ Assess(p)
  <2>1. Idles(p, w'[p]) /\ \A q \in Workers : q # p => w'[q] = w[q]
    BY <1>0, <1>1, ResetsRest
  <2>2. UNCHANGED assessed \/ Assess(p)
    BY <1>1 DEF Start, Crash, Fails, tables
  <2> QED BY <2>1, <2>2 DEF Judged, Idles
<1>2. CASE Moves(p)
  BY <1>0, <1>2, MovesKeep DEF Judged, Keeps, Owning
<1>3. CASE Claim(p)
  <2>1. w'[p].pc \in {"scan", "fetch"} /\ \A q \in Workers : q # p => w'[q] = w[q]
    BY <1>0, <1>3, Claims
  <2> QED BY <1>3, <2>1 DEF Judged, Claim
<1>4. CASE Judge(p)
  <2>1. /\ w[p].pc = "judge" /\ \A q \in Workers : q # p => w'[q] = w[q]
        /\ \/ w'[p].pc = "scan"
           \/ /\ w'[p].pc = "assess" /\ w'[p].tgt = w[p].tgt
              /\ \E terminal : w'[p].verdict = Verdict(w[p].tgt, terminal)
    BY <1>0, <1>4, Judges
  <2>2. w[p].tgt \in Targets /\ UNCHANGED assessed
    BY <1>0, <1>4, <2>1, Shape DEF Judge, tables
  <2> QED BY <2>1, <2>2, VerdictPaired DEF Judged, Timeful
<1>5. CASE Discover(p)
  <2>1. w[p] \in Worker /\ w[p].pc = "scan"
        /\ Becomes(p, [w[p] EXCEPT !.todo = {t \in Targets : assessed[t] = None /\ target[t] # "absent"}])
    BY <1>0, <1>5, Shape DEF Discover, At
  <2>2. ASSUME NEW r, NEW T, r = [w[p] EXCEPT !.todo = T] PROVE r.pc = "scan"
    BY <2>1, <2>2 DEF Worker
  <2>3. w'[p].pc = "scan" /\ \A q \in Workers : q # p => w'[q] = w[q]
    BY <1>0, <2>1, <2>2, Written
  <2> QED BY <1>5, <2>3 DEF Judged, Discover
<1>6. ASSUME NEW t \in Targets, Conclude(p, t)
      PROVE  Judged(w'[p]) /\ UNCHANGED assessed /\ \A q \in Workers : q # p => w'[q] = w[q]
  <2>1. /\ \A q \in Workers : q # p => w'[q] = w[q]
        /\ \/ w'[p].pc = "scan"
           \/ /\ w'[p].pc = "assess" /\ w'[p].tgt = t
              /\ \/ target[t] = "late"
                 \/ \E terminal : w'[p].verdict = Verdict(t, terminal)
    BY <1>0, <1>6, Concludes
  <2>2. ASSUME target[t] = "late", NEW k \in 1..MaxAttempts, Paired(<<t, k>>) PROVE FALSE
    <3>1. claims[<<t, k>>] # None
      BY <1>0, <2>2 DEF Paired, IInv, TableInv, Attempts
    <3> QED BY <1>0, <2>2, <3>1 DEF LifeInv, Begun
  <2>3. UNCHANGED assessed
    BY <1>6 DEF Conclude, tables
  <2> QED BY <2>1, <2>2, <2>3, VerdictPaired DEF Judged, Timeful
<1>7. ASSUME NEW t \in Targets, Plan(p, t)
      PROVE  Judged(w'[p]) /\ UNCHANGED assessed /\ \A q \in Workers : q # p => w'[q] = w[q]
  <2>1. w'[p].pc \in {"scan", "claim"} /\ \A q \in Workers : q # p => w'[q] = w[q]
    BY <1>0, <1>7, Plans
  <2> QED BY <1>7, <2>1 DEF Judged, Plan
<1> QED BY <1>1, <1>2, <1>3, <1>4, <1>5, <1>6, <1>7

(* Only a completion adds to the missed attempts. *)
LEMMA MissedKept ==
  ASSUME [Next]_vars, ~ \E p \in Workers : Complete(p)
  PROVE  UNCHANGED missed
<1>1. CASE Tick \/ OtherReserves \/ OtherSends \/ UNCHANGED vars
  BY <1>1 DEF Tick, OtherReserves, OtherSends, vars, history
<1>2. ASSUME NEW p \in Workers, Start(p) \/ Crash(p) \/ Fails(p) \/ Assess(p) \/ Discover(p) \/
                                Claim(p) \/ Judge(p) \/ \E t \in Targets : Conclude(p, t) \/ Plan(p, t)
      PROVE  UNCHANGED missed
  BY <1>2 DEF Start, Crash, Fails, Assess, Discover, Claim, Judge, Conclude, Plan, history
<1>3. ASSUME NEW p \in Workers, Unsent(p) \/ Refuse(p) \/ ReadSlots(p) \/ Insert(p) \/ Denied(p) \/
                                Send(p) \/ Reply(p) \/ Save(p) \/ Record(p)
      PROVE  UNCHANGED missed
  BY <1>3 DEF Unsent, Refuse, ReadSlots, Insert, Denied, Send, Reply, Save, Record, history
<1> QED BY <1>1, <1>2, <1>3 DEF Next, Works

LEMMA InitPairs == Init => PairsInv
<1> SUFFICES ASSUME Init PROVE PairsInv
  OBVIOUS
<1>1. PairsCount
  BY DEF Init, PairsCount, Paired, Attempts
<1>2. \A p \in Workers : Judged(w[p])
  <2>1. \A p \in Workers : w[p].pc = "down"
    BY DEF Init, Down, Free
  <2> QED BY <2>1 DEF Judged
<1> QED BY <1>1, <1>2, InitLifeInv DEF PairsInv

LEMMA NextPairs == ASSUME PairsInv, [Next]_vars PROVE PairsInv'
<1>1. LifeInv' /\ IInv /\ IInv' /\ LifeInv
  BY NextLifeInv DEF PairsInv, LifeInv
<1>2. PairsCount <=> \A t \in Targets, k \in 1..MaxAttempts :
                        Timeful(t, k) => assessed[t] \in {None, Rated(t)}
  BY DEF PairsCount, Timeful, Rated
<1>3. PairsCount' <=> \A t \in Targets, k \in 1..MaxAttempts :
                         Timeful(t, k)' => assessed'[t] \in {None, Rated(t)}
  BY DEF PairsCount, Timeful, Rated
(* A worker's record is judged by the pairs after the step if these are pairs before it. *)
<1>4. ASSUME NEW q \in Workers, Judged(w'[q]),
             w'[q].pc = "assess" => \A k \in 1..MaxAttempts : Timeful(w[q].tgt, k)' => Timeful(w'[q].tgt, k)
      PROVE  Judged(w[q])'
  BY <1>4 DEF Judged, Timeful, Rated
<1>5. \A q \in Workers : w'[q].pc = "assess" => w'[q].tgt \in Targets
  BY <1>1 DEF IInv, TypeOK, Worker
<1>6. ASSUME NEW p \in Workers, Complete(p) PROVE PairsInv'
  <2> DEFINE a == Att(w[p])
  <2>1. /\ Judged(w'[p]) /\ UNCHANGED assessed
        /\ \A q \in Workers : q # p => w'[q] = w[q]
    BY <1>1, <1>6, StepJudged, MovesKeep DEF Moves
  <2>2. w[p].tgt \in Targets /\ w[p].k \in 1..MaxAttempts /\ w'[p].pc # "assess"
    BY <1>1, <1>6, Shape, MovesKeep DEF Complete, At, Moves, Keeps, Owning
  <2>3. missed' = IF Decided(a[1]) THEN missed \union {a} ELSE missed
    BY <1>1, <1>6, <2>2, Shape DEF Complete, At
  <2>4. ASSUME NEW t \in Targets, NEW k \in 1..MaxAttempts, Timeful(t, k)'
        PROVE  Timeful(t, k) \/ ~Decided(t)
    <3>1. Paired(<<t, k>>)' /\ <<t, k>> \notin missed' /\ <<t, k>> \notin missed /\ <<t, k>> \in Attempts
      BY <2>3, <2>4 DEF Timeful, Attempts
    <3>2. CASE Paired(<<t, k>>)
      BY <3>1, <3>2 DEF Timeful
    <3>3. CASE ~Paired(<<t, k>>)
      <4>1. PICK q \in Workers : Complete(q) /\ <<t, k>> = Att(w[q])
        BY <1>1, <3>1, <3>3, PairsMade
      <4>2. q = p
        <5>1. SUFFICES ASSUME q # p PROVE FALSE
          OBVIOUS
        <5>2. w'[q] = w[q] /\ w[q].pc = "complete"
          BY <2>1, <4>1, <5>1 DEF Complete, At
        <5>3. w'[q].pc = "judge"
          BY <1>1, <4>1, Written DEF Complete, Goes, IInv, TypeOK, Worker
        <5> QED BY <5>2, <5>3
      <4>3. a = <<t, k>> /\ a[1] = t
        BY <4>1, <4>2
      <4> QED BY <2>3, <3>1, <4>3
    <3> QED BY <3>2, <3>3
  <2> HIDE DEF a
  <2>5. PairsCount'
    <3>1. ASSUME NEW t \in Targets, NEW k \in 1..MaxAttempts, Timeful(t, k)'
          PROVE  assessed'[t] \in {None, Rated(t)}
      BY <1>2, <2>1, <2>4, <3>1 DEF PairsInv, Decided
    <3> QED BY <1>3, <3>1
  <2>6. ASSUME NEW q \in Workers PROVE Judged(w[q])'
    <3>1. CASE q = p
      BY <2>2, <3>1 DEF Judged
    <3>2. CASE q # p
      <4>1. Judged(w'[q]) /\ w'[q] = w[q]
        BY <2>1, <3>2 DEF PairsInv
      <4>2. w'[q].pc = "assess" => \A k \in 1..MaxAttempts : Timeful(w[q].tgt, k)' => Timeful(w'[q].tgt, k)
        <5>1. SUFFICES ASSUME w[q].pc = "assess", NEW k \in 1..MaxAttempts, Timeful(w[q].tgt, k)'
                       PROVE  Timeful(w[q].tgt, k)
          BY <4>1 DEF Timeful
        <5>2. PICK t \in Targets : t = w[q].tgt
          BY <1>5, <4>1, <5>1
        <5>3. Timeful(t, k)'
          BY <4>1, <5>1, <5>2 DEF Timeful
        <5>4. Decided(t)
          BY <5>1, <5>2 DEF Decided, At
        <5> QED BY <2>4, <5>2, <5>3, <5>4
      <4> QED BY <1>4, <4>1, <4>2
    <3> QED BY <3>1, <3>2
  <2> QED BY <1>1, <2>5, <2>6 DEF PairsInv
<1>7. CASE ~ \E p \in Workers : Complete(p)
  <2>1. \A t \in Targets, k \in 1..MaxAttempts : Timeful(t, k)' => Timeful(t, k)
    <3>1. UNCHANGED missed
      BY <1>7, MissedKept
    <3>2. \A a \in Attempts : Paired(a)' => Paired(a)
      BY <1>1, <1>7, PairsMade
    <3> QED BY <3>1, <3>2 DEF Timeful, Attempts
  <2>2. ASSUME NEW q \in Workers, Judged(w'[q]) PROVE Judged(w[q])'
    <3>1. ASSUME w'[q].pc = "assess", NEW k \in 1..MaxAttempts, Timeful(w[q].tgt, k)'
          PROVE  w'[q].verdict = Rated(w'[q].tgt)
      <4>1. PICK t \in Targets : t = w'[q].tgt
        BY <1>5, <3>1
      <4>2. Timeful(t, k)'
        BY <3>1, <4>1 DEF Timeful
      <4> QED BY <2>1, <2>2, <3>1, <4>1, <4>2 DEF Judged
    <3> QED BY <3>1 DEF Judged, Rated
  <2>3. CASE Tick \/ OtherReserves \/ OtherSends \/ UNCHANGED vars
    <3>1. UNCHANGED <<w, assessed>>
      BY <2>3 DEF Tick, OtherReserves, OtherSends, vars, tables
    <3>2. \A p \in Workers : Judged(w[p])'
      BY <2>2, <3>1 DEF PairsInv
    <3>3. PairsCount'
      BY <1>2, <1>3, <2>1, <3>1 DEF PairsInv
    <3> QED BY <1>1, <3>2, <3>3 DEF PairsInv
  <2>4. ASSUME NEW p \in Workers,
               \/ Start(p) \/ Crash(p) \/ Fails(p) \/ Moves(p) \/ Claim(p) \/ Judge(p) \/ Discover(p)
               \/ Assess(p) \/ \E t \in Targets : Conclude(p, t) \/ Plan(p, t)
        PROVE  PairsInv'
    <3>1. /\ Judged(w'[p]) /\ \A q \in Workers : q # p => w'[q] = w[q]
          /\ UNCHANGED assessed \/ Assess(p)
      BY <2>4, StepJudged
    <3>2. \A q \in Workers : Judged(w'[q])
      BY <3>1 DEF PairsInv
    <3>3. \A q \in Workers : Judged(w[q])'
      BY <2>2, <3>2
    <3>4. CASE UNCHANGED assessed
      BY <1>1, <1>2, <1>3, <2>1, <3>3, <3>4 DEF PairsInv
    <3>5. CASE Assess(p)
      <4>1. /\ w[p].pc = "assess" /\ Judged(w[p])
            /\ assessed' = [assessed EXCEPT ![w[p].tgt] = IF @ = None THEN w[p].verdict ELSE @]
        BY <3>5 DEF Assess, At, PairsInv
      <4>2. ASSUME NEW t \in Targets, NEW k \in 1..MaxAttempts, Timeful(t, k)'
            PROVE  assessed'[t] \in {None, Rated(t)}
        <5>1. Timeful(t, k) /\ assessed[t] \in {None, Rated(t)}
          BY <1>2, <2>1, <4>2 DEF PairsInv
        <5>2. assessed'[t] = IF t = w[p].tgt /\ assessed[t] = None THEN w[p].verdict ELSE assessed[t]
          BY <1>1, <4>1 DEF IInv, TypeOK
        <5> QED BY <4>1, <5>1, <5>2 DEF Judged
      <4> QED BY <1>1, <1>3, <3>3, <4>2 DEF PairsInv
    <3> QED BY <3>1, <3>4, <3>5
  <2> QED BY <2>3, <2>4 DEF Next, Works, Moves
<1> QED BY <1>6, <1>7

\* However many workers there are, no verdict passes over a pair that was completed before it
\* was taken (collector.py:238, storage.py:553).
THEOREM PairsCountHolds == Spec => []PairsCount
<1>1. Init => PairsInv
  BY InitPairs
<1>2. PairsInv /\ [Next]_vars => PairsInv'
  BY NextPairs
<1>3. PairsInv => PairsCount
  BY DEF PairsInv
<1> QED BY <1>1, <1>2, <1>3, PTL DEF Spec
=============================================================================
