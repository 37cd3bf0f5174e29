---------------------------- MODULE VendorClient ----------------------------
(***************************************************************************)
(* The shared throttling of the vendor clients (sources/_http_base.py) and *)
(* the request loop built on it (UnusualWhalesClient.request_json,         *)
(* ThetaDataClient.request_json).  One client serves many asyncio tasks of *)
(* one event loop, so a step is what a task does between two awaits.       *)
(*                                                                         *)
(* Time is relative: a tick lowers every sleep that is left, and the marks *)
(* that the code keeps as instants are kept as their age, up to the age at *)
(* which it no longer matters.  A token is worth Period ticks of refill,   *)
(* and the bucket is counted in ticks.                                     *)
(***************************************************************************)
EXTENDS Integers

CONSTANTS
    Task,            \* the tasks that share the client
    Capacity,        \* tokens a full bucket holds
    Period,          \* ticks that refill one token
    Threshold,       \* consecutive failures that open the breaker
    Reset,           \* ticks the breaker refuses after a failure
    MaxAttempts,     \* requests of one call
    InitialBackoff, RateBackoff, MaxBackoff,
    None

Full == Capacity * Period

\* What a request can come to, as the loop tells it apart.
Broken  == "broken"    \* 5xx, network error, or a body that is not JSON
Limited == "limited"   \* 429 of the rate limit
Final   == {"rejected", "daily"}   \* other 4xx, 429 of the daily quota
Unnoted == {"missing", "hook"}     \* 404 or 422, or a hook that raised
Outcome == {"ok", Broken, Limited} \union Final \union Unnoted

Least(a, b) == IF a <= b THEN a ELSE b

\* The sleep before attempt k + 1, after an attempt that came to o.
Pause(o, k) ==
    Least((IF o = Limited THEN RateBackoff ELSE InitialBackoff) * 2 ^ (k - 1), MaxBackoff)

ASSUME ClientAssumption ==
    /\ {Capacity, Period, Threshold, Reset, MaxAttempts} \subseteq Nat \ {0}
    /\ None \notin Nat

ASSUME PauseAssumption ==
    \A o \in {Broken, Limited}, k \in 1..MaxAttempts : Pause(o, k) \in Nat

VARIABLES
    level,     \* _tokens, in ticks
    stale,     \* ticks since _last_refill
    failures,  \* _failures, up to Threshold
    opened,    \* the age of _opened_at, or None
    call,      \* where each task stands
    debt,      \* history: a bucket that leaks a tick per tick and gains Period per token
    burned     \* history: requests each task sent since the breaker began to refuse

vars == <<level, stale, failures, opened, call, debt, burned>>

Idle == [pc |-> "idle", attempt |-> 0, wake |-> 0]

TypeOK ==
    /\ level \in 0..Full /\ stale \in 0..Full
    /\ failures \in 0..Threshold /\ opened \in 0..Reset \union {None}
    /\ call \in [Task -> [pc : {"idle", "acquiring", "sent", "backoff"},
                          attempt : 0..MaxAttempts, wake : Nat]]
    /\ debt \in Int
    /\ burned \in [Task -> Nat]

Init ==
    /\ level = Full /\ stale = 0
    /\ failures = 0 /\ opened = None
    /\ call = [t \in Task |-> Idle]
    /\ debt = 0 /\ burned = [t \in Task |-> 0]

----------------------------------------------------------------------------
\* The bucket.

\* Mutant: the refill is not capped.
RefilledOver == level + stale

Refilled == Least(Full, level + stale)

\* is_open
Refusing == opened # None /\ opened < Reset

\* Mutant: the refill of an empty-handed try is added but its time is not moved on.
AcquireStale(t, k) ==
    /\ \/ /\ Refilled >= Period
          /\ level' = Refilled - Period /\ stale' = 0
          /\ call' = [call EXCEPT ![t] = [pc |-> "sent", attempt |-> k, wake |-> 0]]
          /\ debt' = debt + Period
          /\ burned' = IF Refusing THEN [burned EXCEPT ![t] = @ + 1] ELSE burned
       \/ /\ Refilled < Period
          /\ level' = Refilled /\ stale' = stale
          /\ call' = [call EXCEPT ![t] =
                [pc |-> "acquiring", attempt |-> k, wake |-> Period - Refilled]]
          /\ UNCHANGED <<debt, burned>>
    /\ UNCHANGED <<failures, opened>>

\* acquire: take a token and send attempt k, or sleep for the shortfall.
Acquire(t, k) ==
    /\ stale' = 0
    /\ \/ /\ Refilled >= Period
          /\ level' = Refilled - Period
          /\ call' = [call EXCEPT ![t] = [pc |-> "sent", attempt |-> k, wake |-> 0]]
          /\ debt' = debt + Period
          /\ burned' = IF Refusing THEN [burned EXCEPT ![t] = @ + 1] ELSE burned
       \/ /\ Refilled < Period
          /\ level' = Refilled
          /\ call' = [call EXCEPT ![t] =
                [pc |-> "acquiring", attempt |-> k, wake |-> Period - Refilled]]
          /\ UNCHANGED <<debt, burned>>
    /\ UNCHANGED <<failures, opened>>

----------------------------------------------------------------------------
\* The breaker.

RecordSuccess ==
    /\ failures' = 0 /\ opened' = None
    /\ UNCHANGED burned

RecordFailure ==
    /\ failures' = Least(failures + 1, Threshold)
    /\ opened' = IF failures + 1 >= Threshold THEN 0 ELSE opened
    /\ burned' = IF Refusing THEN burned ELSE [t \in Task |-> 0]

----------------------------------------------------------------------------
\* A call.  One that finds the breaker open raises and changes nothing.

\* Mutants: the breaker is not asked; a call that is refused counts as a failure.
BeginBlind(t) == call[t].pc = "idle" /\ Acquire(t, 1)
BeginRenewing(t) ==
    /\ call[t].pc = "idle"
    /\ \/ ~ Refusing /\ Acquire(t, 1)
       \/ Refusing /\ RecordFailure /\ UNCHANGED <<level, stale, call, debt>>

Begin(t) ==
    /\ call[t].pc = "idle"
    /\ ~ Refusing
    /\ Acquire(t, 1)

\* The sleep of acquire is over: try again, without a place in a queue.
Wake(t) ==
    /\ call[t].pc = "acquiring" /\ call[t].wake = 0
    /\ Acquire(t, call[t].attempt)

\* The sleep between two attempts is over.  The breaker is not asked again.
Retry(t) ==
    /\ call[t].pc = "backoff" /\ call[t].wake = 0
    /\ Acquire(t, call[t].attempt + 1)

Ends(t) == call' = [call EXCEPT ![t] = Idle]

Reply(t, o) ==
    /\ call[t].pc = "sent"
    /\ \/ o = "ok" /\ RecordSuccess /\ Ends(t)
       \/ o \in Unnoted /\ Ends(t) /\ UNCHANGED <<failures, opened, burned>>
       \/ o \in Final /\ RecordFailure /\ Ends(t)
       \/ /\ o \in {Broken, Limited}
          /\ RecordFailure
          /\ \/ call[t].attempt = MaxAttempts /\ Ends(t)
             \/ /\ call[t].attempt < MaxAttempts
                /\ call' = [call EXCEPT ![t].pc = "backoff",
                                        ![t].wake = Pause(o, call[t].attempt)]
    /\ UNCHANGED <<level, stale, debt>>

\* The caller gives up at any await (wait_for, shutdown): nothing is recorded.
Cancel(t) ==
    /\ call[t].pc # "idle"
    /\ Ends(t)
    /\ UNCHANGED <<level, stale, failures, opened, debt, burned>>

\* Time passes.  A task whose sleep is over may be late in taking its turn.
Tick ==
    /\ stale' = Least(stale + 1, Full)
    /\ opened' = IF opened = None THEN None ELSE Least(opened + 1, Reset)
    /\ call' = [t \in Task |-> [call[t] EXCEPT !.wake = IF @ = 0 THEN 0 ELSE @ - 1]]
    /\ debt' = IF debt = 0 THEN 0 ELSE debt - 1
    /\ UNCHANGED <<level, failures, burned>>

Next ==
    \/ \E t \in Task : Begin(t) \/ Wake(t) \/ Retry(t) \/ Cancel(t)
    \/ \E t \in Task, o \in Outcome : Reply(t, o)
    \/ Tick

Spec == Init /\ [][Next]_vars

\* Time passes, and nothing else is promised: no task need run, no answer need come.
FairSpec == Spec /\ WF_vars(Tick)

----------------------------------------------------------------------------

\* The vendor's rate limit: over every span of s ticks the tasks together send at
\* most Capacity + s / Period requests, however late each refill is booked and
\* whoever wakes first.  A bucket that leaks one tick per tick never holds more
\* than Full exactly when every span keeps that bound (TokenBucket).
RateKept == debt <= Full

\* What an open breaker can still cost.  It is asked once per call, so the calls that
\* were under way go on with their retries, and these renew the cool-down; but no task
\* sends more than one call's attempts, and the one that opened it sends fewer.
BurnBounded ==
    Refusing => /\ \A t \in Task : burned[t] <= MaxAttempts
                /\ \E t \in Task : burned[t] < MaxAttempts

\* An open breaker lets a call through again, however often the calls that were under way
\* fail and renew its cool-down, and even if every request fails: none of them may retry
\* for ever, and no call joins them.  How many calls go through then is another question:
\* the code has no probe of its own, so all that ask before the next failure do.
BreakerLetsGo == Refusing ~> ~ Refusing
=============================================================================
