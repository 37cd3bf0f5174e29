------------------------- MODULE VendorClientProofs -------------------------
(***************************************************************************)
(* Proofs about VendorClient, for any number of tasks and every setting.   *)
(***************************************************************************)
EXTENDS VendorClient, TLAPS

\* The bucket of the code and the leaking bucket of RateKept are complementary.
Bucket == debt + Refilled = Full

\* A call under way has made an attempt, and one that backs off has another left.
Shape ==
    \A t \in Task :
        /\ call[t].pc # "idle" => call[t].attempt >= 1
        /\ call[t].pc = "backoff" => call[t].attempt < MaxAttempts

\* Requests the call of a task may still send.
Left(t) ==
    IF call[t].pc = "idle" THEN 0
    ELSE IF call[t].pc = "acquiring" THEN MaxAttempts - call[t].attempt + 1
    ELSE MaxAttempts - call[t].attempt

\* What a task has sent since the opening and may still send fits one call.
Burn ==
    Refusing => /\ \A t \in Task : burned[t] + Left(t) <= MaxAttempts
                /\ \E t \in Task : burned[t] + Left(t) < MaxAttempts

IInv == TypeOK /\ debt >= 0 /\ Bucket /\ Shape /\ Burn

\* A full bucket holds a natural number of ticks.
LEMMA FullNat == Full \in Nat
  <1>1. Capacity \in Nat /\ Period \in Nat
    BY ClientAssumption
  <1> QED BY <1>1 DEF Full

\* The constants are positive and None is no age.
LEMMA Settings ==
    /\ Capacity \in Nat \ {0} /\ Period \in Nat \ {0} /\ Threshold \in Nat \ {0}
    /\ Reset \in Nat \ {0} /\ MaxAttempts \in Nat \ {0} /\ None \notin Nat
  BY ClientAssumption

----------------------------------------------------------------------------

LEMMA InitHolds == Init => IInv
  <1> SUFFICES ASSUME Init PROVE IInv
    OBVIOUS
  <1> USE Settings, FullNat DEF Init, Idle
  <1> HIDE DEF Full
  <1>1. TypeOK
    BY DEF TypeOK
  <1>2. debt >= 0 /\ Bucket
    BY DEF Bucket, Refilled, Least
  <1>3. Shape
    BY DEF Shape
  <1>4. Burn
    BY DEF Burn, Refusing
  <1> QED BY <1>1, <1>2, <1>3, <1>4 DEF IInv

\* One try at the bucket, for a task that is let in or whose sleep is over.
LEMMA AcquireKeeps ==
    ASSUME IInv, NEW t \in Task, NEW k \in 1..MaxAttempts, Acquire(t, k),
           \/ ~ Refusing
           \/ call[t].pc = "acquiring" /\ k = call[t].attempt
           \/ call[t].pc = "backoff" /\ k = call[t].attempt + 1
    PROVE  IInv'
  <1> USE Settings, FullNat
  <1> HIDE DEF Full
  <1>1. TypeOK /\ debt >= 0 /\ Bucket /\ Shape /\ Burn
    BY DEF IInv
  <1>2. /\ failures' = failures /\ opened' = opened
        /\ stale' = 0
    BY DEF Acquire
  <1>3. Refusing' <=> Refusing
    BY <1>2 DEF Refusing
  <1>4. Refilled \in 0..Full
    BY <1>1 DEF TypeOK, Refilled, Least
  <1>5. CASE Refilled >= Period
    <2>1. /\ level' = Refilled - Period /\ debt' = debt + Period
          /\ call' = [call EXCEPT ![t] = [pc |-> "sent", attempt |-> k, wake |-> 0]]
          /\ burned' = IF Refusing THEN [burned EXCEPT ![t] = @ + 1] ELSE burned
      BY <1>4, <1>5 DEF Acquire
    <2>2. burned' \in [Task -> Nat]
      <3>1. burned \in [Task -> Nat]
        BY <1>1 DEF TypeOK
      <3>2. burned[t] + 1 \in Nat
        BY <3>1
      <3> QED BY <2>1, <3>1, <3>2
    <2>3. TypeOK'
      <3>1. level' \in 0..Full
        BY <1>4, <1>5, <2>1
      <3>2. debt' \in Int
        BY <1>1, <2>1 DEF TypeOK
      <3> QED BY <1>1, <1>2, <2>1, <2>2, <3>1, <3>2 DEF TypeOK
    <2>4. debt' >= 0
      BY <1>1, <2>1 DEF TypeOK
    <2>5. Bucket'
      BY <1>1, <1>2, <1>4, <1>5, <2>1 DEF Bucket, Refilled, Least, TypeOK
    <2>6. Shape'
      BY <1>1, <2>1 DEF Shape, TypeOK
    <2>7. Burn'
      <3> SUFFICES ASSUME Refusing
                   PROVE  /\ \A u \in Task : burned'[u] + Left(u)' <= MaxAttempts
                          /\ \E u \in Task : burned'[u] + Left(u)' < MaxAttempts
        BY <1>3 DEF Burn
      <3>1. \A u \in Task : u # t => burned'[u] = burned[u] /\ call'[u] = call[u]
        BY <1>1, <2>1 DEF TypeOK
      <3>2. burned'[t] = burned[t] + 1 /\ Left(t)' = MaxAttempts - k
        BY <1>1, <2>1 DEF TypeOK, Left
      <3>3. Left(t) = MaxAttempts - k + 1
        BY <1>1 DEF TypeOK, Left
      <3>4. \A u \in Task : burned'[u] + Left(u)' = burned[u] + Left(u)
        <4> TAKE u \in Task
        <4>1. CASE u = t
          BY <1>1, <3>2, <3>3, <4>1 DEF TypeOK
        <4>2. CASE u # t
          BY <3>1, <4>2 DEF Left
        <4> QED BY <4>1, <4>2
      <3> QED BY <1>1, <3>4 DEF Burn
    <2> QED BY <2>3, <2>4, <2>5, <2>6, <2>7 DEF IInv
  <1>6. CASE ~ (Refilled >= Period)
    <2>1. /\ level' = Refilled /\ debt' = debt /\ burned' = burned
          /\ call' = [call EXCEPT ![t] =
                [pc |-> "acquiring", attempt |-> k, wake |-> Period - Refilled]]
      BY <1>4, <1>6 DEF Acquire
    <2>2. Period - Refilled \in Nat
      BY <1>4, <1>6
    <2>3. TypeOK'
      BY <1>1, <1>2, <1>4, <2>1, <2>2 DEF TypeOK
    <2>4. debt' >= 0 /\ Bucket'
      BY <1>1, <1>2, <1>4, <2>1 DEF Bucket, Refilled, Least, TypeOK
    <2>5. Shape'
      BY <1>1, <2>1 DEF Shape, TypeOK
    <2>6. Burn'
      <3> SUFFICES ASSUME Refusing
                   PROVE  /\ \A u \in Task : burned'[u] + Left(u)' <= MaxAttempts
                          /\ \E u \in Task : burned'[u] + Left(u)' < MaxAttempts
        BY <1>3 DEF Burn
      <3>1. \A u \in Task : u # t => call'[u] = call[u]
        BY <1>1, <2>1 DEF TypeOK
      <3>2. Left(t)' = MaxAttempts - k + 1
        BY <1>1, <2>1 DEF TypeOK, Left
      <3>3. Left(t) = MaxAttempts - k + 1
        BY <1>1 DEF TypeOK, Left
      <3>4. \A u \in Task : Left(u)' = Left(u)
        BY <3>1, <3>2, <3>3 DEF Left
      <3> QED BY <1>1, <2>1, <3>4 DEF Burn
    <2> QED BY <2>3, <2>4, <2>5, <2>6 DEF IInv
  <1> QED BY <1>5, <1>6

\* A call that ends where the breaker is left alone.
LEMMA EndKeeps ==
    ASSUME IInv, NEW t \in Task, Ends(t),
           UNCHANGED <<level, stale, failures, opened, debt, burned>>
    PROVE  IInv'
  <1> USE Settings
  <1>1. TypeOK /\ debt >= 0 /\ Bucket /\ Shape /\ Burn
    BY DEF IInv
  <1>2. call' = [call EXCEPT ![t] = Idle]
    BY DEF Ends
  <1>3. TypeOK'
    BY <1>1, <1>2 DEF TypeOK, Idle
  <1>4. (debt >= 0)' /\ Bucket'
    BY <1>1 DEF Bucket, Refilled
  <1>5. Shape'
    BY <1>1, <1>2 DEF Shape, Idle, TypeOK
  <1>6. Burn'
    <2> SUFFICES ASSUME Refusing
                 PROVE  /\ \A u \in Task : burned[u] + Left(u)' <= MaxAttempts
                        /\ \E u \in Task : burned[u] + Left(u)' < MaxAttempts
      BY DEF Burn, Refusing
    <2>1. \A u \in Task : Left(u) \in Nat /\ burned[u] \in Nat
      BY <1>1 DEF TypeOK, Left
    <2>2. \A u \in Task : Left(u)' \in Nat /\ Left(u)' <= Left(u)
      <3> TAKE u \in Task
      <3>1. CASE u = t
        BY <1>1, <1>2, <2>1, <3>1 DEF TypeOK, Left, Idle
      <3>2. CASE u # t
        BY <1>1, <1>2, <2>1, <3>2 DEF TypeOK, Left
      <3> QED BY <3>1, <3>2
    <2> QED BY <1>1, <2>1, <2>2 DEF Burn
  <1> QED BY <1>3, <1>4, <1>5, <1>6 DEF IInv

\* A success closes the breaker, whoever brings it.
LEMMA SuccessKeeps ==
    ASSUME IInv, NEW t \in Task, RecordSuccess, Ends(t), UNCHANGED <<level, stale, debt>>
    PROVE  IInv'
  <1> USE Settings
  <1>1. TypeOK /\ debt >= 0 /\ Bucket /\ Shape /\ Burn
    BY DEF IInv
  <1>2. /\ call' = [call EXCEPT ![t] = Idle]
        /\ failures' = 0 /\ opened' = None /\ burned' = burned
    BY DEF Ends, RecordSuccess
  <1>3. TypeOK'
    BY <1>1, <1>2 DEF TypeOK, Idle
  <1>4. (debt >= 0)' /\ Bucket'
    BY <1>1 DEF Bucket, Refilled
  <1>5. Shape'
    BY <1>1, <1>2 DEF Shape, Idle, TypeOK
  <1>6. Burn'
    BY <1>2 DEF Burn, Refusing
  <1> QED BY <1>3, <1>4, <1>5, <1>6 DEF IInv

\* A failure counts, and opens or renews the breaker.
LEMMA FailureKeeps ==
    ASSUME IInv, NEW t \in Task, NEW o \in {Broken, Limited},
           call[t].pc = "sent", RecordFailure, UNCHANGED <<level, stale, debt>>,
           \/ Ends(t)
           \/ /\ call[t].attempt < MaxAttempts
              /\ call' = [call EXCEPT ![t].pc = "backoff",
                                      ![t].wake = Pause(o, call[t].attempt)]
    PROVE  IInv'
  <1> USE Settings
  <1>1. TypeOK /\ debt >= 0 /\ Bucket /\ Shape /\ Burn
    BY DEF IInv
  <1>2. /\ failures' = Least(failures + 1, Threshold)
        /\ opened' = IF failures + 1 >= Threshold THEN 0 ELSE opened
        /\ burned' = IF Refusing THEN burned ELSE [u \in Task |-> 0]
    BY DEF RecordFailure
  <1> DEFINE c == call'[t]
  <1>3. /\ call' = [call EXCEPT ![t] = c]
        /\ \/ c = Idle
           \/ /\ call[t].attempt < MaxAttempts
              /\ c = [call[t] EXCEPT !.pc = "backoff", !.wake = Pause(o, call[t].attempt)]
    BY <1>1 DEF TypeOK, Ends
  <1>4. /\ c \in [pc : {"idle", "acquiring", "sent", "backoff"},
                  attempt : 0..MaxAttempts, wake : Nat]
        /\ c.pc # "idle" => c.attempt >= 1 /\ c.attempt = call[t].attempt
        /\ c.pc = "backoff" => c.attempt < MaxAttempts
        /\ c.pc \in {"idle", "backoff"}
    <2>1. CASE c = Idle
      BY <2>1 DEF Idle
    <2>2. CASE /\ call[t].attempt < MaxAttempts
               /\ c = [call[t] EXCEPT !.pc = "backoff", !.wake = Pause(o, call[t].attempt)]
      <3>1. call[t].attempt \in 1..MaxAttempts
        BY <1>1 DEF TypeOK, Shape
      <3>2. Pause(o, call[t].attempt) \in Nat
        BY <3>1, PauseAssumption
      <3>3. call[t] \in [pc : {"idle", "acquiring", "sent", "backoff"},
                         attempt : 0..MaxAttempts, wake : Nat]
        BY <1>1 DEF TypeOK
      <3> DEFINE k == call[t].attempt
                 p == Pause(o, k)
      <3>4. c = [pc |-> "backoff", attempt |-> k, wake |-> p] /\ k < MaxAttempts
        BY <2>2, <3>3
      <3>5. k \in 1..MaxAttempts /\ p \in Nat
        BY <3>1, <3>2
      <3> HIDE DEF p
      <3> QED BY <3>4, <3>5
    <2> QED BY <1>3, <2>1, <2>2
  <1> HIDE DEF c
  <1>5. burned' \in [Task -> Nat]
    BY <1>1, <1>2 DEF TypeOK
  <1>6. TypeOK'
    <2>1. failures' \in 0..Threshold
      BY <1>1, <1>2 DEF TypeOK, Least
    <2>2. opened' \in 0..Reset \union {None}
      BY <1>1, <1>2 DEF TypeOK
    <2> QED BY <1>1, <1>3, <1>4, <1>5, <2>1, <2>2 DEF TypeOK
  <1>7. (debt >= 0)' /\ Bucket'
    BY <1>1 DEF Bucket, Refilled
  <1>8. Shape'
    BY <1>1, <1>3, <1>4 DEF Shape, TypeOK
  <1>9. Burn'
    <2> SUFFICES /\ \A u \in Task : burned'[u] + Left(u)' <= MaxAttempts
                 /\ \E u \in Task : burned'[u] + Left(u)' < MaxAttempts
      BY DEF Burn
    <2>1. \A u \in Task : Left(u) \in 0..MaxAttempts /\ burned[u] \in Nat
      BY <1>1 DEF TypeOK, Shape, Left
    <2>2. Left(t)' \in Nat /\ Left(t)' <= MaxAttempts - 1 /\ Left(t)' <= Left(t)
      BY <1>1, <1>3, <1>4 DEF TypeOK, Shape, Left
    <2>3. \A u \in Task : u # t => Left(u)' = Left(u)
      BY <1>1, <1>3 DEF TypeOK, Left
    <2>4. \A u \in Task : Left(u)' \in Nat /\ Left(u)' <= Left(u)
      BY <2>1, <2>2, <2>3
    <2>5. CASE Refusing
      BY <1>1, <1>2, <2>1, <2>4, <2>5 DEF Burn
    <2>6. CASE ~ Refusing
      <3>1. \A u \in Task : burned'[u] = 0
        BY <1>2, <2>6
      <3> QED BY <2>1, <2>2, <2>4, <3>1
    <2> QED BY <2>5, <2>6
  <1> QED BY <1>6, <1>7, <1>8, <1>9 DEF IInv

\* A tick refills what it leaks, and ages the breaker and the sleeps.
LEMMA TickKeeps == IInv /\ Tick => IInv'
  <1> SUFFICES ASSUME IInv, Tick PROVE IInv'
    OBVIOUS
  <1> USE Settings, FullNat
  <1> HIDE DEF Full
  <1>1. TypeOK /\ debt >= 0 /\ Bucket /\ Shape /\ Burn
    BY DEF IInv
  <1>2. /\ stale' = Least(stale + 1, Full) /\ level' = level
        /\ opened' = IF opened = None THEN None ELSE Least(opened + 1, Reset)
        /\ debt' = IF debt = 0 THEN 0 ELSE debt - 1
        /\ failures' = failures /\ burned' = burned
    BY DEF Tick
  <1>3. call' = [t \in Task |-> [call[t] EXCEPT !.wake = IF @ = 0 THEN 0 ELSE @ - 1]]
    BY DEF Tick
  <1>4. \A t \in Task : /\ call'[t].pc = call[t].pc /\ call'[t].attempt = call[t].attempt
                        /\ call'[t] \in [pc : {"idle", "acquiring", "sent", "backoff"},
                                         attempt : 0..MaxAttempts, wake : Nat]
    <2> TAKE t \in Task
    <2>1. call[t] \in [pc : {"idle", "acquiring", "sent", "backoff"},
                       attempt : 0..MaxAttempts, wake : Nat]
      BY <1>1 DEF TypeOK
    <2>2. (IF call[t].wake = 0 THEN 0 ELSE call[t].wake - 1) \in Nat
      BY <2>1
    <2> QED BY <1>3, <2>1, <2>2
  <1>5. TypeOK'
    <2>1. call' \in [Task -> [pc : {"idle", "acquiring", "sent", "backoff"},
                              attempt : 0..MaxAttempts, wake : Nat]]
      BY <1>3, <1>4
    <2>2. /\ stale' \in 0..Full /\ opened' \in 0..Reset \union {None}
          /\ debt' \in Int
      BY <1>1, <1>2 DEF TypeOK, Least
    <2> QED BY <1>1, <1>2, <2>1, <2>2 DEF TypeOK
  <1>6. debt' >= 0
    BY <1>1, <1>2 DEF TypeOK
  <1>7. Bucket'
    BY <1>1, <1>2 DEF Bucket, Refilled, Least, TypeOK
  <1>8. Shape'
    BY <1>1, <1>4 DEF Shape
  <1>9. Burn'
    <2>1. Refusing' => Refusing
      BY <1>1, <1>2 DEF Refusing, Least, TypeOK
    <2>2. \A t \in Task : Left(t)' = Left(t)
      BY <1>4 DEF Left
    <2> QED BY <1>1, <1>2, <2>1, <2>2 DEF Burn
  <1> QED BY <1>5, <1>6, <1>7, <1>8, <1>9 DEF IInv

----------------------------------------------------------------------------

LEMMA NextKeeps == IInv /\ [Next]_vars => IInv'
  <1> SUFFICES ASSUME IInv, [Next]_vars PROVE IInv'
    OBVIOUS
  <1>1. TypeOK /\ Shape
    BY DEF IInv
  <1>2. ASSUME NEW t \in Task, Begin(t) PROVE IInv'
    <2>1. 1 \in 1..MaxAttempts
      BY Settings
    <2> QED BY <1>2, <2>1, AcquireKeeps DEF Begin
  <1>3. ASSUME NEW t \in Task, Wake(t) PROVE IInv'
    <2>1. call[t].attempt \in 1..MaxAttempts
      BY <1>1, <1>3, Settings DEF Wake, TypeOK, Shape
    <2> QED BY <1>3, <2>1, AcquireKeeps DEF Wake
  <1>4. ASSUME NEW t \in Task, Retry(t) PROVE IInv'
    <2>1. call[t].attempt + 1 \in 1..MaxAttempts
      BY <1>1, <1>4, Settings DEF Retry, TypeOK, Shape
    <2> QED BY <1>4, <2>1, AcquireKeeps DEF Retry
  <1>5. ASSUME NEW t \in Task, Cancel(t) PROVE IInv'
    BY <1>5, EndKeeps DEF Cancel
  <1>6. ASSUME NEW t \in Task, NEW o \in Outcome, Reply(t, o) PROVE IInv'
    <2>1. call[t].pc = "sent" /\ UNCHANGED <<level, stale, debt>>
      BY <1>6 DEF Reply
    <2>2. CASE RecordSuccess /\ Ends(t)
      BY <2>1, <2>2, SuccessKeeps
    <2>3. CASE Ends(t) /\ UNCHANGED <<failures, opened, burned>>
      BY <2>1, <2>3, EndKeeps
    <2>4. CASE RecordFailure /\ Ends(t)
      <3>1. Broken \in {Broken, Limited}
        OBVIOUS
      <3> QED BY <2>1, <2>4, <3>1, FailureKeeps
    <2>5. CASE /\ o \in {Broken, Limited} /\ RecordFailure
               /\ call[t].attempt < MaxAttempts
               /\ call' = [call EXCEPT ![t].pc = "backoff",
                                       ![t].wake = Pause(o, call[t].attempt)]
      BY <2>1, <2>5, FailureKeeps
    <2> QED BY <1>6, <2>2, <2>3, <2>4, <2>5 DEF Reply
  <1>7. CASE Tick
    BY <1>7, TickKeeps
  <1>8. CASE UNCHANGED vars
    BY <1>8 DEF vars, IInv, TypeOK, Bucket, Refilled, Shape, Burn, Refusing, Left
  <1> QED BY <1>2, <1>3, <1>4, <1>5, <1>6, <1>7, <1>8 DEF Next

LEMMA Invariance == Spec => []IInv
  BY InitHolds, NextKeeps, PTL DEF Spec

\* Every variable keeps its type.
THEOREM TypeCorrect == Spec => []TypeOK
  BY Invariance, PTL DEF IInv

\* The tasks together never send faster than the bucket allows, over any span.
THEOREM RateKeptHolds == Spec => []RateKept
  <1>1. IInv => RateKept
    <2> SUFFICES ASSUME IInv PROVE RateKept
      OBVIOUS
    <2>1. Refilled \in Nat
      BY FullNat DEF IInv, TypeOK, Refilled, Least
    <2> QED BY <2>1, FullNat DEF IInv, TypeOK, Bucket, RateKept
  <1> QED BY <1>1, Invariance, PTL

\* While the breaker refuses, no task sends more than the attempts of one call.
THEOREM BurnBoundedHolds == Spec => []BurnBounded
  <1>1. IInv => BurnBounded
    <2> SUFFICES ASSUME IInv PROVE BurnBounded
      OBVIOUS
    <2>1. \A t \in Task : Left(t) \in Nat /\ burned[t] \in Nat
      BY Settings DEF IInv, TypeOK, Left
    <2> QED BY <2>1, Settings DEF IInv, Burn, BurnBounded
  <1> QED BY <1>1, Invariance, PTL
=============================================================================
