---------------------------- MODULE FusionProofs ----------------------------
(***************************************************************************)
(* Proofs about Fusion, for every set of sources, keys and event times and *)
(* every window, timeout and lateness.                                     *)
(*                                                                         *)
(* Why buckets of one key are disjoint: an older bucket has refused every  *)
(* print of a newer one (first fit), and a print it refuses is a window    *)
(* away from its far end, while no bucket is a window wide.  An emitted    *)
(* bucket refuses every later print because the global watermark, which    *)
(* never goes back, has passed its deadline.                               *)
(***************************************************************************)
EXTENDS Fusion, TLAPS

\* The queue holds, per source, prints in sending order and then at most one "done".
QueueInv ==
  /\ \A i \in 1..Len(queue) :
       queue[i].kind = "event" =>
         /\ ~done[queue[i].src]
         /\ queue[i].print.src = queue[i].src
         /\ queue[i].print.n <= sent[queue[i].src]
  /\ \A i \in 1..Len(queue) : queue[i].kind = "done" => ended[queue[i].src] /\ ~done[queue[i].src]
  /\ \A i, j \in 1..Len(queue) :
       i < j /\ queue[i].src = queue[j].src =>
         /\ queue[i].kind = "event"
         /\ queue[j].kind = "event" => queue[i].print.n < queue[j].print.n
  /\ \A s \in Source : done[s] => ended[s]

\* Prints taken off the queue precede those of their source still in it.
TakenInv ==
  \A p \in dropped \union Placed :
    /\ p.n <= sent[p.src]
    /\ \A i \in 1..Len(queue) :
         queue[i].kind = "event" /\ queue[i].src = p.src => p.n < queue[i].print.n

SentInv ==
  \A s \in Source, n \in Nat \ {0} :
    n <= sent[s] => \E p \in Queued \union dropped \union Placed : p.src = s /\ p.n = n

\* The newer bucket c keeps a window's distance from the far end of the older b.
Apart(b, c) == c.first >= b.first + Window \/ c.last <= b.last - Window

Narrow(b) ==
  /\ \A p \in b.prints : b.first <= p.ts /\ p.ts <= b.last
  /\ b.first <= b.last /\ b.last - b.first < Window

BucketInv ==
  /\ \A b \in Buckets : Narrow(b)
  /\ \A b, c \in Buckets : b # c => b.id # c.id
  /\ \A b, c \in Buckets : b.key = c.key /\ b.id < c.id => Apart(b, c)
  /\ open \intersect out = {}

PrintInv ==
  /\ dropped \intersect Placed = {}
  /\ \A b, c \in Buckets : b # c => b.prints \intersect c.prints = {}

EmittedInv == \A b \in out : AllDone(done) \/ Reached(b.first + Window, wm, done)

IInv ==
  /\ TypeOK /\ QueueInv /\ TakenInv /\ SentInv /\ BucketInv /\ PrintInv /\ EmittedInv
  /\ NothingOverdue
  /\ drained => AllDone(done)

-----------------------------------------------------------------------------
LEMMA ExtendedType ==
  ASSUME NEW b \in Bucket, NEW p \in RawPrint
  PROVE  /\ Extended(b, p) \in Bucket
         /\ Extended(b, p).id = b.id /\ Extended(b, p).key = b.key
         /\ Extended(b, p).prints = b.prints \union {p}
         /\ Extended(b, p).first = Earlier(b.first, p.ts)
         /\ Extended(b, p).last = Later(b.last, p.ts)
<1>1. p.ts \in Int
  BY TimesAssumption DEF RawPrint
<1>2. /\ Extended(b, p).id = b.id /\ Extended(b, p).key = b.key
      /\ Extended(b, p).prints = b.prints \union {p}
      /\ Extended(b, p).first = Earlier(b.first, p.ts)
      /\ Extended(b, p).last = Later(b.last, p.ts)
  BY DEF Extended, Bucket
<1>3. Earlier(b.first, p.ts) \in Int /\ Later(b.last, p.ts) \in Int
  BY <1>1 DEF Earlier, Later, Bucket
<1>4. Extended(b, p) \in Bucket
  BY <1>3 DEF Extended, Bucket
<1> QED BY <1>2, <1>4

LEMMA NewBucketType ==
  ASSUME nextId \in Nat, NEW p \in RawPrint
  PROVE  NewBucket(p) \in Bucket
BY TimesAssumption DEF NewBucket, Bucket, RawPrint

(* The head of the queue, by kind. *)
LEMMA HeadType ==
  ASSUME queue \in Seq(Message), queue # <<>>
  PROVE  /\ Head(queue) = queue[1] /\ 1 \in 1..Len(queue)
         /\ Head(queue) \in Message /\ Head(queue).src \in Source
         /\ Head(queue).kind = "event" => Head(queue).print \in RawPrint
         /\ Tail(queue) \in Seq(Message)
         /\ Len(Tail(queue)) = Len(queue) - 1
         /\ \A i \in 1..Len(Tail(queue)) : i + 1 \in 1..Len(queue) /\ Tail(queue)[i] = queue[i + 1]
BY DEF Message

(* Flushing moves buckets from open to out and changes none. *)
LEMMA FlushMoves ==
  ASSUME NEW B, NEW w, NEW d, Flush(B, w, d)
  PROVE  /\ open' \union out' = B \union out
         /\ open' \subseteq B /\ out \subseteq out'
         /\ \A b \in out' : b \in out \/ Reached(b.first + Window, w, d)
         /\ \A b \in open' : ~Reached(b.first + Window, w, d)
         /\ B \intersect out = {} => open' \intersect out' = {}
BY DEF Flush, Closed

-----------------------------------------------------------------------------
LEMMA InitIInv == Init => IInv
<1> SUFFICES ASSUME Init PROVE IInv
  OBVIOUS
<1>1. TypeOK
  <2>1. queue \in Seq(Message)
    BY DEF Init
  <2>2. /\ done \in [Source -> BOOLEAN] /\ ended \in [Source -> BOOLEAN]
        /\ wm \in [Source -> Int \union {None}]
        /\ lastEvent \in [Source -> Nat] /\ sent \in [Source -> Nat]
    BY DEF Init
  <2> QED BY <2>1, <2>2 DEF Init, TypeOK
<1>2. QueueInv /\ TakenInv
  BY DEF Init, QueueInv, TakenInv, Placed, Buckets
<1>3. SentInv
  BY DEF Init, SentInv
<1>4. BucketInv /\ PrintInv /\ EmittedInv /\ NothingOverdue /\ (drained => AllDone(done))
  BY DEF Init, BucketInv, PrintInv, EmittedInv, NothingOverdue, Placed, Buckets
<1> QED BY <1>1, <1>2, <1>3, <1>4 DEF IInv

LEMMA AcceptType ==
  ASSUME TypeOK, Accept
  PROVE  TypeOK'
<1> DEFINE p == Head(queue).print
<1> DEFINE s == Head(queue).src
<1>1. p \in RawPrint /\ s \in Source /\ Tail(queue) \in Seq(Message) /\ p.ts \in Int
  BY HeadType, TimesAssumption DEF Accept, Take, TypeOK, RawPrint
<1>2. wm' \in [Source -> Int \union {None}] /\ lastEvent' \in [Source -> Nat]
  BY <1>1, TimesAssumption DEF Accept, TypeOK, Later
<1>3. /\ nextId' \in Nat /\ open' \subseteq Bucket /\ out' \subseteq Bucket
      /\ \A b \in open' \union out' : b.id < nextId'
  <2>1. ASSUME NEW b \in open, Flush((open \ {b}) \union {Extended(b, p)}, wm', done), UNCHANGED nextId
        PROVE  <1>3
    <3>1. b \in Bucket /\ Extended(b, p) \in Bucket /\ Extended(b, p).id = b.id
      BY <1>1, <2>1, ExtendedType DEF TypeOK
    <3>2. open' \union out' = (open \ {b}) \union {Extended(b, p)} \union out
      BY <2>1, FlushMoves
    <3> QED BY <2>1, <3>1, <3>2 DEF TypeOK
  <2>2. ASSUME Flush(open \union {NewBucket(p)}, wm', done), nextId' = nextId + 1
        PROVE  <1>3
    <3>1. NewBucket(p) \in Bucket /\ NewBucket(p).id = nextId
      BY <1>1, NewBucketType DEF TypeOK, NewBucket
    <3>2. open' \union out' = open \union {NewBucket(p)} \union out
      BY <2>2, FlushMoves
    <3>3. nextId \in Nat /\ \A b \in open \union out : b.id \in Nat /\ b.id < nextId
      BY DEF TypeOK, Bucket
    <3>4. \A b \in open' \union out' : b.id < nextId'
      BY <2>2, <3>1, <3>2, <3>3
    <3> QED BY <2>2, <3>1, <3>2, <3>4 DEF TypeOK
  <2> QED BY <2>1, <2>2 DEF Accept
<1> QED BY <1>1, <1>2, <1>3 DEF Accept, Take, TypeOK, feeders

LEMMA NextType == TypeOK /\ [Next]_vars => TypeOK'
<1> SUFFICES ASSUME TypeOK, [Next]_vars PROVE TypeOK'
  OBVIOUS
<1>1. ASSUME NEW s \in Source, Emit(s)
      PROVE  TypeOK'
  <2>1. PICK k \in Key, t \in Times :
          queue' = Append(queue, [kind |-> "event", src |-> s,
                                  print |-> [src |-> s, n |-> sent[s] + 1, key |-> k, ts |-> t]])
    BY <1>1 DEF Emit
  <2>2. [kind |-> "event", src |-> s,
         print |-> [src |-> s, n |-> sent[s] + 1, key |-> k, ts |-> t]] \in Message
    BY DEF Message, RawPrint, TypeOK
  <2>3. queue' \in Seq(Message)
    BY <2>1, <2>2 DEF TypeOK
  <2> QED BY <1>1, <2>3 DEF Emit, TypeOK, marks
<1>2. ASSUME NEW s \in Source, End(s)
      PROVE  TypeOK'
  <2>1. [kind |-> "done", src |-> s] \in Message
    BY DEF Message
  <2> QED BY <1>2, <2>1 DEF End, TypeOK, marks
<1>3. CASE DropLate
  BY <1>3, HeadType DEF DropLate, Take, TypeOK, feeders, marks
<1>4. CASE Accept
  BY <1>4, AcceptType
<1>5. CASE TakeDone
  <2>1. done' \in [Source -> BOOLEAN] /\ queue' \in Seq(Message)
    BY <1>5, HeadType DEF TakeDone, Take, TypeOK
  <2>2. open' \union out' = open \union out
    BY <1>5, FlushMoves DEF TakeDone
  <2> QED BY <1>5, <2>1, <2>2 DEF TakeDone, Take, TypeOK, feeders
<1>6. CASE StallCheck
  <2>1. wm' \in [Source -> Int \union {None}]
    BY <1>6, ParamsAssumption DEF StallCheck, TypeOK, Later
  <2>2. lastEvent' \in [Source -> Nat]
    BY <1>6 DEF StallCheck, TypeOK
  <2>3. open' \union out' = open \union out
    BY <1>6, FlushMoves DEF StallCheck
  <2> QED BY <1>6, <2>1, <2>2, <2>3 DEF StallCheck, TypeOK, feeders
<1>7. CASE Drain
  BY <1>7 DEF Drain, TypeOK, feeders, marks
<1>8. CASE Tick
  BY <1>8 DEF Tick, TypeOK, feeders, marks
<1>9. CASE UNCHANGED vars
  BY <1>9 DEF vars, TypeOK
<1> QED BY <1>1, <1>2, <1>3, <1>4, <1>5, <1>6, <1>7, <1>8, <1>9 DEF Next

(* Type correctness, for every instance. *)
THEOREM TypeCorrect == Spec => []TypeOK
<1>1. Init => TypeOK
  BY InitIInv DEF IInv
<1> QED BY <1>1, NextType, PTL DEF Spec

-----------------------------------------------------------------------------
(* Watermarks *)

WmGrows ==
  \A s \in Source :
    /\ done[s] => done'[s]
    /\ wm[s] # None => wm'[s] # None /\ wm[s] <= wm'[s]

(* No step takes a watermark back or makes a finished source active again. *)
LEMMA NextGrows ==
  ASSUME TypeOK, Next
  PROVE  WmGrows
<1>1. ASSUME UNCHANGED <<wm, done>>
      PROVE  WmGrows
  BY <1>1 DEF WmGrows, TypeOK
<1>2. CASE Accept
  <2>1. Head(queue).print.ts \in Int
    BY <1>2, HeadType, TimesAssumption DEF Accept, Take, TypeOK, RawPrint
  <2>2. Head(queue).src \in Source
    BY <1>2, HeadType DEF Accept, Take, TypeOK
  <2>3. /\ done' = done
        /\ wm' = [wm EXCEPT ![Head(queue).src] =
                    IF @ = None THEN Head(queue).print.ts ELSE Later(@, Head(queue).print.ts)]
    BY <1>2 DEF Accept
  <2>4. ASSUME NEW s \in Source, wm[s] # None
        PROVE  wm'[s] # None /\ wm[s] <= wm'[s]
    <3>1. wm[s] \in Int /\ wm \in [Source -> Int \union {None}]
      BY <2>4 DEF TypeOK
    <3>2. CASE s = Head(queue).src
      <4>1. wm'[s] = Later(wm[s], Head(queue).print.ts)
        BY <2>3, <2>4, <3>1, <3>2
      <4> QED BY <2>1, <3>1, <4>1, TimesAssumption DEF Later
    <3>3. CASE s # Head(queue).src
      BY <2>3, <2>4, <3>1, <3>3
    <3> QED BY <3>2, <3>3
  <2> QED BY <2>3, <2>4 DEF WmGrows
<1>3. CASE TakeDone
  <2>1. wm' = wm /\ \A s \in Source : done[s] => done'[s]
    BY <1>3 DEF TakeDone, TypeOK
  <2>2. \A s \in Source : wm[s] # None => wm[s] <= wm[s]
    BY DEF TypeOK
  <2> QED BY <2>1, <2>2 DEF WmGrows
<1>4. CASE StallCheck
  <2>1. UNCHANGED done
    BY <1>4 DEF StallCheck
  <2>2. ASSUME NEW s \in Source, wm[s] # None
        PROVE  wm'[s] # None /\ wm[s] <= wm'[s]
    <3>1. wm[s] \in Int /\ now - Lateness \in Int
      BY <2>2, ParamsAssumption DEF TypeOK
    <3>2. wm'[s] = wm[s] \/ wm'[s] = Later(wm[s], now - Lateness)
      BY <1>4, <2>2 DEF StallCheck
    <3> QED BY <3>1, <3>2, TimesAssumption DEF Later
  <2> QED BY <2>1, <2>2 DEF WmGrows
<1>5. ASSUME NEW s \in Source, Emit(s) \/ End(s)
      PROVE  UNCHANGED <<wm, done>>
  BY <1>5 DEF Emit, End, marks
<1>6. DropLate \/ Drain \/ Tick => UNCHANGED <<wm, done>>
  BY DEF DropLate, Drain, Tick, marks
<1> QED BY <1>1, <1>2, <1>3, <1>4, <1>5, <1>6 DEF Next

LEMMA ReachedGrows ==
  ASSUME TypeOK, TypeOK', WmGrows, NEW t \in Int, Reached(t, wm, done)
  PROVE  Reached(t, wm', done') \/ AllDone(done')
BY TimesAssumption DEF WmGrows, Reached, TypeOK

(* The global watermark never goes back. *)
THEOREM WatermarkMonotoneHolds == Spec => WatermarkMonotone
<1>1. TypeOK /\ TypeOK' /\ [Next]_vars =>
        [\A t \in Times : Reached(t, wm, done) => Reached(t, wm', done') \/ AllDone(done')]_vars
  BY NextGrows, ReachedGrows, TimesAssumption
<1> QED BY <1>1, TypeCorrect, PTL DEF Spec, WatermarkMonotone

-----------------------------------------------------------------------------
(* Buckets and prints *)

(* Joining keeps a bucket below the window. *)
LEMMA NarrowJoin ==
  ASSUME NEW b \in Bucket, NEW p \in RawPrint, Narrow(b), Fits(b, p)
  PROVE  Narrow(Extended(b, p))
<1>1. p.ts \in Int /\ b.first \in Int /\ b.last \in Int /\ \A q \in b.prints : q.ts \in Int
  BY TimesAssumption DEF RawPrint, Bucket
<1> QED BY <1>1, ExtendedType, ParamsAssumption DEF Narrow, Fits, Earlier, Later

LEMMA NarrowNew ==
  ASSUME NEW p \in RawPrint
  PROVE  Narrow(NewBucket(p))
<1>1. p.ts \in Int
  BY TimesAssumption DEF RawPrint
<1>2. /\ NewBucket(p).prints = {p}
      /\ NewBucket(p).first = p.ts /\ NewBucket(p).last = p.ts
  BY DEF NewBucket
<1> QED BY <1>1, <1>2, ParamsAssumption DEF Narrow

(* The older of two buckets grows: what it kept away from stays as far. *)
LEMMA OlderJoins ==
  ASSUME NEW b \in Bucket, NEW c \in Bucket, NEW p \in RawPrint, Apart(b, c)
  PROVE  Apart(Extended(b, p), c)
<1>1. p.ts \in Int /\ b.first \in Int /\ b.last \in Int /\ c.first \in Int /\ c.last \in Int
  BY TimesAssumption DEF RawPrint, Bucket
<1> QED BY <1>1, ExtendedType, ParamsAssumption DEF Apart, Earlier, Later

(* The newer of two buckets takes a print the older one refused. *)
LEMMA NewerJoins ==
  ASSUME NEW b \in Bucket, NEW c \in Bucket, NEW p \in RawPrint, Narrow(b), Narrow(c),
         Apart(b, c), b.key = p.key, ~Fits(b, p), Fits(c, p)
  PROVE  Apart(b, Extended(c, p))
<1>1. p.ts \in Int /\ b.first \in Int /\ b.last \in Int /\ c.first \in Int /\ c.last \in Int
  BY TimesAssumption DEF RawPrint, Bucket
<1>2. p.ts >= b.first + Window \/ p.ts <= b.last - Window
  BY <1>1, ParamsAssumption DEF Fits, Narrow, Earlier, Later
<1> QED BY <1>1, <1>2, ExtendedType, ParamsAssumption DEF Apart, Narrow, Fits, Earlier, Later

LEMMA NewApart ==
  ASSUME NEW b \in Bucket, NEW p \in RawPrint, Narrow(b), b.key = p.key, ~Fits(b, p)
  PROVE  Apart(b, NewBucket(p))
<1>1. p.ts \in Int /\ b.first \in Int /\ b.last \in Int
  BY TimesAssumption DEF RawPrint, Bucket
<1> QED BY <1>1, ParamsAssumption DEF Fits, Narrow, Earlier, Later, Apart, NewBucket

(* An emitted bucket refuses every print that is accepted afterwards. *)
LEMMA EmittedRefuses ==
  ASSUME IInv, Accept, NEW b \in out
  PROVE  ~Fits(b, Head(queue).print)
<1> DEFINE p == Head(queue).print
<1>1. /\ p \in RawPrint /\ p.ts \in Int /\ Head(queue) = queue[1]
      /\ 1 \in 1..Len(queue) /\ queue[1].kind = "event" /\ queue[1].src \in Source
  BY HeadType, TimesAssumption DEF Accept, Take, IInv, TypeOK, RawPrint
<1>2. ~done[queue[1].src]
  BY <1>1 DEF IInv, QueueInv
<1>3. ~AllDone(done)
  BY <1>1, <1>2 DEF AllDone
<1>4. Reached(b.first + Window, wm, done)
  BY <1>3 DEF IInv, EmittedInv
<1>5. ~Passed(p.ts, wm, done)
  BY DEF Accept
<1>6. PICK s \in Source : ~done[s] /\ wm[s] # None /\ ~(p.ts < wm[s]) /\ b.first + Window <= wm[s]
  BY <1>3, <1>4, <1>5 DEF Reached, Passed
<1>7. /\ b.first \in Int /\ b.last \in Int /\ wm[s] \in Int
      /\ b.first <= b.last
  BY <1>6, TimesAssumption DEF IInv, TypeOK, Bucket, BucketInv, Buckets, Narrow
<1>8. p.ts >= b.first + Window
  BY <1>1, <1>6, <1>7, ParamsAssumption
<1> QED BY <1>1, <1>7, <1>8, ParamsAssumption DEF Fits, Earlier, Later

(* What an accepted print does to the buckets, before and after the flush. *)
LEMMA AcceptBuckets ==
  ASSUME IInv, Accept
  PROVE  LET p == Head(queue).print
         IN  /\ p \in RawPrint
             /\ \A c \in out : ~Fits(c, p)
             /\ \/ /\ \A c \in open : ~Fits(c, p)
                   /\ Buckets' = Buckets \union {NewBucket(p)}
                \/ \E b \in open :
                     /\ Fits(b, p)
                     /\ \A c \in open : Fits(c, p) => b.id <= c.id
                     /\ Buckets' = (Buckets \ {b}) \union {Extended(b, p)}
             /\ open' \intersect out' = {}
<1> DEFINE p == Head(queue).print
<1>1. p \in RawPrint
  BY HeadType DEF Accept, Take, IInv, TypeOK
<1>2. \A c \in out : ~Fits(c, p)
  BY EmittedRefuses
<1>3. open \intersect out = {} /\ \A b, c \in Buckets : b # c => b.id # c.id
  BY DEF IInv, BucketInv
<1>4. CASE \E b \in open :
             /\ Fits(b, p)
             /\ \A c \in open : Fits(c, p) => b.id <= c.id
             /\ Flush((open \ {b}) \union {Extended(b, p)}, wm', done)
  <2>1. PICK b \in open :
          /\ Fits(b, p)
          /\ \A c \in open : Fits(c, p) => b.id <= c.id
          /\ Flush((open \ {b}) \union {Extended(b, p)}, wm', done)
    BY <1>4
  <2>2. Extended(b, p).id = b.id
    BY <1>1, ExtendedType DEF IInv, TypeOK
  <2>3. Extended(b, p) \notin out
    BY <1>3, <2>2 DEF Buckets
  <2>4. Buckets' = (Buckets \ {b}) \union {Extended(b, p)}
    BY <1>3, <2>1, FlushMoves DEF Buckets
  <2>5. open' \intersect out' = {}
    BY <1>3, <2>1, <2>3, FlushMoves
  <2> QED BY <1>1, <1>2, <2>1, <2>4, <2>5
<1>5. CASE (\A b \in open : ~Fits(b, p)) /\ Flush(open \union {NewBucket(p)}, wm', done)
  <2>1. NewBucket(p).id = nextId
    BY DEF NewBucket
  <2>2. \A b \in out : b.id < nextId /\ b.id \in Nat /\ nextId \in Nat
    BY DEF IInv, TypeOK, Bucket
  <2>3. NewBucket(p) \notin out
    BY <2>1, <2>2
  <2>4. Buckets' = Buckets \union {NewBucket(p)}
    BY <1>5, FlushMoves DEF Buckets
  <2>5. open' \intersect out' = {}
    BY <1>3, <1>5, <2>3, FlushMoves
  <2> QED BY <1>1, <1>2, <1>5, <2>4, <2>5
<1> QED BY <1>4, <1>5 DEF Accept

LEMMA AcceptBucketInv ==
  ASSUME IInv, Accept
  PROVE  BucketInv'
<1> DEFINE p == Head(queue).print
<1>1. p \in RawPrint /\ (\A c \in out : ~Fits(c, p)) /\ open' \intersect out' = {}
  BY AcceptBuckets
<1>2. /\ \A b \in Buckets : Narrow(b) /\ b \in Bucket /\ b.id \in Nat /\ b.id < nextId
      /\ nextId \in Nat
      /\ \A b, c \in Buckets : b # c => b.id # c.id
      /\ \A b, c \in Buckets : b.key = c.key /\ b.id < c.id => Apart(b, c)
  BY DEF IInv, BucketInv, TypeOK, Buckets, Bucket
<1>3. ASSUME \A c \in open : ~Fits(c, p), Buckets' = Buckets \union {NewBucket(p)}
      PROVE  BucketInv'
  <2> DEFINE e == NewBucket(p)
  <2>1. e.id = nextId /\ e.key = p.key /\ Narrow(e)
    BY <1>1, NarrowNew DEF NewBucket
  <2>2. \A b \in Buckets : b.key = e.key => Apart(b, e)
    BY <1>1, <1>2, <1>3, <2>1, NewApart DEF Buckets
  <2>3. \A b \in Buckets : b.id < e.id
    BY <1>2, <2>1
  <2>4. \A b, c \in Buckets' : b # c => b.id # c.id
    BY <1>2, <1>3, <2>3
  <2>5. \A b, c \in Buckets' : b.key = c.key /\ b.id < c.id => Apart(b, c)
    <3> SUFFICES ASSUME NEW b \in Buckets', NEW c \in Buckets', b.key = c.key, b.id < c.id
                 PROVE  Apart(b, c)
      OBVIOUS
    <3>1. CASE b \in Buckets /\ c \in Buckets
      BY <1>2, <3>1
    <3>2. CASE b \in Buckets /\ c = e
      BY <2>2, <3>2
    <3>3. CASE b = e
      BY <1>2, <1>3, <2>1, <3>3
    <3> QED BY <1>3, <3>1, <3>2, <3>3
  <2>6. \A b \in Buckets' : Narrow(b)
    BY <1>2, <1>3, <2>1
  <2> QED BY <1>1, <2>4, <2>5, <2>6 DEF BucketInv, Narrow, Apart, Buckets
<1>4. ASSUME NEW b \in open, Fits(b, p), \A c \in open : Fits(c, p) => b.id <= c.id,
             Buckets' = (Buckets \ {b}) \union {Extended(b, p)}
      PROVE  BucketInv'
  <2> DEFINE e == Extended(b, p)
  <2>1. b \in Bucket /\ b \in Buckets /\ e \in Bucket /\ e.id = b.id /\ e.key = b.key
    BY <1>1, <1>2, <1>4, ExtendedType DEF Buckets
  <2>2. Narrow(e)
    BY <1>1, <1>2, <1>4, <2>1, NarrowJoin
  <2>3. b.key = p.key
    BY <1>4 DEF Fits
  <2>4. \A c \in Buckets : c.id < b.id => ~Fits(c, p)
    BY <1>1, <1>2, <1>4, <2>1 DEF Buckets
  <2>5. \A c, d \in Buckets' : c # d => c.id # d.id
    BY <1>2, <1>4, <2>1
  <2>6. \A c, d \in Buckets' : c.key = d.key /\ c.id < d.id => Apart(c, d)
    <3> SUFFICES ASSUME NEW c \in Buckets', NEW d \in Buckets', c.key = d.key, c.id < d.id
                 PROVE  Apart(c, d)
      OBVIOUS
    <3>1. CASE c \in Buckets /\ d \in Buckets
      BY <1>2, <3>1
    <3>2. CASE c \in Buckets /\ d = e
      <4>1. Apart(c, b) /\ ~Fits(c, p) /\ c.key = p.key /\ c \in Bucket /\ Narrow(c) /\ Narrow(b)
        BY <1>2, <2>1, <2>3, <2>4, <3>2
      <4> QED BY <1>1, <1>4, <2>1, <3>2, <4>1, NewerJoins
    <3>3. CASE c = e /\ d \in Buckets
      <4>1. Apart(b, d) /\ d \in Bucket
        BY <1>2, <2>1, <3>3
      <4> QED BY <1>1, <2>1, <3>3, <4>1, OlderJoins
    <3>4. CASE c = e /\ d = e
      BY <1>2, <2>1, <3>4
    <3> QED BY <1>4, <3>1, <3>2, <3>3, <3>4
  <2>7. \A c \in Buckets' : Narrow(c)
    BY <1>2, <1>4, <2>2
  <2> QED BY <1>1, <2>5, <2>6, <2>7 DEF BucketInv, Narrow, Apart, Buckets
<1> QED BY <1>3, <1>4, AcceptBuckets

(* A step that moves buckets and changes none keeps what is said of them. *)
LEMMA SameBuckets ==
  ASSUME BucketInv, PrintInv, Buckets' = Buckets, UNCHANGED dropped, open' \intersect out' = {}
  PROVE  BucketInv' /\ PrintInv'
BY DEF BucketInv, PrintInv, Placed, Narrow, Apart, Buckets

-----------------------------------------------------------------------------
(* The queue *)

LEMMA AppendAt ==
  ASSUME queue \in Seq(Message), NEW m \in Message, queue' = Append(queue, m)
  PROVE  /\ Len(queue') = Len(queue) + 1 /\ Len(queue) \in Nat
         /\ \A i \in 1..Len(queue) : queue'[i] = queue[i]
         /\ queue'[Len(queue) + 1] = m
OBVIOUS

LEMMA TailAt ==
  ASSUME queue \in Seq(Message), queue # <<>>, queue' = Tail(queue)
  PROVE  /\ Len(queue') = Len(queue) - 1 /\ Len(queue) \in Nat
         /\ \A i \in 1..Len(queue') : i + 1 \in 1..Len(queue) /\ queue'[i] = queue[i + 1]
OBVIOUS

LEMMA EmitQueue ==
  ASSUME IInv, NEW s \in Source, Emit(s)
  PROVE  QueueInv' /\ TakenInv' /\ SentInv'
<1>1. PICK p \in RawPrint :
        /\ p.src = s /\ p.n = sent[s] + 1
        /\ queue' = Append(queue, [kind |-> "event", src |-> s, print |-> p])
  <2>1. PICK k \in Key, t \in Times :
          queue' = Append(queue, [kind |-> "event", src |-> s,
                                  print |-> [src |-> s, n |-> sent[s] + 1, key |-> k, ts |-> t]])
    BY DEF Emit
  <2>2. [src |-> s, n |-> sent[s] + 1, key |-> k, ts |-> t] \in RawPrint
    BY DEF RawPrint, IInv, TypeOK
  <2> QED BY <2>1, <2>2
<1> DEFINE m == [kind |-> "event", src |-> s, print |-> p]
<1>2. m \in Message
  BY DEF Message
<1>3. /\ Len(queue') = Len(queue) + 1 /\ Len(queue) \in Nat
      /\ \A i \in 1..Len(queue) : queue'[i] = queue[i]
      /\ queue'[Len(queue) + 1] = m
  BY <1>1, <1>2, AppendAt DEF IInv, TypeOK
<1>4. /\ sent \in [Source -> Nat]
      /\ \A i \in 1..Len(queue) : queue[i].src \in Source
      /\ \A i \in 1..Len(queue) : queue[i].kind = "event" => queue[i].print \in RawPrint
      /\ \A i \in 1..Len(queue) : queue[i].kind \in {"event", "done"}
  BY DEF IInv, TypeOK, Message
<1>5. /\ sent' = [sent EXCEPT ![s] = @ + 1]
      /\ UNCHANGED <<ended, done, dropped, open, out>> /\ ~ended[s]
  BY DEF Emit, marks
<1>6. \A q \in Source : sent'[q] \in Nat /\ sent[q] <= sent'[q]
  BY <1>4, <1>5
<1>7. QueueInv'
  <2>1. ASSUME NEW i \in 1..Len(queue'), queue'[i].kind = "event"
        PROVE  /\ ~done'[queue'[i].src]
               /\ queue'[i].print.src = queue'[i].src
               /\ queue'[i].print.n <= sent'[queue'[i].src]
    <3>1. CASE i \in 1..Len(queue)
      <4>1. /\ ~done[queue[i].src] /\ queue[i].print.src = queue[i].src
            /\ queue[i].print.n <= sent[queue[i].src]
        BY <1>3, <2>1, <3>1 DEF IInv, QueueInv
      <4>2. queue[i].print.n \in Nat /\ queue[i].src \in Source /\ queue'[i] = queue[i]
        BY <1>3, <1>4, <2>1, <3>1 DEF RawPrint
      <4> QED BY <1>4, <1>5, <1>6, <4>1, <4>2
    <3>2. CASE i = Len(queue) + 1
      <4>1. queue'[i].src = s /\ queue'[i].print = p
        BY <1>3, <3>2
      <4>2. ~done[s]
        BY <1>5 DEF IInv, QueueInv
      <4>3. sent'[s] = sent[s] + 1
        BY <1>4, <1>5
      <4> QED BY <1>1, <1>4, <1>5, <4>1, <4>2, <4>3
    <3> QED BY <1>3, <3>1, <3>2
  <2>2. \A i \in 1..Len(queue') : queue'[i].kind = "done" => ended'[queue'[i].src] /\ ~done'[queue'[i].src]
    BY <1>3, <1>5 DEF IInv, QueueInv
  <2>3. ASSUME NEW i \in 1..Len(queue'), NEW j \in 1..Len(queue'), i < j, queue'[i].src = queue'[j].src
        PROVE  /\ queue'[i].kind = "event"
               /\ queue'[j].kind = "event" => queue'[i].print.n < queue'[j].print.n
    <3>1. CASE j \in 1..Len(queue)
      BY <1>3, <2>3, <3>1 DEF IInv, QueueInv
    <3>2. CASE j = Len(queue) + 1
      <4>1. i \in 1..Len(queue) /\ queue'[i] = queue[i] /\ queue[i].src = s /\ queue'[j].print = p
        BY <1>3, <2>3, <3>2
      <4>2. queue[i].kind = "event"
        BY <1>4, <1>5, <4>1 DEF IInv, QueueInv
      <4>3. queue[i].print.n <= sent[s] /\ queue[i].print.n \in Nat
        BY <1>4, <4>1, <4>2 DEF IInv, QueueInv, RawPrint
      <4>4. sent[s] \in Nat
        BY <1>4
      <4>5. queue[i].print.n < p.n
        BY <1>1, <4>3, <4>4
      <4> QED BY <4>1, <4>2, <4>5
    <3> QED BY <1>3, <3>1, <3>2
  <2>4. \A q \in Source : done'[q] => ended'[q]
    BY <1>5 DEF IInv, QueueInv
  <2> QED BY <2>1, <2>2, <2>3, <2>4 DEF QueueInv
<1>8. TakenInv'
  <2> SUFFICES ASSUME NEW q \in dropped \union Placed
               PROVE  /\ q.n <= sent'[q.src]
                      /\ \A i \in 1..Len(queue') :
                           queue'[i].kind = "event" /\ queue'[i].src = q.src => q.n < queue'[i].print.n
    BY <1>5 DEF TakenInv, Placed, Buckets
  <2>1. q \in RawPrint /\ q.n \in Nat /\ q.src \in Source
    BY DEF IInv, TypeOK, Placed, Buckets, Bucket, RawPrint
  <2>2. q.n <= sent[q.src]
    BY DEF IInv, TakenInv
  <2>3. \A i \in 1..Len(queue) :
          queue[i].kind = "event" /\ queue[i].src = q.src => q.n < queue[i].print.n
    BY DEF IInv, TakenInv
  <2>4. q.src = s => q.n < p.n
    BY <1>1, <1>4, <2>1, <2>2
  <2>5. \A i \in 1..Len(queue') :
          queue'[i].kind = "event" /\ queue'[i].src = q.src => q.n < queue'[i].print.n
    BY <1>3, <2>3, <2>4
  <2> QED BY <1>4, <1>6, <2>1, <2>2, <2>5
<1>9. SentInv'
  <2>1. Queued \subseteq Queued' /\ p \in Queued'
    BY <1>3 DEF Queued
  <2>2. ASSUME NEW q \in Source, NEW n \in Nat \ {0}, n <= sent'[q]
        PROVE  \E r \in Queued' \union dropped' \union Placed' : r.src = q /\ r.n = n
    <3>1. CASE q = s /\ n = sent[s] + 1
      BY <1>1, <2>1, <3>1
    <3>2. CASE n <= sent[q]
      <4>1. PICK r \in Queued \union dropped \union Placed : r.src = q /\ r.n = n
        BY <3>2 DEF IInv, SentInv
      <4>2. r \in Queued' \union dropped' \union Placed'
        BY <1>5, <2>1, <4>1 DEF Placed, Buckets
      <4> QED BY <4>1, <4>2
    <3> QED BY <1>4, <1>5, <2>2, <3>1, <3>2
  <2> QED BY <2>2 DEF SentInv
<1> QED BY <1>7, <1>8, <1>9

LEMMA EndQueue ==
  ASSUME IInv, NEW s \in Source, End(s)
  PROVE  QueueInv' /\ TakenInv' /\ SentInv'
<1> DEFINE m == [kind |-> "done", src |-> s]
<1>2. m \in Message
  BY DEF Message
<1>3. /\ Len(queue') = Len(queue) + 1 /\ Len(queue) \in Nat
      /\ \A i \in 1..Len(queue) : queue'[i] = queue[i]
      /\ queue'[Len(queue) + 1] = m
  BY <1>2, AppendAt DEF IInv, TypeOK, End
<1>4. /\ \A i \in 1..Len(queue) : queue[i].src \in Source
      /\ \A i \in 1..Len(queue) : queue[i].kind \in {"event", "done"}
      /\ ended \in [Source -> BOOLEAN]
  BY DEF IInv, TypeOK, Message
<1>5. ended' = [ended EXCEPT ![s] = TRUE] /\ UNCHANGED <<sent, done, dropped, open, out>> /\ ~ended[s]
  BY DEF End, marks
<1>6. ~done[s] /\ ended'[s] /\ \A q \in Source : ended[q] => ended'[q]
  BY <1>4, <1>5 DEF IInv, QueueInv
<1>7. QueueInv'
  <2>1. \A i \in 1..Len(queue') :
          queue'[i].kind = "event" =>
            /\ ~done'[queue'[i].src]
            /\ queue'[i].print.src = queue'[i].src
            /\ queue'[i].print.n <= sent'[queue'[i].src]
    BY <1>3, <1>5 DEF IInv, QueueInv
  <2>2. \A i \in 1..Len(queue') : queue'[i].kind = "done" => ended'[queue'[i].src] /\ ~done'[queue'[i].src]
    BY <1>3, <1>4, <1>5, <1>6 DEF IInv, QueueInv
  <2>3. ASSUME NEW i \in 1..Len(queue'), NEW j \in 1..Len(queue'), i < j, queue'[i].src = queue'[j].src
        PROVE  /\ queue'[i].kind = "event"
               /\ queue'[j].kind = "event" => queue'[i].print.n < queue'[j].print.n
    <3>1. CASE j \in 1..Len(queue)
      BY <1>3, <2>3, <3>1 DEF IInv, QueueInv
    <3>2. CASE j = Len(queue) + 1
      <4>1. i \in 1..Len(queue) /\ queue'[i] = queue[i] /\ queue[i].src = s /\ queue'[j].kind = "done"
        BY <1>3, <2>3, <3>2
      <4>2. queue[i].kind = "event"
        BY <1>4, <1>5, <4>1 DEF IInv, QueueInv
      <4> QED BY <4>1, <4>2
    <3> QED BY <1>3, <3>1, <3>2
  <2>4. \A q \in Source : done'[q] => ended'[q]
    BY <1>5, <1>6 DEF IInv, QueueInv
  <2> QED BY <2>1, <2>2, <2>3, <2>4 DEF QueueInv
<1>8. TakenInv'
  BY <1>3, <1>5 DEF IInv, TakenInv, Placed, Buckets
<1>9. SentInv'
  <2>1. Queued \subseteq Queued' /\ Placed' = Placed
    BY <1>3, <1>5 DEF Queued, Placed, Buckets
  <2> QED BY <1>5, <2>1 DEF IInv, SentInv
<1> QED BY <1>7, <1>8, <1>9

(* Taking an event off the queue for a print that ends up in dropped or in a bucket. *)
LEMMA TakeQueue ==
  ASSUME IInv, Take("event"), UNCHANGED <<sent, ended, done>>,
         dropped' \union Placed' = dropped \union Placed \union {Head(queue).print}
  PROVE  QueueInv' /\ TakenInv' /\ SentInv'
<1> DEFINE p == Head(queue).print
<1>1. /\ queue # <<>> /\ queue' = Tail(queue) /\ queue \in Seq(Message)
      /\ p \in RawPrint /\ Head(queue) = queue[1] /\ 1 \in 1..Len(queue) /\ queue[1].kind = "event"
  BY HeadType DEF Take, IInv, TypeOK
<1>2. /\ Len(queue') = Len(queue) - 1 /\ Len(queue) \in Nat
      /\ \A i \in 1..Len(queue') : i + 1 \in 1..Len(queue) /\ queue'[i] = queue[i + 1]
  BY <1>1, TailAt
<1>3. QueueInv'
  <2>1. \A i \in 1..Len(queue') :
          /\ queue'[i].kind = "event" =>
               /\ ~done'[queue'[i].src]
               /\ queue'[i].print.src = queue'[i].src
               /\ queue'[i].print.n <= sent'[queue'[i].src]
          /\ queue'[i].kind = "done" => ended'[queue'[i].src] /\ ~done'[queue'[i].src]
    BY <1>2 DEF IInv, QueueInv
  <2>2. ASSUME NEW i \in 1..Len(queue'), NEW j \in 1..Len(queue'), i < j, queue'[i].src = queue'[j].src
        PROVE  /\ queue'[i].kind = "event"
               /\ queue'[j].kind = "event" => queue'[i].print.n < queue'[j].print.n
    <3>1. i + 1 \in 1..Len(queue) /\ j + 1 \in 1..Len(queue) /\ i + 1 < j + 1
      BY <1>2, <2>2
    <3>2. queue'[i] = queue[i + 1] /\ queue'[j] = queue[j + 1]
      BY <1>2
    <3> QED BY <2>2, <3>1, <3>2 DEF IInv, QueueInv
  <2> QED BY <2>1, <2>2 DEF IInv, QueueInv
<1>4. TakenInv'
  <2> SUFFICES ASSUME NEW q \in dropped' \union Placed'
               PROVE  /\ q.n <= sent'[q.src]
                      /\ \A i \in 1..Len(queue') :
                           queue'[i].kind = "event" /\ queue'[i].src = q.src => q.n < queue'[i].print.n
    BY DEF TakenInv
  <2>1. CASE q \in dropped \union Placed
    BY <1>2, <2>1 DEF IInv, TakenInv
  <2>2. CASE q = p
    <3>1. p.src = queue[1].src /\ p.n <= sent[p.src]
      BY <1>1 DEF IInv, QueueInv
    <3>2. ASSUME NEW i \in 1..Len(queue'), queue'[i].kind = "event", queue'[i].src = p.src
          PROVE  p.n < queue'[i].print.n
      <4>1. i + 1 \in 1..Len(queue) /\ 1 < i + 1 /\ queue'[i] = queue[i + 1]
        BY <1>2
      <4> QED BY <1>1, <3>1, <3>2, <4>1 DEF IInv, QueueInv
    <3> QED BY <2>2, <3>1, <3>2
  <2> QED BY <2>1, <2>2
<1>5. SentInv'
  <2>1. Queued \subseteq Queued' \union {p}
    <3> SUFFICES ASSUME NEW i \in 1..Len(queue), queue[i].kind = "event"
                 PROVE  queue[i].print \in Queued' \union {p}
      BY DEF Queued
    <3>1. CASE i = 1
      BY <1>1, <3>1
    <3>2. CASE i # 1
      <4>1. i - 1 \in 1..Len(queue') /\ queue'[i - 1] = queue[i]
        BY <1>2, <3>2
      <4> QED BY <4>1 DEF Queued
    <3> QED BY <3>1, <3>2
  <2>2. Queued \union dropped \union Placed \subseteq Queued' \union dropped' \union Placed'
    BY <2>1
  <2> QED BY <2>2 DEF IInv, SentInv
<1> QED BY <1>3, <1>4, <1>5

LEMMA TakeDoneQueue ==
  ASSUME IInv, TakeDone
  PROVE  QueueInv' /\ TakenInv' /\ SentInv'
<1> DEFINE s == Head(queue).src
<1>1. /\ queue # <<>> /\ queue' = Tail(queue) /\ queue \in Seq(Message) /\ s \in Source
      /\ Head(queue) = queue[1] /\ 1 \in 1..Len(queue) /\ queue[1].kind = "done"
      /\ done \in [Source -> BOOLEAN] /\ \A i \in 1..Len(queue) : queue[i].src \in Source
  BY HeadType DEF TakeDone, Take, IInv, TypeOK, Message
<1>2. /\ Len(queue') = Len(queue) - 1 /\ Len(queue) \in Nat
      /\ \A i \in 1..Len(queue') : i + 1 \in 1..Len(queue) /\ queue'[i] = queue[i + 1]
  BY <1>1, TailAt
<1>3. UNCHANGED <<sent, ended, dropped>> /\ done' = [done EXCEPT ![s] = TRUE] /\ Placed' = Placed
  <2>1. open' \union out' = open \union out
    BY FlushMoves DEF TakeDone
  <2> QED BY <2>1 DEF TakeDone, feeders, Placed, Buckets
\* Nothing of the source follows its "done" mark.
<1>4. \A i \in 1..Len(queue') : queue'[i].src # s
  <2> SUFFICES ASSUME NEW i \in 1..Len(queue'), queue'[i].src = s
               PROVE  FALSE
    OBVIOUS
  <2>1. i + 1 \in 1..Len(queue) /\ 1 < i + 1 /\ queue[i + 1].src = queue[1].src
    BY <1>1, <1>2
  <2>2. queue[1].kind = "event"
    BY <1>1, <2>1 DEF IInv, QueueInv
  <2> QED BY <1>1, <2>2
<1>5. QueueInv'
  <2>1. \A i \in 1..Len(queue') : done'[queue'[i].src] = done[queue'[i].src]
    BY <1>1, <1>2, <1>3, <1>4
  <2>2. ASSUME NEW i \in 1..Len(queue')
        PROVE  /\ queue'[i].kind = "event" =>
                    /\ ~done'[queue'[i].src]
                    /\ queue'[i].print.src = queue'[i].src
                    /\ queue'[i].print.n <= sent'[queue'[i].src]
               /\ queue'[i].kind = "done" => ended'[queue'[i].src] /\ ~done'[queue'[i].src]
    <3>1. i + 1 \in 1..Len(queue) /\ queue'[i] = queue[i + 1]
      BY <1>2
    <3>2. done'[queue'[i].src] = done[queue[i + 1].src] /\ sent' = sent /\ ended' = ended
      BY <1>3, <2>1, <3>1
    <3> QED BY <3>1, <3>2 DEF IInv, QueueInv
  <2>3. ASSUME NEW i \in 1..Len(queue'), NEW j \in 1..Len(queue'), i < j, queue'[i].src = queue'[j].src
        PROVE  /\ queue'[i].kind = "event"
               /\ queue'[j].kind = "event" => queue'[i].print.n < queue'[j].print.n
    <3>1. i + 1 \in 1..Len(queue) /\ j + 1 \in 1..Len(queue) /\ i + 1 < j + 1
      BY <1>2, <2>3
    <3>2. queue'[i] = queue[i + 1] /\ queue'[j] = queue[j + 1]
      BY <1>2
    <3> QED BY <2>3, <3>1, <3>2 DEF IInv, QueueInv
  <2>4. \A q \in Source : done'[q] => ended'[q]
    <3>1. ended[s]
      BY <1>1 DEF IInv, QueueInv
    <3> QED BY <1>1, <1>3, <3>1 DEF IInv, QueueInv
  <2> QED BY <2>2, <2>3, <2>4 DEF QueueInv
<1>6. TakenInv'
  BY <1>2, <1>3 DEF IInv, TakenInv
<1>7. SentInv'
  <2>1. Queued \subseteq Queued'
    <3> SUFFICES ASSUME NEW i \in 1..Len(queue), queue[i].kind = "event"
                 PROVE  queue[i].print \in Queued'
      BY DEF Queued
    <3>1. i # 1
      BY <1>1
    <3>2. i - 1 \in 1..Len(queue') /\ queue'[i - 1] = queue[i]
      BY <1>2, <3>1
    <3> QED BY <3>2 DEF Queued
  <2> QED BY <1>3, <2>1 DEF IInv, SentInv
<1> QED BY <1>5, <1>6, <1>7

(* Nothing is known to be at once queued and taken: a print is accounted for once. *)
LEMMA QueuedNotTaken ==
  ASSUME TypeOK, QueueInv, TakenInv
  PROVE  Queued \intersect (dropped \union Placed) = {}
<1> SUFFICES ASSUME NEW i \in 1..Len(queue), queue[i].kind = "event",
                    queue[i].print \in dropped \union Placed
             PROVE  FALSE
  BY DEF Queued
<1>1. queue[i].print.src = queue[i].src
  BY DEF QueueInv
<1>2. queue[i].print.n < queue[i].print.n
  BY <1>1 DEF TakenInv
<1>3. queue[i].print.n \in Nat
  BY DEF TypeOK, Message, RawPrint
<1> QED BY <1>2, <1>3

-----------------------------------------------------------------------------
(* One case per action: the conjuncts it can disturb. *)

LEMMA AcceptInv ==
  ASSUME IInv, Accept
  PROVE  QueueInv' /\ TakenInv' /\ SentInv' /\ PrintInv'
<1> DEFINE p == Head(queue).print
<1>1. p \in RawPrint /\ UNCHANGED <<sent, ended, done, dropped>>
  BY AcceptBuckets DEF Accept, feeders
<1>2. p \notin dropped \union Placed
  <2>1. p \in Queued
    BY HeadType DEF Accept, Take, IInv, TypeOK, Queued
  <2> QED BY <2>1, QueuedNotTaken DEF IInv
<1>3. /\ dropped \intersect Placed = {}
      /\ \A b, c \in Buckets : b # c => b.prints \intersect c.prints = {}
      /\ \A b \in Buckets : p \notin b.prints
  BY <1>2 DEF IInv, PrintInv, Placed
<1>4. /\ Placed' = Placed \union {p}
      /\ \A b, c \in Buckets' : b # c => b.prints \intersect c.prints = {}
  <2>1. CASE Buckets' = Buckets \union {NewBucket(p)}
    <3>1. NewBucket(p).prints = {p}
      BY DEF NewBucket
    <3> QED BY <1>3, <2>1, <3>1 DEF Placed
  <2>2. ASSUME NEW b \in open, Buckets' = (Buckets \ {b}) \union {Extended(b, p)}
        PROVE  <1>4
    <3>1. b \in Buckets /\ b \in Bucket
      BY DEF Buckets, IInv, TypeOK
    <3>2. Extended(b, p).prints = b.prints \union {p}
      BY <1>1, <3>1, ExtendedType
    <3> QED BY <1>3, <2>2, <3>1, <3>2 DEF Placed
  <2> QED BY <2>1, <2>2, AcceptBuckets
<1>5. PrintInv'
  BY <1>1, <1>2, <1>3, <1>4 DEF PrintInv
<1>6. Take("event")
  BY DEF Accept
<1> QED BY <1>1, <1>4, <1>5, <1>6, TakeQueue

LEMMA DropLateInv ==
  ASSUME IInv, DropLate
  PROVE  QueueInv' /\ TakenInv' /\ SentInv' /\ PrintInv'
<1> DEFINE p == Head(queue).print
<1>1. /\ Take("event") /\ UNCHANGED <<sent, ended, done, open, out>>
      /\ dropped' = dropped \union {p} /\ Placed' = Placed
  BY DEF DropLate, feeders, marks, Placed, Buckets
<1>2. p \notin dropped \union Placed
  <2>1. p \in Queued
    BY HeadType DEF DropLate, Take, IInv, TypeOK, Queued
  <2> QED BY <2>1, QueuedNotTaken DEF IInv
<1>3. PrintInv'
  BY <1>1, <1>2 DEF IInv, PrintInv, Buckets
<1>4. dropped' \union Placed' = dropped \union Placed \union {p}
  BY <1>1
<1> QED BY <1>1, <1>3, <1>4, TakeQueue

(* A step that flushes with the new watermarks leaves nothing overdue and emits nothing
   early. *)
LEMMA FlushEmits ==
  ASSUME IInv, TypeOK', WmGrows, NEW B, Flush(B, wm', done')
  PROVE  EmittedInv' /\ NothingOverdue'
<1>1. ASSUME NEW b \in out'
      PROVE  AllDone(done') \/ Reached(b.first + Window, wm', done')
  <2>1. CASE b \in out
    <3>1. b.first + Window \in Int
      BY <2>1, ParamsAssumption DEF IInv, TypeOK, Bucket
    <3>2. CASE AllDone(done)
      BY <3>2 DEF AllDone, WmGrows
    <3>3. CASE Reached(b.first + Window, wm, done)
      BY <3>1, <3>3, ReachedGrows DEF IInv
    <3> QED BY <2>1, <3>2, <3>3 DEF IInv, EmittedInv
  <2> QED BY <2>1, FlushMoves
<1>2. \A b \in open' : ~Reached(b.first + Window, wm', done')
  BY FlushMoves
<1> QED BY <1>1, <1>2 DEF EmittedInv, NothingOverdue, Reached, AllDone

LEMMA NextIInv == IInv /\ [Next]_vars => IInv'
<1> SUFFICES ASSUME IInv, [Next]_vars PROVE IInv'
  OBVIOUS
<1>1. TypeOK'
  BY NextType DEF IInv
<1>2. Next => WmGrows
  BY NextGrows DEF IInv
<1>3. ASSUME UNCHANGED <<queue, sent, ended, done, dropped>>, Buckets' = Buckets
      PROVE  QueueInv' /\ TakenInv' /\ SentInv'
  <2>1. Placed' = Placed /\ Queued' = Queued
    BY <1>3 DEF Placed, Queued
  <2> QED BY <1>3, <2>1 DEF IInv, QueueInv, TakenInv, SentInv
<1>4. ASSUME UNCHANGED <<open, out, wm, done, dropped>>
      PROVE  /\ Buckets' = Buckets
             /\ BucketInv' /\ PrintInv' /\ EmittedInv' /\ NothingOverdue'
  <2>1. Buckets' = Buckets /\ open' \intersect out' = {}
    BY <1>4 DEF Buckets, IInv, BucketInv
  <2>2. BucketInv' /\ PrintInv'
    BY <1>4, <2>1, SameBuckets DEF IInv
  <2>3. EmittedInv' /\ NothingOverdue'
    BY <1>4 DEF IInv, EmittedInv, NothingOverdue, AllDone, Reached
  <2> QED BY <2>1, <2>2, <2>3
<1>5. ASSUME NEW s \in Source, Emit(s) \/ End(s)
      PROVE  IInv'
  <2>1. UNCHANGED <<open, out, wm, done, dropped, drained>>
    BY <1>5 DEF Emit, End, marks
  <2>2. QueueInv' /\ TakenInv' /\ SentInv'
    BY <1>5, EmitQueue, EndQueue
  <2> QED BY <1>1, <1>4, <2>1, <2>2 DEF IInv, AllDone
<1>6. CASE DropLate
  <2>1. UNCHANGED <<open, out, wm, done, drained>>
    BY <1>6 DEF DropLate, marks
  <2>2. QueueInv' /\ TakenInv' /\ SentInv' /\ PrintInv'
    BY <1>6, DropLateInv
  <2>3. BucketInv' /\ EmittedInv' /\ NothingOverdue'
    BY <2>1 DEF IInv, BucketInv, EmittedInv, NothingOverdue, AllDone, Reached, Buckets, Narrow, Apart
  <2> QED BY <1>1, <2>1, <2>2, <2>3 DEF IInv, AllDone
<1>7. CASE Accept
  <2>1. QueueInv' /\ TakenInv' /\ SentInv' /\ PrintInv' /\ BucketInv'
    BY <1>7, AcceptInv, AcceptBucketInv
  <2>2. EmittedInv' /\ NothingOverdue'
    <3>1. UNCHANGED <<done, drained>> /\ WmGrows
      BY <1>2, <1>7 DEF Accept, Next
    <3>2. \E B : Flush(B, wm', done)
      BY <1>7 DEF Accept
    <3> QED BY <1>1, <3>1, <3>2, FlushEmits
  <2>3. UNCHANGED <<done, drained>>
    BY <1>7 DEF Accept
  <2> QED BY <1>1, <2>1, <2>2, <2>3 DEF IInv, AllDone
<1>8. CASE TakeDone
  <2>1. QueueInv' /\ TakenInv' /\ SentInv'
    BY <1>8, TakeDoneQueue
  <2>2. WmGrows /\ UNCHANGED <<dropped, drained>> /\ Flush(open, wm, done') /\ wm' = wm
    BY <1>2, <1>8 DEF TakeDone, Next
  <2>3. EmittedInv' /\ NothingOverdue'
    BY <1>1, <2>2, FlushEmits
  <2>4. BucketInv' /\ PrintInv'
    <3>1. Buckets' = Buckets /\ open' \intersect out' = {}
      BY <2>2, FlushMoves DEF Buckets, IInv, BucketInv
    <3> QED BY <2>2, <3>1, SameBuckets DEF IInv
  <2>5. drained' => AllDone(done')
    BY <2>2 DEF IInv, AllDone, WmGrows
  <2> QED BY <1>1, <2>1, <2>3, <2>4, <2>5 DEF IInv
<1>9. CASE StallCheck
  <2>1. /\ WmGrows /\ UNCHANGED <<queue, sent, ended, done, dropped, drained>>
        /\ Flush(open, wm', done)
    BY <1>2, <1>9 DEF StallCheck, feeders, Next
  <2>2. Buckets' = Buckets /\ open' \intersect out' = {}
    BY <2>1, FlushMoves DEF Buckets, IInv, BucketInv
  <2>3. QueueInv' /\ TakenInv' /\ SentInv'
    BY <1>3, <2>1, <2>2
  <2>4. BucketInv' /\ PrintInv'
    BY <2>1, <2>2, SameBuckets DEF IInv
  <2>5. EmittedInv' /\ NothingOverdue'
    BY <1>1, <2>1, FlushEmits
  <2> QED BY <1>1, <2>1, <2>3, <2>4, <2>5 DEF IInv, AllDone
<1>10. CASE Drain
  <2>1. /\ UNCHANGED <<queue, sent, ended, done, dropped>> /\ AllDone(done)
        /\ open' = {} /\ out' = out \union open
    BY <1>10 DEF Drain, feeders, marks
  <2>2. Buckets' = Buckets /\ open' \intersect out' = {}
    BY <2>1 DEF Buckets
  <2>3. QueueInv' /\ TakenInv' /\ SentInv' /\ BucketInv' /\ PrintInv'
    BY <1>3, <2>1, <2>2, SameBuckets DEF IInv
  <2>4. EmittedInv' /\ NothingOverdue'
    BY <2>1 DEF EmittedInv, NothingOverdue, AllDone
  <2> QED BY <1>1, <2>1, <2>3, <2>4 DEF IInv, AllDone
<1>11. CASE Tick \/ UNCHANGED vars
  <2>1. UNCHANGED <<queue, sent, ended, open, out, wm, done, dropped, drained>>
    BY <1>11 DEF Tick, vars, feeders, marks
  <2> QED BY <1>1, <1>3, <1>4, <2>1 DEF IInv, AllDone
<1> QED BY <1>5, <1>6, <1>7, <1>8, <1>9, <1>10, <1>11 DEF Next

LEMMA Invariance == Spec => []IInv
BY InitIInv, NextIInv, PTL DEF Spec

-----------------------------------------------------------------------------
(* No print is lost or counted twice. *)
THEOREM EachPrintOnceHolds == Spec => []EachPrintOnce
<1>1. IInv => EachPrintOnce
  <2> SUFFICES ASSUME IInv PROVE EachPrintOnce
    OBVIOUS
  <2>1. \A s \in Source, n \in 1..MaxPrints :
          n <= sent[s] => \E p \in Queued \union dropped \union Placed : p.src = s /\ p.n = n
    <3>1. 1..MaxPrints \subseteq Nat \ {0}
      BY ParamsAssumption
    <3> QED BY <3>1 DEF IInv, SentInv
  <2> QED BY <2>1, QueuedNotTaken DEF IInv, PrintInv, EachPrintOnce
<1> QED BY <1>1, Invariance, PTL

(* Canonical prints of one key never overlap in event time and none is a window wide. *)
THEOREM BucketsDisjointHolds == Spec => []BucketsDisjoint
<1>1. IInv => BucketsDisjoint
  <2> SUFFICES ASSUME IInv, NEW b \in Buckets
               PROVE  /\ \A p \in b.prints : b.first <= p.ts /\ p.ts <= b.last
                      /\ b.last - b.first < Window
                      /\ \A c \in Buckets :
                           b # c /\ b.key = c.key => b.last < c.first \/ c.last < b.first
    BY DEF BucketsDisjoint
  <2>1. Narrow(b)
    BY DEF IInv, BucketInv
  <2>2. ASSUME NEW c \in Buckets, b # c, b.key = c.key
        PROVE  b.last < c.first \/ c.last < b.first
    <3>1. /\ b.id \in Nat /\ c.id \in Nat /\ b.id # c.id
          /\ b.first \in Int /\ b.last \in Int /\ c.first \in Int /\ c.last \in Int
          /\ Narrow(b) /\ Narrow(c)
      BY <2>2 DEF IInv, BucketInv, TypeOK, Buckets, Bucket
    <3>2. Apart(b, c) \/ Apart(c, b)
      BY <2>2, <3>1 DEF IInv, BucketInv
    <3> QED BY <3>1, <3>2, ParamsAssumption DEF Apart, Narrow
  <2> QED BY <2>1, <2>2 DEF Narrow
<1> QED BY <1>1, Invariance, PTL

(* After every step nothing the global watermark has passed is still open. *)
THEOREM NothingOverdueHolds == Spec => []NothingOverdue
<1>1. IInv => NothingOverdue
  BY DEF IInv
<1> QED BY <1>1, Invariance, PTL

(* No accepted print could have belonged to a canonical print already emitted. *)
THEOREM NoLateFalsificationHolds == Spec => NoLateFalsification
<1>1. IInv /\ [Next]_vars =>
        [\A p \in Queued : p \in Placed' => \A b \in out : ~Fits(b, p)]_vars
  <2> SUFFICES ASSUME IInv, Next, NEW p \in Queued, p \in Placed', NEW b \in out
               PROVE  ~Fits(b, p)
    OBVIOUS
  <2>1. p \notin Placed
    BY QueuedNotTaken DEF IInv
  <2>2. CASE Accept
    <3>1. p = Head(queue).print
      <4>1. CASE Buckets' = Buckets \union {NewBucket(Head(queue).print)}
        BY <2>1, <4>1 DEF Placed, NewBucket
      <4>2. ASSUME NEW c \in open, Buckets' = (Buckets \ {c}) \union {Extended(c, Head(queue).print)}
            PROVE  <3>1
        <5>1. Extended(c, Head(queue).print).prints = c.prints \union {Head(queue).print}
          BY <2>2, AcceptBuckets, ExtendedType DEF IInv, TypeOK
        <5> QED BY <2>1, <4>2, <5>1 DEF Placed, Buckets
      <4> QED BY <2>2, <4>1, <4>2, AcceptBuckets
    <3> QED BY <2>2, <3>1, EmittedRefuses
  <2>3. ASSUME Placed' = Placed
        PROVE  FALSE
    BY <2>1, <2>3
  <2>4. CASE TakeDone \/ StallCheck
    <3>1. Buckets' = Buckets
      BY <2>4, FlushMoves DEF TakeDone, StallCheck, Buckets
    <3> QED BY <2>3, <3>1 DEF Placed
  <2>5. CASE Drain
    BY <2>3, <2>5 DEF Drain, Placed, Buckets
  <2>6. ASSUME NEW s \in Source, Emit(s) \/ End(s)
        PROVE  FALSE
    BY <2>3, <2>6 DEF Emit, End, Placed, Buckets
  <2>7. CASE DropLate \/ Tick
    BY <2>3, <2>7 DEF DropLate, Tick, Placed, Buckets
  <2> QED BY <2>2, <2>4, <2>5, <2>6, <2>7 DEF Next
<1> QED BY <1>1, Invariance, PTL DEF Spec, NoLateFalsification
=============================================================================
