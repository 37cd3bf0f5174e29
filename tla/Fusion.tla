------------------------------- MODULE Fusion -------------------------------
(***************************************************************************)
(* SourceFusion._stream_multi (fusion/source.py): several print feeds are  *)
(* reconciled into canonical prints by event-time watermarks.  A feeder    *)
(* task per source puts its prints, and at the end one "done" mark, into a *)
(* shared queue; one loop takes messages off the queue, drops late prints, *)
(* advances the source's watermark, puts the print into a bucket and emits *)
(* every bucket the global watermark has passed.  A timeout of the queue   *)
(* read advances the watermarks of stalled sources.                        *)
(*                                                                         *)
(* Event times and the wall clock are integers of one unit.  The position  *)
(* of a bucket in the list of its key is its id.                           *)
(***************************************************************************)
EXTENDS Integers, Sequences

CONSTANTS
  Source,        \* the feeds
  Key,           \* (ticker, strike, expiry, option type)
  Times,         \* event times a print may carry
  Window,        \* window_ms
  StallTimeout,  \* stalled_source_timeout_ms
  Lateness,      \* allowed_lateness_ms
  CheckInterval, \* the timeout of the queue read, a quarter of StallTimeout in the code
  Prompt,        \* TRUE: the loop takes a message off the queue before the clock moves
  MaxPrints,     \* bound on the prints of one source
  MaxNow,        \* bound on the wall clock
  None           \* no watermark yet

ASSUME TimesAssumption == Times \subseteq Int /\ None \notin Int
ASSUME ParamsAssumption ==
  /\ Window \in Nat \ {0} /\ StallTimeout \in Nat \ {0} /\ Lateness \in Nat
  /\ CheckInterval \in Nat \ {0} /\ MaxPrints \in Nat /\ MaxNow \in Nat
  /\ Prompt \in BOOLEAN

VARIABLES
  now,        \* wall clock
  waited,     \* how long the current queue read has waited
  queue,      \* the asyncio queue
  sent,       \* source |-> number of prints its feeder has put
  ended,      \* source |-> its feeder has put "done"
  wm,         \* source |-> watermark
  lastEvent,  \* source |-> last_event_walltime
  done,       \* source |-> the loop has taken its "done"
  open,       \* the open buckets
  nextId,     \* position of the next bucket
  out,        \* the buckets emitted as canonical prints
  dropped,    \* late prints
  drained     \* the loop has ended and emitted what was left

vars == <<now, waited, queue, sent, ended, wm, lastEvent, done, open, nextId, out,
          dropped, drained>>
feeders == <<sent, ended>>
marks == <<wm, lastEvent, done>>

RawPrint == [src: Source, n: Nat, key: Key, ts: Times]
Message == [kind: {"event"}, src: Source, print: RawPrint] \union [kind: {"done"}, src: Source]
Bucket == [id: Nat, key: Key, prints: SUBSET RawPrint, first: Int, last: Int]

TypeOK ==
  /\ now \in Nat /\ waited \in Nat
  /\ queue \in Seq(Message)
  /\ sent \in [Source -> Nat] /\ ended \in [Source -> BOOLEAN]
  /\ wm \in [Source -> Int \union {None}]
  /\ lastEvent \in [Source -> Nat] /\ done \in [Source -> BOOLEAN]
  /\ open \subseteq Bucket /\ out \subseteq Bucket
  /\ \A b \in open \union out : b.id < nextId
  /\ nextId \in Nat
  /\ dropped \subseteq RawPrint
  /\ drained \in BOOLEAN

Init ==
  /\ now = 0 /\ waited = 0
  /\ queue = <<>>
  /\ sent = [s \in Source |-> 0] /\ ended = [s \in Source |-> FALSE]
  /\ wm = [s \in Source |-> None]
  /\ lastEvent = [s \in Source |-> 0] /\ done = [s \in Source |-> FALSE]
  /\ open = {} /\ nextId = 0 /\ out = {}
  /\ dropped = {}
  /\ drained = FALSE

-----------------------------------------------------------------------------
(* Feeder tasks *)

\* The source yields its next print, in whatever event-time order it likes.
Emit(s) ==
  /\ ~ended[s]
  /\ sent[s] < MaxPrints
  /\ \E k \in Key, t \in Times :
       queue' = Append(queue, [kind |-> "event", src |-> s,
                               print |-> [src |-> s, n |-> sent[s] + 1, key |-> k, ts |-> t]])
  /\ sent' = [sent EXCEPT ![s] = @ + 1]
  /\ UNCHANGED <<now, waited, ended, marks, open, nextId, out, dropped, drained>>

\* The stream of the source ends or raises: the finally clause puts "done".
End(s) ==
  /\ ~ended[s]
  /\ queue' = Append(queue, [kind |-> "done", src |-> s])
  /\ ended' = [ended EXCEPT ![s] = TRUE]
  /\ UNCHANGED <<now, waited, sent, marks, open, nextId, out, dropped, drained>>

-----------------------------------------------------------------------------
(* Watermarks and buckets *)

AllDone(d) == \A s \in Source : d[s]

\* The global watermark, the least one of the sources that are not done, is defined
\* and at least t (Reached) or past t (Passed).
Reached(t, w, d) == ~AllDone(d) /\ \A s \in Source : d[s] \/ (w[s] # None /\ t <= w[s])
\* Mutant: the mark of a finished source still holds the global watermark back.
PassedByAll(t, w, d) == \A s \in Source : w[s] # None /\ t < w[s]
Passed(t, w, d) == ~AllDone(d) /\ \A s \in Source : d[s] \/ (w[s] # None /\ t < w[s])

Earlier(x, y) == IF x <= y THEN x ELSE y
Later(x, y) == IF x <= y THEN y ELSE x

\* Mutant: the span is measured from the first print only.
FitsFromFirst(b, p) == b.key = p.key /\ p.ts - b.first < Window

\* A print fits a bucket of its key if the span stays below the window.
Fits(b, p) == b.key = p.key /\ Later(b.last, p.ts) - Earlier(b.first, p.ts) < Window

Extended(b, p) ==
  [b EXCEPT !.prints = @ \union {p}, !.first = Earlier(@, p.ts), !.last = Later(@, p.ts)]

\* Mutant: the counter is read after it was bumped.
NewBucketBumped(p) ==
  [id |-> nextId + 1, key |-> p.key, prints |-> {p}, first |-> p.ts, last |-> p.ts]

NewBucket(p) == [id |-> nextId, key |-> p.key, prints |-> {p}, first |-> p.ts, last |-> p.ts]

\* _flush_closed_buckets over the buckets B with watermarks w and done marks d.
Closed(B, w, d) == {b \in B : Reached(b.first + Window, w, d)}
\* Mutant: a key with a closed bucket is removed whole.
FlushKey(B, w, d) ==
  /\ open' = {b \in B : \A c \in Closed(B, w, d) : c.key # b.key}
  /\ out' = out \union Closed(B, w, d)
Flush(B, w, d) ==
  /\ open' = B \ Closed(B, w, d)
  /\ out' = out \union Closed(B, w, d)

-----------------------------------------------------------------------------
(* The loop *)

Take(kind) ==
  /\ queue # <<>>
  /\ Head(queue).kind = kind
  /\ queue' = Tail(queue)
  /\ waited' = 0

\* A late print is dropped before anything of its source is updated.
DropLate ==
  /\ Take("event")
  /\ LET p == Head(queue).print
     IN  Passed(p.ts, wm, done) /\ dropped' = dropped \union {p}
  /\ UNCHANGED <<now, feeders, marks, open, nextId, out, drained>>

\* An accepted print: watermark and stall clock, first bucket that fits or a new one,
\* closure check.
Accept ==
  /\ Take("event")
  /\ LET p == Head(queue).print
         s == Head(queue).src
     IN  /\ ~Passed(p.ts, wm, done)
         /\ wm' = [wm EXCEPT ![s] = IF @ = None THEN p.ts ELSE Later(@, p.ts)]
         /\ lastEvent' = [lastEvent EXCEPT ![s] = now]
         /\ \/ \E b \in open :
                 /\ Fits(b, p)
                 /\ \A c \in open : Fits(c, p) => b.id <= c.id
                 /\ Flush((open \ {b}) \union {Extended(b, p)}, wm', done)
                 /\ UNCHANGED nextId
            \/ /\ \A b \in open : ~Fits(b, p)
               /\ Flush(open \union {NewBucket(p)}, wm', done)
               /\ nextId' = nextId + 1
  /\ UNCHANGED <<now, feeders, done, dropped, drained>>

\* Mutant: the end of a source closes nothing.
TakeDoneNoFlush ==
  /\ Take("done")
  /\ done' = [done EXCEPT ![Head(queue).src] = TRUE]
  /\ UNCHANGED <<now, feeders, wm, lastEvent, open, nextId, out, dropped, drained>>

TakeDone ==
  /\ Take("done")
  /\ done' = [done EXCEPT ![Head(queue).src] = TRUE]
  /\ Flush(open, wm, done')
  /\ UNCHANGED <<now, feeders, wm, lastEvent, nextId, dropped, drained>>

Stalled(s) == ~done[s] /\ now - lastEvent[s] >= StallTimeout

\* Mutant: the forced watermark ignores the one the source has.
StallCheckForced ==
  /\ queue = <<>>
  /\ ~AllDone(done)
  /\ waited >= CheckInterval
  /\ waited' = 0
  /\ wm' = [s \in Source |-> IF Stalled(s) THEN now - Lateness ELSE wm[s]]
  /\ lastEvent' = [s \in Source |-> IF Stalled(s) THEN now ELSE lastEvent[s]]
  /\ Flush(open, wm', done)
  /\ UNCHANGED <<now, queue, feeders, done, nextId, dropped, drained>>

\* The queue read timed out: _advance_stalled_watermarks, then the closure check.
StallCheck ==
  /\ queue = <<>>
  /\ ~AllDone(done)
  /\ waited >= CheckInterval
  /\ waited' = 0
  /\ wm' = [s \in Source |->
              IF Stalled(s)
              THEN IF wm[s] = None THEN now - Lateness ELSE Later(wm[s], now - Lateness)
              ELSE wm[s]]
  /\ lastEvent' = [s \in Source |-> IF Stalled(s) THEN now ELSE lastEvent[s]]
  /\ Flush(open, wm', done)
  /\ UNCHANGED <<now, queue, feeders, done, nextId, dropped, drained>>

\* The loop has ended: every bucket left is emitted.
Drain ==
  /\ ~drained
  /\ AllDone(done)
  /\ out' = out \union open
  /\ open' = {}
  /\ drained' = TRUE
  /\ UNCHANGED <<now, waited, queue, feeders, marks, nextId, dropped>>

\* The clock moves.  While the consumer of the canonical stream is busy no read waits.
Tick ==
  /\ ~drained
  /\ now < MaxNow
  /\ now' = now + 1
  /\ \/ queue = <<>> /\ waited < CheckInterval /\ waited' = waited + 1
     \/ ~Prompt /\ UNCHANGED waited
  /\ UNCHANGED <<queue, feeders, marks, open, nextId, out, dropped, drained>>

Next ==
  \/ \E s \in Source : Emit(s) \/ End(s)
  \/ DropLate \/ Accept \/ TakeDone \/ StallCheck \/ Drain \/ Tick

Spec == Init /\ [][Next]_vars

-----------------------------------------------------------------------------
Buckets == open \union out
Placed == UNION {b.prints : b \in Buckets}
Queued == {queue[i].print : i \in {j \in 1..Len(queue) : queue[j].kind = "event"}}

(* No print is lost or counted twice: what was sent is in the queue, was dropped as late,
   or is in exactly one bucket, whatever closed or drained in between. *)
EachPrintOnce ==
  /\ \A s \in Source, n \in 1..MaxPrints :
       n <= sent[s] => \E p \in Queued \union dropped \union Placed : p.src = s /\ p.n = n
  /\ Queued \intersect (dropped \union Placed) = {}
  /\ dropped \intersect Placed = {}
  /\ \A b, c \in Buckets : b # c => b.prints \intersect c.prints = {}

(* Buckets of one key, open or emitted, never overlap in event time ("temporally
   disjoint", fusion/source.py), and none spans the window or more: the same trade is
   not reported by two canonical prints whose spans interleave. *)
BucketsDisjoint ==
  \A b \in Buckets :
    /\ \A p \in b.prints : b.first <= p.ts /\ p.ts <= b.last
    /\ b.last - b.first < Window
    /\ \A c \in Buckets : b # c /\ b.key = c.key => b.last < c.first \/ c.last < b.first

(* A print that is accepted could not have belonged to a canonical print emitted before
   it: that is what dropping late prints is for. *)
NoLateFalsification ==
  [][\A p \in Queued : p \in Placed' => \A b \in out : ~Fits(b, p)]_vars

(* The global watermark never goes back: neither a source that ends, nor a stalled one
   that is advanced, nor a late event uncloses a time that was closed. *)
WatermarkMonotone ==
  [][\A t \in Times : Reached(t, wm, done) => Reached(t, wm', done') \/ AllDone(done')]_vars

(* Whatever the global watermark has passed has been emitted: after every step, also one
   that only removed the slowest source from the minimum. *)
NothingOverdue == \A b \in open : ~Reached(b.first + Window, wm, done)

(* "Periodic stall check (every ~quarter of stalled_source_timeout_ms)" (source.py:54), "so
   one slow or dead source cannot block the global watermark" (profile.py:1149): when the
   loop keeps up with its queue, no source stays silent and unadvanced for twice the
   timeout. *)
StallDetected ==
  (queue = <<>> /\ ~drained) =>
    \A s \in Source : ~done[s] => now - lastEvent[s] <= 2 * StallTimeout
=============================================================================
