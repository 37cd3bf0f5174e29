--------------------------- MODULE MeasurementLife ---------------------------
(***************************************************************************)
(* What the timed measurement promises for one target, however many        *)
(* workers serve it: it is discovered once; its attempts begin one by one, *)
(* each in the window and a spacing after the end of the one before, so    *)
(* that never two are open; an attempt ends once; and the target gets one  *)
(* verdict, which says a quote was observed only if an attempt ended.      *)
(***************************************************************************)
EXTENDS Integers

CONSTANTS
  Last,       \* attempts a target may have
  Opens,      \* attempt |-> the earliest time it may begin
  Deadline,   \* the end of the window
  Spacing,    \* between the end of an attempt and the next
  None

VARIABLES
  stage,      \* None, then "eligible" or "late"; or "absent"
  began,      \* attempt |-> when it began
  ended,      \* attempt |-> when it ended
  verdict

vars == <<stage, began, ended, verdict>>

Init ==
  /\ stage \in {None, "absent"}
  /\ began = [k \in 1..Last |-> None] /\ ended = [k \in 1..Last |-> None]
  /\ verdict = None

Discover ==
  /\ stage = None /\ stage' \in {"eligible", "late"}
  /\ UNCHANGED <<began, ended, verdict>>

\* The verdict does not bar it: a worker may have looked before another decided.
Begin(k) ==
  /\ stage = "eligible" /\ began[k] = None
  /\ \E s \in Opens[k] .. Deadline - 1 :
       /\ k # 1 => ended[k - 1] # None /\ s >= ended[k - 1] + Spacing
       /\ began' = [began EXCEPT ![k] = s]
  /\ UNCHANGED <<stage, ended, verdict>>

\* Possibly after the deadline.
End(k) ==
  /\ began[k] # None /\ ended[k] = None
  /\ LET e == ended'[k] IN
       e # None /\ e >= began[k] /\ ended' = [ended EXCEPT ![k] = e]
  /\ UNCHANGED <<stage, began, verdict>>

Decide(v) ==
  /\ stage \in {"eligible", "late"} /\ verdict = None
  /\ stage = "late" <=> v = "not_applicable"
  /\ v \in {"observed", "partial"} => \E k \in 1..Last : ended[k] # None
  /\ verdict' = v
  /\ UNCHANGED <<stage, began, ended>>

Next ==
  \/ Discover
  \/ \E k \in 1..Last : Begin(k) \/ End(k)
  \/ \E v \in {"observed", "partial", "missing", "unknown", "not_applicable"} : Decide(v)

Spec == Init /\ [][Next]_vars
=============================================================================
