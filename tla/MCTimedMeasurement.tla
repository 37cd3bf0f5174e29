------------------------- MODULE MCTimedMeasurement -------------------------
(* Instances of TimedMeasurement for TLC. *)
EXTENDS TimedMeasurement, TLC

CONSTANTS t1, t2

MCTargetAt == [t \in Targets |-> 0]
MCDeadline == [t \in Targets |-> 2]
MCOffset == (1 :> 0) @@ (2 :> 1) @@ (3 :> 2)

\* Either a single target from the start of the day and a trouble, or two targets in their
\* last minute and none.
MCInit ==
  /\ Init
  /\ target[t1] = None
  /\ \/ target[t2] = "absent" /\ clock = 0 /\ trouble = MaxTrouble - 1
     \/ target[t2] = None /\ clock = 1 /\ quota = 1 /\ trouble = MaxTrouble

MCSpec == MCInit /\ [][Next]_vars

\* The workers are interchangeable; only safety is checked with the symmetry.
Symmetry == Permutations(Workers)

\* One worker alone: two targets in their last minute, or one from the start of the day.
MCSingleInit ==
  /\ Init
  /\ target[t1] = None /\ quota = 1 /\ trouble = MaxTrouble - 1
  /\ clock = IF target[t2] = None THEN 1 ELSE 0

MCSingleSpec == MCSingleInit /\ [][Next]_vars /\ Fairness
=============================================================================
