--------------------------- MODULE MCPaperLedger ---------------------------
(* Instances of PaperLedger for TLC. *)
EXTENDS PaperLedger, TLC

\* The processes are interchangeable; only safety is checked with the symmetry.
Symmetry == Permutations(Cycle)

\* The session of the opportunity and the next one.
TwoDays == <<0, 0, 1>>
\* A session, a day without one, and two more sessions.
FourDays == <<0, 0, 1, 2, 3>>
ShortDay == [t \in Time |-> TwoDays[t + 1]]
LongDay == [t \in Time |-> FourDays[t + 1]]
=============================================================================
