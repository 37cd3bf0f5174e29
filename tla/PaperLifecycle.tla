--------------------------- MODULE PaperLifecycle ---------------------------
(***************************************************************************)
(* What the PAPER ledger of Live Alpha promises for one opportunity        *)
(* (docs/phase-5.25-live-alpha-acceptance.md section 8, live_alpha/store): *)
(* one simulated position, published once, filled at most once at one      *)
(* price, given at most one exit signal whose reason stands, and closed at *)
(* most once at one price, or left unresolved: never a free exit, never a  *)
(* second life.                                                            *)
(***************************************************************************)
CONSTANTS
  Price,      \* prices a position may be filled or closed at
  NoPrice,
  Reason,     \* reasons for an exit
  NoReason

VARIABLES state, entry, exit, reason

vars == <<state, entry, exit, reason>>

Init == state = "NONE" /\ entry = NoPrice /\ exit = NoPrice /\ reason = NoReason

Publish == state = "NONE" /\ state' = "PAPER_PENDING" /\ UNCHANGED <<entry, exit, reason>>

Fill ==
  /\ state = "PAPER_PENDING" /\ state' = "PAPER_OPEN"
  /\ entry' \in Price
  /\ UNCHANGED <<exit, reason>>

Expire ==
  /\ state = "PAPER_PENDING" /\ state' = "CLOSED_SIMULATED"
  /\ reason' \in Reason
  /\ UNCHANGED <<entry, exit>>

Signal ==
  /\ state = "PAPER_OPEN" /\ state' = "EXIT_SIGNALLED"
  /\ reason' \in Reason
  /\ UNCHANGED <<entry, exit>>

Close ==
  /\ \/ state = "PAPER_OPEN" /\ reason' \in Reason
     \/ state = "EXIT_SIGNALLED" /\ reason' = reason
  /\ state' = "CLOSED_SIMULATED"
  /\ exit' \in Price
  /\ UNCHANGED entry

Abandon == state = "EXIT_SIGNALLED" /\ state' = "UNRESOLVED" /\ UNCHANGED <<entry, exit, reason>>

Next == Publish \/ Fill \/ Expire \/ Signal \/ Close \/ Abandon

Spec == Init /\ [][Next]_vars
=============================================================================
