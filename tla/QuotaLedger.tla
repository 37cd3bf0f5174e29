---------------------------- MODULE QuotaLedger ----------------------------
(***************************************************************************)
(* The one row of alfa_uw_quota for an ET day (board/quota_ledger.py):     *)
(* what the consumers of the vendor's key have spent or promised.  The row *)
(* is NoRow until a consumer creates it.  Each operator below is one SQL   *)
(* statement, or one transaction of them.                                  *)
(***************************************************************************)
EXTENDS Integers

CONSTANT NoRow

\* A vendor count is believed when the client has one, for this day.
Known(observed) == observed # NoRow

\* _ensure_row: the row exists from here on.
Ensured(quota) == IF quota = NoRow THEN 0 ELSE quota

\* UPDATE ... SET reserved = CASE WHEN reserved < observed THEN observed ELSE reserved END
Raised(quota, observed) ==
  IF Known(observed) /\ Ensured(quota) < observed THEN observed ELSE Ensured(quota)

\* Mutant: the cap is compared before the increment.
FitsBefore(quota, n, cap) == quota <= cap
\* UPDATE ... WHERE reserved + n <= cap: the database evaluates it with the increment.
Fits(quota, n, cap) == quota + n <= cap

\* reserve(): the row, the floor, then the conditional increment; a refusal keeps the floor.
Reserve(quota, observed, n, cap) ==
  LET floor == Raised(quota, observed)
      granted == Fits(floor, n, cap)
  IN  [granted |-> granted, after |-> IF granted THEN floor + n ELSE floor]
=============================================================================
