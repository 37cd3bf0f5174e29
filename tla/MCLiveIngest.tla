---------------------------- MODULE MCLiveIngest ----------------------------
(* Instances of LiveIngest for TLC: one alert of LIVE_TICKERS, one of the hot list. *)
EXTENDS LiveIngest, TLC

CONSTANTS a1, a2, t1, t2

MCTickerOf == (a1 :> t1) @@ (a2 :> t2)

\* The processes are interchangeable; only safety is checked with the symmetry.
Symmetry == Permutations(Proc)
=============================================================================
