--------------------------- MODULE MCDailyLimits ---------------------------
(* Instances of DailyLimits; the requests are interchangeable. *)
EXTENDS DailyLimits, TLC

Interchangeable == Permutations(Requests)
=============================================================================
