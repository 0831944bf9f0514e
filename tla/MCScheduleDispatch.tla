------------------------- MODULE MCScheduleDispatch -------------------------
(***************************************************************************)
(* Instances of ScheduleDispatch for TLC.                                  *)
(***************************************************************************)
EXTENDS ScheduleDispatch, TLC

CONSTANTS always, once

\* One schedule is due in every minute, the other in the first only.
AlwaysAndOnce == (always :> Minutes) @@ (once :> {0})
=============================================================================
