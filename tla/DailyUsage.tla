----------------------------- MODULE DailyUsage -----------------------------
(***************************************************************************)
(* What is stored of an app's daily usage and of its suspension, what was  *)
(* really used, and what is promised of the two: the invariants that the   *)
(* operations of DailyLimits keep.                                         *)
(***************************************************************************)
EXTENDS Integers

CONSTANTS
  HoursPerDay,    \* 24
  MaxHour,        \* bound of the clock
  RequestLimit,   \* dailyUnits of runtime.request
  ResourceLimit,  \* dailyUnits of the resource metric
  MaxResource,    \* bound of the resource units used in an hour
  Never           \* no suspension

ASSUME DayAssumption == HoursPerDay \in Nat \ {0} /\ MaxHour \in Nat
ASSUME CapAssumption ==
  RequestLimit \in Nat /\ ResourceLimit \in Nat /\ MaxResource \in Nat

VARIABLES
  hour,        \* the clock, in hours
  daily,       \* daily[d]: the rollup usage_daily:v1 of day d, zeros if absent
  hourly,      \* hourly[d]: units in the records usage_cf_hourly:v1 of day d
  suspension,  \* app_limit_state:v1 of the app, or Never
  recorded     \* history: recorded[d] requests were put in the rollup of day d

Hours == 0..MaxHour

\* usageDate
DayOf(h) == h \div HoursPerDay

Days == {DayOf(h) : h \in Hours}

Expired(s) == s.until <= hour

InForce == suspension # Never /\ ~Expired(suspension)

-----------------------------------------------------------------------------

(***************************************************************************)
(* The requests and the collector read, change and put the whole rollup    *)
(* and overwrite each other; a rollup still never says more than was used: *)
(* its requests were made on its day, its resource units are in the hourly *)
(* records of its day.                                                     *)
(***************************************************************************)
NeverOverCounts ==
  \A d \in Days : /\ daily[d].requests <= recorded[d]
                  /\ daily[d].resource <= hourly[d]

(***************************************************************************)
(* An app is suspended by a daily cap only when it really used up that cap *)
(* on the day it was judged for.                                           *)
(***************************************************************************)
SuspendedForRealUse ==
  InForce /\ suspension.cap = "daily" =>
    \/ recorded[suspension.of] + 1 > RequestLimit
    \/ hourly[suspension.of] > ResourceLimit
=============================================================================
