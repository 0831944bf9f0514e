---------------------------- MODULE DailyLimits ----------------------------
(***************************************************************************)
(* Daily usage of one app and its suspension: runtime requests are counted *)
(* after their answer in the day's rollup in KV and suspend the app when   *)
(* the daily limit is used up (usage.ts, usageLimits.ts, the accounting    *)
(* task of runtime/router.ts); an hourly collector merges what Cloudflare  *)
(* measured into the same rollup and suspends the app or clears its        *)
(* suspension (cloudflareUsage.ts); readers and the hourly cleanup remove  *)
(* suspensions that have expired (appLimits.ts, cleanup.ts).               *)
(*                                                                         *)
(* Two metrics stand for all: runtime.request, counted by the core Worker, *)
(* and one resource metric polled from Cloudflare.  Only the repository's  *)
(* own limits are modelled, not those of its owner and the environment,    *)
(* and the owner is not exempt.  KV is an atomic map; the caches in front  *)
(* of the suspension are left out, and the collector's lock of an hour is  *)
(* taken by one invocation.  Time passes in hours, and a burst suspension, *)
(* of at most a minute, may end in the hour in which it began.             *)
(***************************************************************************)
EXTENDS DailyUsage

CONSTANT
  Requests     \* runtime requests of the app

VARIABLES
  step,        \* step[r]: where request r and its accounting are
  day,         \* day[r]: the day whose rollup r reads and writes
  read,        \* read[r]: the rollup r has read
  verdict,     \* verdict[r]: the suspension r is about to store
  collect,     \* collect[h]: where the collection of hour h is
  merged,      \* merged[h]: the rollup held by the collection of hour h
  cleaning     \* the hourly cleanup has read an expired suspension

vars == <<hour, daily, hourly, suspension, step, day, read, verdict,
          collect, merged, cleaning, recorded>>

\* nextUtcDayIso
NextDay(h) == (DayOf(h) + 1) * HoursPerDay

Rollup == [requests : Nat, resource : Nat]
Empty == [requests |-> 0, resource |-> 0]

(***************************************************************************)
(* AppLimitState; "of" is not stored, it is the day whose rollup was over  *)
(* its limit when the suspension was decided.                              *)
(***************************************************************************)
Suspension == [cap : {"daily", "burst"}, until : Nat, of : Days]

Init ==
  /\ hour = 0
  /\ daily = [d \in Days |-> Empty]
  /\ hourly = [d \in Days |-> 0]
  /\ suspension = Never
  /\ step = [r \in Requests |-> "idle"]
  /\ day = [r \in Requests |-> DayOf(0)]
  /\ read = [r \in Requests |-> Empty]
  /\ verdict = [r \in Requests |-> Never]
  /\ collect = [h \in Hours |-> "due"]
  /\ merged = [h \in Hours |-> Empty]
  /\ cleaning = FALSE
  /\ recorded = [d \in Days |-> 0]

-----------------------------------------------------------------------------
(* A runtime request and its accounting. *)

Goto(r, next) == step' = [step EXCEPT ![r] = next]

(***************************************************************************)
(* enforceAppNotSuspended: a suspension refuses, an expired one is deleted *)
(* first (clearExpiredAppLimitState).                                      *)
(***************************************************************************)
Enforce(r) ==
  /\ step[r] = "idle"
  /\ Goto(r, CASE InForce -> "refused"
               [] suspension # Never /\ Expired(suspension) -> "clear"
               [] OTHER -> "serve")
  /\ UNCHANGED <<hour, daily, hourly, suspension, day, read, verdict,
                 collect, merged, cleaning, recorded>>

ClearExpired(r) ==
  /\ step[r] = "clear"
  /\ suspension' = Never
  /\ Goto(r, "serve")
  /\ UNCHANGED <<hour, daily, hourly, day, read, verdict, collect, merged,
                 cleaning, recorded>>

\* The app answers; recordUsageEvent dates the event and gets the rollup.
Answer(r) ==
  /\ step[r] = "serve"
  /\ day' = [day EXCEPT ![r] = DayOf(hour)]
  /\ Goto(r, "get")
  /\ UNCHANGED <<hour, daily, hourly, suspension, read, verdict, collect,
                 merged, cleaning, recorded>>

RecordGet(r) ==
  /\ step[r] = "get"
  /\ read' = [read EXCEPT ![r] = daily[day[r]]]
  /\ Goto(r, "put")
  /\ UNCHANGED <<hour, daily, hourly, suspension, day, verdict, collect,
                 merged, cleaning, recorded>>

\* The rollup read, with this event added, is put; the check takes the time.
RecordPut(r) ==
  /\ step[r] = "put"
  /\ daily' = [daily EXCEPT ![day[r]] = [read[r] EXCEPT !.requests = @ + 1]]
  /\ day' = [day EXCEPT ![r] = DayOf(hour)]
  /\ Goto(r, "check")
  /\ recorded' = [recorded EXCEPT ![day[r]] = @ + 1]
  /\ UNCHANGED <<hour, hourly, suspension, read, verdict, collect, merged,
                 cleaning>>

\* The get or the put fails: recordUsageEvent swallows the error.
RecordFails(r) ==
  /\ step[r] \in {"get", "put"}
  /\ day' = [day EXCEPT ![r] = DayOf(hour)]
  /\ Goto(r, "check")
  /\ UNCHANGED <<hour, daily, hourly, suspension, read, verdict, collect,
                 merged, cleaning, recorded>>

\* checkUsageLimit of one more unit.
UsedUp(r) == daily[day[r]].requests + 1 > RequestLimit

(***************************************************************************)
(* checkBlockedUsageLimit: the daily limit suspends until the next UTC     *)
(* day; else the burst limit may suspend until its window ends.            *)
(***************************************************************************)
Check(r) ==
  /\ step[r] = "check"
  /\ \/ /\ UsedUp(r)
        /\ verdict' = [verdict EXCEPT ![r] =
             [cap |-> "daily", until |-> NextDay(hour), of |-> day[r]]]
        /\ Goto(r, "suspend")
     \/ /\ ~UsedUp(r)
        /\ verdict' = [verdict EXCEPT ![r] =
             [cap |-> "burst", until |-> hour + 1, of |-> day[r]]]
        /\ Goto(r, "suspend")
     \/ /\ ~UsedUp(r)
        /\ Goto(r, "done")
        /\ UNCHANGED verdict
  /\ UNCHANGED <<hour, daily, hourly, suspension, day, read, collect, merged,
                 cleaning, recorded>>

\* storeAppLimitState, whatever state is stored already.
Suspend(r) ==
  /\ step[r] = "suspend"
  /\ suspension' = verdict[r]
  /\ Goto(r, "done")
  /\ UNCHANGED <<hour, daily, hourly, day, read, verdict, collect, merged,
                 cleaning, recorded>>

\* A get of the check or the put of the suspension fails: the task logs it.
AccountingFails(r) ==
  /\ step[r] \in {"check", "suspend"}
  /\ Goto(r, "done")
  /\ UNCHANGED <<hour, daily, hourly, suspension, day, read, verdict, collect,
                 merged, cleaning, recorded>>

Account(r) == \/ Enforce(r) \/ ClearExpired(r) \/ Answer(r)
              \/ RecordGet(r) \/ RecordPut(r) \/ RecordFails(r)
              \/ Check(r) \/ Suspend(r) \/ AccountingFails(r)

-----------------------------------------------------------------------------
(* The collection of hour h, by an invocation scheduled in hour h + 1. *)

\* The lock of the hour is free and put: later invocations do nothing.
Lock(h) ==
  /\ collect[h] = "due"
  /\ hour > h
  /\ collect' = [collect EXCEPT ![h] = "query"]
  /\ UNCHANGED <<hour, daily, hourly, suspension, step, day, read, verdict,
                 merged, cleaning, recorded>>

\* Cloudflare's answer is stored; an adapter that fails counts as no units.
StoreHour(h, n) ==
  /\ collect[h] = "query"
  /\ hourly' = [hourly EXCEPT ![DayOf(h)] = @ + n]
  /\ collect' = [collect EXCEPT ![h] = "list"]
  /\ UNCHANGED <<hour, daily, suspension, step, day, read, verdict, merged,
                 cleaning, recorded>>

\* listCloudflareUsageHourlyRecords of the day of hour h, summed.
ListHours(h) ==
  /\ collect[h] = "list"
  /\ merged' = [merged EXCEPT ![h].resource = hourly[DayOf(h)]]
  /\ collect' = [collect EXCEPT ![h] = "get"]
  /\ UNCHANGED <<hour, daily, hourly, suspension, step, day, read, verdict,
                 cleaning, recorded>>

\* Mutant: the sums are added to those of the last collection.
MergeGetAdding(h) ==
  /\ collect[h] = "get"
  /\ merged' = [merged EXCEPT
       ![h].requests = daily[DayOf(h)].requests,
       ![h].resource = @ + daily[DayOf(h)].resource]
  /\ collect' = [collect EXCEPT ![h] = "put"]
  /\ UNCHANGED <<hour, daily, hourly, suspension, step, day, read, verdict,
                 cleaning, recorded>>

\* loadUsageDailyRollup; its Cloudflare metrics are replaced by the sums.
MergeGet(h) ==
  /\ collect[h] = "get"
  /\ merged' = [merged EXCEPT ![h].requests = daily[DayOf(h)].requests]
  /\ collect' = [collect EXCEPT ![h] = "put"]
  /\ UNCHANGED <<hour, daily, hourly, suspension, step, day, read, verdict,
                 cleaning, recorded>>

MergePut(h) ==
  /\ collect[h] = "put"
  /\ daily' = [daily EXCEPT ![DayOf(h)] = merged[h]]
  /\ collect' = [collect EXCEPT ![h] = "judge"]
  /\ UNCHANGED <<hour, hourly, suspension, step, day, read, verdict, merged,
                 cleaning, recorded>>

\* Mutant: a metric is exceeded when it reaches its limit.
ExceededAtLimit(m) == m.requests >= RequestLimit \/ m.resource >= ResourceLimit

\* evaluateUsageLimits: a metric is exceeded when it is above its limit.
Exceeded(m) == m.requests > RequestLimit \/ m.resource > ResourceLimit

\* suspendAppForLimits at the scheduled time, or clearAppLimitState.
Judge(h) ==
  /\ collect[h] = "judge"
  /\ suspension' = IF Exceeded(merged[h])
                   THEN [cap |-> "daily", until |-> NextDay(h + 1), of |-> DayOf(h)]
                   ELSE Never
  /\ collect' = [collect EXCEPT ![h] = "done"]
  /\ UNCHANGED <<hour, daily, hourly, step, day, read, verdict, merged,
                 cleaning, recorded>>

\* A KV call fails: the app's collection of this hour ends, the lock stays.
CollectFails(h) ==
  /\ collect[h] \in {"query", "list", "get", "put", "judge"}
  /\ collect' = [collect EXCEPT ![h] = "failed"]
  /\ UNCHANGED <<hour, daily, hourly, suspension, step, day, read, verdict,
                 merged, cleaning, recorded>>

Collect(h) == \/ Lock(h) \/ ListHours(h) \/ MergeGet(h) \/ MergePut(h)
              \/ Judge(h) \/ CollectFails(h)
              \/ \E n \in 0..MaxResource : StoreHour(h, n)

-----------------------------------------------------------------------------

\* cleanupExpiredAppLimits gets an expired suspension, then deletes the key.
CleanupGet ==
  /\ ~cleaning
  /\ suspension # Never
  /\ Expired(suspension)
  /\ cleaning' = TRUE
  /\ UNCHANGED <<hour, daily, hourly, suspension, step, day, read, verdict,
                 collect, merged, recorded>>

CleanupDelete ==
  /\ cleaning
  /\ suspension' = Never
  /\ cleaning' = FALSE
  /\ UNCHANGED <<hour, daily, hourly, step, day, read, verdict, collect,
                 merged, recorded>>

\* The window of a burst suspension ends within the hour.
BurstEnds ==
  /\ InForce
  /\ suspension.cap = "burst"
  /\ suspension' = [suspension EXCEPT !.until = hour]
  /\ UNCHANGED <<hour, daily, hourly, step, day, read, verdict, collect,
                 merged, cleaning, recorded>>

Tick ==
  /\ hour < MaxHour
  /\ hour' = hour + 1
  /\ UNCHANGED <<daily, hourly, suspension, step, day, read, verdict, collect,
                 merged, cleaning, recorded>>

Next == \/ \E r \in Requests : Account(r)
        \/ \E h \in Hours : Collect(h)
        \/ CleanupGet \/ CleanupDelete \/ BurstEnds \/ Tick

Spec == Init /\ [][Next]_vars

-----------------------------------------------------------------------------

TypeOK ==
  /\ hour \in Hours
  /\ daily \in [Days -> Rollup]
  /\ hourly \in [Days -> Nat]
  /\ suspension \in Suspension \cup {Never}
  /\ step \in [Requests -> {"idle", "refused", "clear", "serve", "get", "put",
                            "check", "suspend", "done"}]
  /\ day \in [Requests -> Days]
  /\ read \in [Requests -> Rollup]
  /\ verdict \in [Requests -> Suspension \cup {Never}]
  /\ collect \in [Hours -> {"due", "query", "list", "get", "put", "judge",
                            "done", "failed"}]
  /\ merged \in [Hours -> Rollup]
  /\ cleaning \in BOOLEAN
  /\ recorded \in [Days -> Nat]

(***************************************************************************)
(* "Daily cap suspensions last until the next UTC day"                     *)
(* (docs/usage-accounting.md): no step removes a daily suspension before   *)
(* its end or shortens it.                                                 *)
(***************************************************************************)
DailySuspensionLasts ==
  [][ InForce /\ suspension.cap = "daily" /\ hour' < suspension.until
        => suspension' # Never /\ suspension'.until >= suspension.until ]_vars
=============================================================================
