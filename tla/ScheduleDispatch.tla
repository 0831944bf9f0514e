-------------------------- MODULE ScheduleDispatch --------------------------
(***************************************************************************)
(* Dispatch of app schedules (runtime/scheduleDelivery.ts): every minute   *)
(* the platform invokes the core Worker, which lists the schedule mappings,*)
(* and for each one that is due takes a KV lock for the schedule and the   *)
(* scheduled minute (a get, then a put that expires) and dispatches a      *)
(* request to the app's Worker.  The platform may invoke twice for one     *)
(* minute, late, and while another invocation runs; an isolate may die.    *)
(*                                                                         *)
(* KV is an atomic map (external) and the app's answer is any answer.      *)
(***************************************************************************)
EXTENDS Integers, FiniteSets

CONSTANTS
  Schedules,    \* schedule mappings that can be deployed
  Invocations,  \* platform invocations of handleScheduled
  Due,          \* Due[s]: the minutes in which the cron expression of s is due
  Minute,       \* length of a minute in clock units
  LockTtl,      \* LOCK_TTL_SECONDS in clock units
  MaxClock      \* bound of the clock

ASSUME ClockAssumption == /\ Minute \in Nat \ {0}
                          /\ LockTtl \in Nat \ {0}
                          /\ MaxClock \in Nat
ASSUME DueAssumption == Due \in [Schedules -> SUBSET Nat]

VARIABLES
  now,        \* the clock
  lock,       \* lock[s][m]: when the lock of s and minute m expires, 0 if never set
  status,     \* status[i]: "new", "running", "resolved", "threw" or "died"
  minute,     \* minute[i]: scheduledMinuteIso(scheduledTime)
  task,       \* task[i][s]: where the dispatch of s by invocation i is
  locked,     \* history: locked[i][s] is when i put the lock of s
  sent,       \* history: <<i, s>> for each request dispatched to the app
  met         \* history: pairs of invocations that ran at the same time

vars == <<now, lock, status, minute, task, locked, sent, met>>

Minutes == 0..(MaxClock \div Minute)

(***************************************************************************)
(* One element of the Promise.allSettled: waiting for the lock's get or    *)
(* put, for the deployment and the limit, or for the app's answer, or      *)
(* settled.                                                                *)
(***************************************************************************)
Settled == {"none", "held", "blocked", "delivered", "rejected"}
Pending == {"get", "put", "load", "dispatch"}

Init ==
  /\ now = 0
  /\ lock = [s \in Schedules |-> [m \in Minutes |-> 0]]
  /\ status = [i \in Invocations |-> "new"]
  /\ minute = [i \in Invocations |-> 0]
  /\ task = [i \in Invocations |-> [s \in Schedules |-> "none"]]
  /\ locked = [i \in Invocations |-> [s \in Schedules |-> 0]]
  /\ sent = {}
  /\ met = {}

\* scheduledMinuteIso
ScheduledMinute(t) == t \div Minute

-----------------------------------------------------------------------------

(***************************************************************************)
(* dispatchDueSchedules, for a scheduled time that is now or past: those   *)
(* due of the mappings it lists (deploys add and remove them at any time)  *)
(* all start with the lock's get.                                          *)
(***************************************************************************)
Invoke(i, t, listed) ==
  /\ status[i] = "new"
  /\ t <= now
  /\ status' = [status EXCEPT ![i] = "running"]
  /\ minute' = [minute EXCEPT ![i] = ScheduledMinute(t)]
  /\ task' = [task EXCEPT ![i] =
       [s \in Schedules |->
          IF s \in listed /\ ScheduledMinute(t) \in Due[s]
          THEN "get" ELSE "none"]]
  /\ met' = met \cup {{i, j} : j \in {j \in Invocations :
                                        status[j] = "running"}}
  /\ UNCHANGED <<now, lock, locked, sent>>

Running(i, s, at) == status[i] = "running" /\ task[i][s] = at
Becomes(i, s, at) == task' = [task EXCEPT ![i][s] = at]

\* Mutant: the lock that was read is ignored.
LockGetIgnored(i, s) ==
  /\ Running(i, s, "get")
  /\ Becomes(i, s, "put") \/ Becomes(i, s, "rejected")
  /\ UNCHANGED <<now, lock, status, minute, locked, sent, met>>

(***************************************************************************)
(* acquireScheduleLock, first half: a lock that has not expired ends the   *)
(* task; KV may also reject.                                               *)
(***************************************************************************)
LockGet(i, s) ==
  /\ Running(i, s, "get")
  /\ \/ Becomes(i, s, IF now < lock[s][minute[i]] THEN "held" ELSE "put")
     \/ Becomes(i, s, "rejected")
  /\ UNCHANGED <<now, lock, status, minute, locked, sent, met>>

(***************************************************************************)
(* acquireScheduleLock, second half.                                       *)
(***************************************************************************)
LockPut(i, s) ==
  /\ Running(i, s, "put")
  /\ \/ /\ lock' = [lock EXCEPT ![s][minute[i]] = now + LockTtl]
        /\ locked' = [locked EXCEPT ![i][s] = now]
        /\ Becomes(i, s, "load") \/ Becomes(i, s, "rejected")
     \/ UNCHANGED <<lock, locked>> /\ Becomes(i, s, "rejected")
  /\ UNCHANGED <<now, status, minute, sent, met>>

(***************************************************************************)
(* loadDeploymentRecord and checkBlockedUsageLimit: no deployment or no    *)
(* Worker rejects, a limit that is exceeded skips the dispatch.            *)
(***************************************************************************)
Load(i, s) ==
  /\ Running(i, s, "load")
  /\ \/ Becomes(i, s, "dispatch")
     \/ Becomes(i, s, "blocked")
     \/ Becomes(i, s, "rejected")
  /\ UNCHANGED <<now, lock, status, minute, locked, sent, met>>

(***************************************************************************)
(* dispatchWorker: the request reaches the app or not; anything but a 2xx  *)
(* answer rejects.                                                         *)
(***************************************************************************)
Dispatch(i, s) ==
  /\ Running(i, s, "dispatch")
  /\ \/ /\ sent' = sent \cup {<<i, s>>}
        /\ Becomes(i, s, "delivered") \/ Becomes(i, s, "rejected")
     \/ UNCHANGED sent /\ Becomes(i, s, "rejected")
  /\ UNCHANGED <<now, lock, status, minute, locked, met>>

AllSettled(i) == \A s \in Schedules : task[i][s] \in Settled

\* Mutant: the first settled task settles the invocation (Promise.race).
SettleFirst(i) ==
  /\ status[i] = "running"
  /\ \E s \in Schedules : task[i][s] \in Settled
  /\ status' = [status EXCEPT ![i] = "resolved"]
  /\ UNCHANGED <<now, lock, minute, task, locked, sent, met>>

\* Mutant: rejected results are not looked at.
SettleSilently(i) ==
  /\ status[i] = "running"
  /\ AllSettled(i)
  /\ status' = [status EXCEPT ![i] = "resolved"]
  /\ UNCHANGED <<now, lock, minute, task, locked, sent, met>>

(***************************************************************************)
(* All have settled: the invocation throws when one was rejected.          *)
(***************************************************************************)
Settle(i) ==
  /\ status[i] = "running"
  /\ AllSettled(i)
  /\ status' = [status EXCEPT ![i] =
       IF \E s \in Schedules : task[i][s] = "rejected"
       THEN "threw" ELSE "resolved"]
  /\ UNCHANGED <<now, lock, minute, task, locked, sent, met>>

Die(i) ==
  /\ status[i] = "running"
  /\ status' = [status EXCEPT ![i] = "died"]
  /\ UNCHANGED <<now, lock, minute, task, locked, sent, met>>

Tick ==
  /\ now < MaxClock
  /\ now' = now + 1
  /\ UNCHANGED <<lock, status, minute, task, locked, sent, met>>

Task(i, s) == LockGet(i, s) \/ LockPut(i, s) \/ Load(i, s) \/ Dispatch(i, s)

Next ==
  \/ \E i \in Invocations : \/ \E t \in 0..MaxClock, listed \in SUBSET Schedules :
                                 Invoke(i, t, listed)
                            \/ \E s \in Schedules : Task(i, s)
                            \/ Settle(i)
                            \/ Die(i)
  \/ Tick

Spec == Init /\ [][Next]_vars

(***************************************************************************)
(* Every await of a running invocation ends: KV, the app and the platform  *)
(* answer or fail.  Nothing forces the platform to invoke, or time to pass.*)
(***************************************************************************)
Fairness ==
  \A i \in Invocations : /\ \A s \in Schedules : WF_vars(Task(i, s))
                         /\ WF_vars(Settle(i))

FairSpec == Spec /\ Fairness

-----------------------------------------------------------------------------
(* Properties *)

TypeOK ==
  /\ now \in Nat
  /\ lock \in [Schedules -> [Minutes -> Nat]]
  /\ status \in [Invocations -> {"new", "running", "resolved", "threw", "died"}]
  /\ minute \in [Invocations -> Minutes]
  /\ task \in [Invocations -> [Schedules -> Settled \cup Pending]]
  /\ locked \in [Invocations -> [Schedules -> Nat]]
  /\ sent \subseteq Invocations \X Schedules
  /\ met \subseteq SUBSET Invocations

SentTwice(i, j, s) ==
  /\ i # j
  /\ <<i, s>> \in sent /\ <<j, s>> \in sent
  /\ minute[i] = minute[j]

(***************************************************************************)
(* What the lock does promise: a schedule is dispatched twice for a minute *)
(* only by invocations that overlapped, or when a lock had expired.        *)
(***************************************************************************)
TwiceOnlyWhenOverlapping ==
  \A i, j \in Invocations, s \in Schedules :
    SentTwice(i, j, s) /\ {i, j} \notin met =>
      \/ locked[i][s] + LockTtl <= locked[j][s]
      \/ locked[j][s] + LockTtl <= locked[i][s]

(***************************************************************************)
(* A dispatch that did not happen is never silent.  When an invocation     *)
(* resolves, each schedule it found due was delivered, was blocked by a    *)
(* usage limit, or is the business of another invocation of that minute    *)
(* that is running, died, or reported its failure to the platform.         *)
(***************************************************************************)
NoSilentLoss ==
  \A i \in Invocations, s \in Schedules :
    status[i] = "resolved" /\ task[i][s] # "none" =>
      \E j \in Invocations :
        /\ minute[j] = minute[i]
        /\ \/ task[j][s] \in {"delivered", "blocked"}
           \/ j # i /\ status[j] \in {"running", "threw", "died"}
                    /\ task[j][s] \notin {"none", "get", "held"}

(***************************************************************************)
(* One schedule that fails or hangs on its lock does not keep the others   *)
(* waiting: every schedule an invocation found due is settled, unless the  *)
(* isolate dies.                                                           *)
(***************************************************************************)
EveryDueTaskSettles ==
  \A i \in Invocations, s \in Schedules :
    task[i][s] = "get" ~> task[i][s] \in Settled \/ status[i] = "died"
=============================================================================
