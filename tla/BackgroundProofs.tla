-------------------------- MODULE BackgroundProofs --------------------------
(***************************************************************************)
(* Proofs about the work an app has done in the background.  First         *)
(* ScheduleDispatch, for any schedules, invocations and times: what the    *)
(* get-then-put lock promises.  Then WorkflowAdmission, for any requests,  *)
(* ids, limit and number of attempts: what the active markers promise.     *)
(***************************************************************************)
EXTENDS ScheduleDispatch, WorkflowInstances, FiniteSetTheorems, TLAPS

(***************************************************************************)
(* A time up to the bound lies in one of the minutes.                      *)
(***************************************************************************)
LEMMA MinuteType == \A t \in 0..MaxClock : ScheduledMinute(t) \in Minutes
  BY ClockAssumption DEF ScheduledMinute, Minutes

(***************************************************************************)
(* Nothing has run, and every minute starts at 0.                          *)
(***************************************************************************)
LEMMA InitType == Init => TypeOK
<1>1. 0 \in Minutes
  BY ClockAssumption DEF Minutes
<1> QED
  BY <1>1 DEF Init, TypeOK, Settled

(***************************************************************************)
(* A task moves to one of its states.                                      *)
(***************************************************************************)
LEMMA BecomesType ==
  ASSUME TypeOK, NEW i \in Invocations, NEW s \in Schedules,
         NEW at \in Settled \cup Pending, Becomes(i, s, at)
  PROVE  task' \in [Invocations -> [Schedules -> Settled \cup Pending]]
  BY DEF TypeOK, Becomes

(***************************************************************************)
(* Every step keeps the types.                                             *)
(***************************************************************************)
LEMMA StepType == TypeOK /\ [Next]_vars => TypeOK'
<1> SUFFICES ASSUME TypeOK, [Next]_vars
             PROVE  TypeOK'
  OBVIOUS
<1>1. CASE UNCHANGED vars
  BY <1>1 DEF vars, TypeOK
<1>2. ASSUME NEW i \in Invocations, NEW t \in 0..MaxClock,
             NEW list \in SUBSET Schedules, Invoke(i, t, list)
      PROVE  TypeOK'
  <2>1. minute' \in [Invocations -> Minutes]
    BY <1>2, MinuteType DEF Invoke, TypeOK
  <2>2. task' \in [Invocations -> [Schedules -> Settled \cup Pending]]
    BY <1>2 DEF Invoke, TypeOK, Settled, Pending
  <2>3. met' \subseteq SUBSET Invocations
    BY <1>2 DEF Invoke, TypeOK
  <2>4. status' \in [Invocations ->
                       {"new", "running", "resolved", "threw", "died"}]
    BY <1>2 DEF Invoke, TypeOK
  <2> QED
    BY <1>2, <2>1, <2>2, <2>3, <2>4 DEF Invoke, TypeOK
<1>3. ASSUME NEW i \in Invocations, NEW s \in Schedules, Task(i, s)
      PROVE  TypeOK'
  <2>1. task' \in [Invocations -> [Schedules -> Settled \cup Pending]]
    BY <1>3, BecomesType
       DEF Task, LockGet, LockPut, Load, Dispatch, Settled, Pending
  <2>2. CASE LockGet(i, s) \/ Load(i, s) \/ Dispatch(i, s)
    BY <2>1, <2>2 DEF LockGet, Load, Dispatch, TypeOK
  <2>3. CASE LockPut(i, s)
    <3>1. now + LockTtl \in Nat /\ minute[i] \in Minutes
      BY ClockAssumption DEF TypeOK
    <3>2. \/ UNCHANGED <<lock, locked>>
          \/ /\ lock' = [lock EXCEPT ![s][minute[i]] = now + LockTtl]
             /\ locked' = [locked EXCEPT ![i][s] = now]
      BY <2>3 DEF LockPut
    <3>3. lock' \in [Schedules -> [Minutes -> Nat]]
      <4>1. CASE lock' = lock
        BY <4>1 DEF TypeOK
      <4>2. CASE lock' = [lock EXCEPT ![s][minute[i]] = now + LockTtl]
        <5>1. lock \in [Schedules -> [Minutes -> Nat]]
          BY DEF TypeOK
        <5> QED
          BY <3>1, <4>2, <5>1
      <4> QED
        BY <3>2, <4>1, <4>2
    <3>4. locked' \in [Invocations -> [Schedules -> Nat]]
      <4>1. CASE locked' = locked
        BY <4>1 DEF TypeOK
      <4>2. CASE locked' = [locked EXCEPT ![i][s] = now]
        BY <4>2 DEF TypeOK
      <4> QED
        BY <3>2, <4>1, <4>2
    <3> QED
      BY <2>1, <2>3, <3>3, <3>4 DEF LockPut, TypeOK
  <2> QED
    BY <1>3, <2>2, <2>3 DEF Task
<1>4. ASSUME NEW i \in Invocations, Settle(i) \/ Die(i)
      PROVE  TypeOK'
  BY <1>4 DEF Settle, Die, TypeOK
<1>5. CASE Tick
  BY <1>5 DEF Tick, TypeOK
<1> QED
  BY <1>1, <1>2, <1>3, <1>4, <1>5 DEF Next

(***************************************************************************)
(* The state of the dispatcher is always well typed.                       *)
(***************************************************************************)
THEOREM TypeCorrect == Spec => []TypeOK
  BY InitType, StepType, PTL DEF Spec

-----------------------------------------------------------------------------
(***************************************************************************)
(* Why the lock separates invocations that do not overlap.  Holds: the     *)
(* invocation has put the lock and not given up before dispatching.        *)
(***************************************************************************)
Holds(i, s) == task[i][s] \in {"load", "dispatch"} \/ <<i, s>> \in sent

Apart(i, j) == i # j /\ minute[i] = minute[j] /\ {i, j} \notin met

NewIsBlank ==
  \A i \in Invocations, s \in Schedules : status[i] = "new" =>
    task[i][s] = "none" /\ <<i, s>> \notin sent

SentIsSettled ==
  \A i \in Invocations, s \in Schedules : <<i, s>> \in sent =>
    task[i][s] \in {"delivered", "rejected"}

RunningMet ==
  \A i, j \in Invocations :
    i # j /\ status[i] = "running" /\ status[j] = "running" => {i, j} \in met

LockRecent ==
  \A s \in Schedules, m \in Minutes : lock[s][m] <= now + LockTtl

HolderLocked ==
  \A i \in Invocations, s \in Schedules : Holds(i, s) =>
    /\ locked[i][s] <= now
    /\ locked[i][s] + LockTtl <= lock[s][minute[i]]

PutAfterExpiry ==
  \A i, j \in Invocations, s \in Schedules :
    Apart(i, j) /\ Holds(i, s) /\ status[j] = "running" /\ task[j][s] = "put" =>
      locked[i][s] + LockTtl <= now

HoldersApart ==
  \A i, j \in Invocations, s \in Schedules :
    Apart(i, j) /\ Holds(i, s) /\ Holds(j, s) =>
      \/ locked[i][s] + LockTtl <= locked[j][s]
      \/ locked[j][s] + LockTtl <= locked[i][s]

LockOrder ==
  /\ NewIsBlank /\ SentIsSettled /\ RunningMet /\ LockRecent
  /\ HolderLocked /\ PutAfterExpiry /\ HoldersApart

(***************************************************************************)
(* Before the first invocation nothing is locked.                          *)
(***************************************************************************)
LEMMA InitOrder == Init => LockOrder
  BY ClockAssumption
     DEF Init, LockOrder, NewIsBlank, SentIsSettled, RunningMet, LockRecent,
         HolderLocked, PutAfterExpiry, HoldersApart, Holds

(***************************************************************************)
(* A new invocation has met all that run and holds nothing.                *)
(***************************************************************************)
LEMMA InvokeOrder ==
  ASSUME TypeOK, LockOrder, NEW i \in Invocations, NEW t \in 0..MaxClock,
         NEW list \in SUBSET Schedules, Invoke(i, t, list)
  PROVE  LockOrder'
<1> USE DEF LockOrder
<1>0. /\ status[i] = "new" /\ status'[i] = "running"
      /\ UNCHANGED <<now, lock, locked, sent>>
      /\ \A j \in Invocations \ {i} : /\ status'[j] = status[j]
                                      /\ minute'[j] = minute[j]
                                      /\ task'[j] = task[j]
      /\ \A s \in Schedules : task'[i][s] \in {"get", "none"}
      /\ \A j \in Invocations : status[j] = "running" => {i, j} \in met'
      /\ met \subseteq met'
  BY DEF Invoke, TypeOK
<1>1. \A s \in Schedules : ~ Holds(i, s)'
  BY <1>0 DEF Holds, NewIsBlank
<1>2. \A j \in Invocations \ {i}, s \in Schedules : Holds(j, s)' => Holds(j, s)
  BY <1>0 DEF Holds
<1>3. \A j, k \in Invocations \ {i} : Apart(j, k)' => Apart(j, k)
  BY <1>0 DEF Apart
<1>4. NewIsBlank' /\ SentIsSettled' /\ LockRecent'
  BY <1>0 DEF NewIsBlank, SentIsSettled, LockRecent
<1>5. RunningMet'
  <2> SUFFICES ASSUME NEW j \in Invocations, NEW k \in Invocations, j # k,
                      status'[j] = "running", status'[k] = "running"
               PROVE  {j, k} \in met'
    BY DEF RunningMet
  <2>1. CASE j = i
    BY <1>0, <2>1
  <2>2. CASE k = i
    <3>1. {j, k} = {i, j}
      BY <2>2
    <3> QED
      BY <1>0, <2>2, <3>1
  <2>3. CASE j # i /\ k # i
    BY <1>0, <2>3 DEF RunningMet
  <2> QED
    BY <2>1, <2>2, <2>3
<1>6. HolderLocked'
  BY <1>0, <1>1, <1>2 DEF HolderLocked
<1>7. PutAfterExpiry'
  BY <1>0, <1>1, <1>2, <1>3 DEF PutAfterExpiry
<1>8. HoldersApart'
  BY <1>0, <1>1, <1>2, <1>3 DEF HoldersApart
<1> QED
  BY <1>4, <1>5, <1>6, <1>7, <1>8

(***************************************************************************)
(* A step of a task other than the put of the lock.  The get is the one    *)
(* that reads a lock that has expired.                                     *)
(***************************************************************************)
LEMMA TaskOrder ==
  ASSUME TypeOK, LockOrder, NEW i \in Invocations, NEW s \in Schedules,
         LockGet(i, s) \/ Load(i, s) \/ Dispatch(i, s)
  PROVE  LockOrder'
<1> USE DEF LockOrder
<1>0. /\ UNCHANGED <<now, lock, status, minute, locked, met>>
      /\ status[i] = "running"
      /\ \A j \in Invocations, r \in Schedules :
           <<j, r>> # <<i, s>> => task'[j][r] = task[j][r]
      /\ \A j \in Invocations, r \in Schedules :
           <<j, r>> # <<i, s>> => (<<j, r>> \in sent' <=> <<j, r>> \in sent)
  BY DEF LockGet, Load, Dispatch, Running, Becomes, TypeOK
<1>1. Holds(i, s)' => Holds(i, s)
  BY DEF LockGet, Load, Dispatch, Running, Becomes, TypeOK, Holds
<1>2. \A j \in Invocations, r \in Schedules : Holds(j, r)' => Holds(j, r)
  BY <1>0, <1>1 DEF Holds
<1>3. \A j, k \in Invocations : Apart(j, k)' = Apart(j, k)
  BY <1>0 DEF Apart
<1>4. NewIsBlank' /\ RunningMet' /\ LockRecent'
  BY <1>0 DEF NewIsBlank, RunningMet, LockRecent
<1>7. SentIsSettled'
  <2>1. <<i, s>> \in sent' => task'[i][s] \in {"delivered", "rejected"}
    BY DEF LockGet, Load, Dispatch, Running, Becomes, TypeOK, SentIsSettled
  <2> QED
    BY <1>0, <2>1 DEF SentIsSettled
<1>5. HolderLocked' /\ HoldersApart'
  BY <1>0, <1>2, <1>3 DEF HolderLocked, HoldersApart
<1>6. PutAfterExpiry'
  <2> SUFFICES ASSUME NEW j \in Invocations, NEW k \in Invocations,
                      NEW r \in Schedules, Apart(j, k)', Holds(j, r)',
                      status'[k] = "running", task'[k][r] = "put"
               PROVE  locked'[j][r] + LockTtl <= now'
    BY DEF PutAfterExpiry
  <2>1. Apart(j, k) /\ Holds(j, r)
    BY <1>2, <1>3
  <2>2. CASE task[k][r] = "put"
    BY <1>0, <2>1, <2>2 DEF PutAfterExpiry
  <2>3. CASE task[k][r] # "put"
    <3>1. k = i /\ r = s
      BY <1>0, <2>3
    <3>2. now >= lock[s][minute[i]]
      <4>1. LockGet(i, s) /\ task'[i][s] = "put"
        BY <2>3, <3>1 DEF LockGet, Load, Dispatch, Running, Becomes, TypeOK
      <4>2. lock[s][minute[i]] \in Nat /\ now \in Nat
        BY DEF TypeOK
      <4> QED
        BY <4>1, <4>2 DEF LockGet, Becomes, TypeOK
    <3>3. locked[j][r] + LockTtl <= lock[s][minute[i]]
      BY <2>1, <3>1 DEF HolderLocked, Apart
    <3>4. /\ locked[j][r] \in Nat /\ LockTtl \in Nat
          /\ lock[s][minute[i]] \in Nat /\ now \in Nat
      BY ClockAssumption DEF TypeOK
    <3> QED
      BY <1>0, <3>2, <3>3, <3>4
  <2> QED
    BY <2>2, <2>3
<1> QED
  BY <1>4, <1>5, <1>6, <1>7

(***************************************************************************)
(* The put of the lock: whoever held it apart from this invocation did so  *)
(* a whole LockTtl ago, and whoever waits to put it too has met this one.  *)
(***************************************************************************)
LEMMA PutOrder ==
  ASSUME TypeOK, LockOrder, NEW i \in Invocations, NEW s \in Schedules,
         LockPut(i, s)
  PROVE  LockOrder'
<1> USE DEF LockOrder
<1>0. /\ UNCHANGED <<now, status, minute, sent, met>>
      /\ status[i] = "running" /\ task[i][s] = "put"
      /\ \A j \in Invocations, r \in Schedules : <<j, r>> # <<i, s>> =>
           task'[j][r] = task[j][r] /\ locked'[j][r] = locked[j][r]
  BY DEF LockPut, Running, Becomes, TypeOK
<1>1. now \in Nat /\ LockTtl \in Nat
  BY ClockAssumption DEF TypeOK
<1>2. \A r \in Schedules, m \in Minutes :
        /\ lock[r][m] <= lock'[r][m]
        /\ lock'[r][m] <= now + LockTtl
  <2> SUFFICES ASSUME NEW r \in Schedules, NEW m \in Minutes
               PROVE  /\ lock[r][m] <= lock'[r][m]
                      /\ lock'[r][m] <= now + LockTtl
    OBVIOUS
  <2>1. lock[r][m] \in Nat /\ lock[r][m] <= now + LockTtl
    BY DEF TypeOK, LockRecent
  <2>2. lock' = lock \/ lock' = [lock EXCEPT ![s][minute[i]] = now + LockTtl]
    BY DEF LockPut
  <2>3. lock'[r][m] = lock[r][m] \/ lock'[r][m] = now + LockTtl
    BY <2>2 DEF TypeOK
  <2> QED
    BY <1>1, <2>1, <2>3
<1>3. \A j, k \in Invocations : Apart(j, k)' = Apart(j, k)
  BY <1>0 DEF Apart
<1>4. \A j \in Invocations, r \in Schedules :
        Holds(j, r)' /\ <<j, r>> # <<i, s>> => Holds(j, r)
  BY <1>0 DEF Holds
<1>5. task'[i][s] \in {"load", "rejected"}
  BY DEF LockPut, Becomes, TypeOK
<1>6. Holds(i, s)' => /\ locked'[i][s] = now
                      /\ lock'[s][minute[i]] = now + LockTtl
  <2> SUFFICES ASSUME Holds(i, s)'
               PROVE  /\ locked'[i][s] = now
                      /\ lock'[s][minute[i]] = now + LockTtl
    OBVIOUS
  <2>1. task'[i][s] = "load"
    BY <1>0, <1>5 DEF Holds, SentIsSettled
  <2>2. /\ lock' = [lock EXCEPT ![s][minute[i]] = now + LockTtl]
        /\ locked' = [locked EXCEPT ![i][s] = now]
    BY <2>1 DEF LockPut, Becomes, TypeOK
  <2> QED
    BY <2>2 DEF TypeOK
<1>7. NewIsBlank' /\ SentIsSettled' /\ RunningMet' /\ LockRecent'
  BY <1>0, <1>2 DEF NewIsBlank, SentIsSettled, RunningMet, LockRecent
<1>8. HolderLocked'
  <2> SUFFICES ASSUME NEW j \in Invocations, NEW r \in Schedules, Holds(j, r)'
               PROVE  /\ locked'[j][r] <= now
                      /\ locked'[j][r] + LockTtl <= lock'[r][minute[j]]
    BY <1>0 DEF HolderLocked
  <2>1. CASE <<j, r>> = <<i, s>>
    BY <1>1, <1>6, <2>1
  <2>2. CASE <<j, r>> # <<i, s>>
    <3>1. Holds(j, r)
      BY <1>4, <2>2
    <3>2. TypeOK'
      BY StepType DEF Next, Task
    <3>3. /\ locked[j][r] \in Nat /\ lock[r][minute[j]] \in Nat
          /\ minute[j] \in Minutes /\ lock'[r][minute[j]] \in Nat
      BY <1>0, <3>2 DEF TypeOK
    <3>4. lock[r][minute[j]] <= lock'[r][minute[j]]
      BY <1>2, <3>3
    <3> QED
      BY <1>0, <1>1, <2>2, <3>1, <3>3, <3>4 DEF HolderLocked
  <2> QED
    BY <2>1, <2>2
<1>9. PutAfterExpiry'
  <2> SUFFICES ASSUME NEW j \in Invocations, NEW k \in Invocations,
                      NEW r \in Schedules, Apart(j, k)', Holds(j, r)',
                      status'[k] = "running", task'[k][r] = "put"
               PROVE  locked'[j][r] + LockTtl <= now
    BY <1>0 DEF PutAfterExpiry
  <2>1. Apart(j, k) /\ <<k, r>> # <<i, s>> /\ task[k][r] = "put"
    BY <1>0, <1>3, <1>5
  <2>2. ASSUME <<j, r>> = <<i, s>>
        PROVE  FALSE
    <3>1. {j, k} \in met
      BY <1>0, <2>1, <2>2 DEF RunningMet, Apart
    <3> QED
      BY <2>1, <3>1 DEF Apart
  <2> QED
    BY <1>0, <1>4, <2>1, <2>2 DEF PutAfterExpiry
<1>10. HoldersApart'
  <2>1. \A j \in Invocations :
          Apart(j, i) /\ Holds(j, s) => locked[j][s] + LockTtl <= now
    BY <1>0 DEF PutAfterExpiry
  <2>2. \A j \in Invocations : Apart(i, j) => Apart(j, i)
    <3>1. \A j \in Invocations : {i, j} = {j, i}
      OBVIOUS
    <3> QED
      BY <3>1 DEF Apart
  <2>3. \A j \in Invocations : Apart(i, j) \/ Apart(j, i) => j # i
    BY DEF Apart
  <2> SUFFICES ASSUME NEW j \in Invocations, NEW k \in Invocations,
                      NEW r \in Schedules, Apart(j, k)', Holds(j, r)', Holds(k, r)'
               PROVE  \/ locked'[j][r] + LockTtl <= locked'[k][r]
                      \/ locked'[k][r] + LockTtl <= locked'[j][r]
    BY DEF HoldersApart
  <2>4. Apart(j, k) /\ j # k
    BY <1>3 DEF Apart
  <2>5. CASE <<j, r>> = <<i, s>>
    BY <1>0, <1>4, <1>6, <2>1, <2>2, <2>4, <2>5
  <2>6. CASE <<k, r>> = <<i, s>>
    BY <1>0, <1>4, <1>6, <2>1, <2>4, <2>6
  <2>7. CASE <<j, r>> # <<i, s>> /\ <<k, r>> # <<i, s>>
    BY <1>0, <1>4, <2>4, <2>7 DEF HoldersApart
  <2> QED
    BY <2>5, <2>6, <2>7
<1> QED
  BY <1>7, <1>8, <1>9, <1>10

(***************************************************************************)
(* The end of an invocation changes no lock, and the passing of time only  *)
(* makes what was locked older.                                            *)
(***************************************************************************)
LEMMA EndOrder ==
  ASSUME TypeOK, LockOrder,
         \/ \E i \in Invocations : Settle(i) \/ Die(i)
         \/ Tick
         \/ UNCHANGED vars
  PROVE  LockOrder'
<1> USE DEF LockOrder
<1>0. /\ UNCHANGED <<lock, minute, task, locked, sent, met>>
      /\ now \in Nat /\ now' \in Nat /\ now <= now'
      /\ \A i \in Invocations : status'[i] \in {"running", "new"} =>
                                 status[i] = status'[i]
  BY DEF Settle, Die, Tick, vars, TypeOK
<1>1. /\ \A i \in Invocations, s \in Schedules :
           Holds(i, s)' = Holds(i, s) /\ locked[i][s] \in Nat
      /\ \A i, j \in Invocations : Apart(i, j)' = Apart(i, j)
      /\ LockTtl \in Nat
      /\ \A s \in Schedules, m \in Minutes : lock[s][m] \in Nat
  BY <1>0, ClockAssumption DEF Holds, Apart, TypeOK
<1>2. NewIsBlank' /\ SentIsSettled' /\ RunningMet'
  BY <1>0 DEF NewIsBlank, SentIsSettled, RunningMet
<1>3. LockRecent'
  BY <1>0, <1>1 DEF LockRecent
<1>4. HolderLocked'
  BY <1>0, <1>1 DEF HolderLocked
<1>5. PutAfterExpiry'
  BY <1>0, <1>1 DEF PutAfterExpiry
<1>6. HoldersApart'
  BY <1>0, <1>1 DEF HoldersApart
<1> QED
  BY <1>2, <1>3, <1>4, <1>5, <1>6

(***************************************************************************)
(* Every step keeps the order of the locks.                                *)
(***************************************************************************)
LEMMA StepOrder == TypeOK /\ LockOrder /\ [Next]_vars => LockOrder'
  BY InvokeOrder, TaskOrder, PutOrder, EndOrder DEF Next, Task

(***************************************************************************)
(* A schedule was sent twice for a minute only by invocations that met, or *)
(* a LockTtl after one another.                                            *)
(***************************************************************************)
LEMMA OrderSuffices == LockOrder => TwiceOnlyWhenOverlapping
  BY DEF LockOrder, HoldersApart, TwiceOnlyWhenOverlapping, SentTwice,
         Apart, Holds

(***************************************************************************)
(* The promise of acquireScheduleLock, for any number of invocations.      *)
(***************************************************************************)
THEOREM LockSeparates == Spec => []TwiceOnlyWhenOverlapping
  BY InitType, StepType, InitOrder, StepOrder, OrderSuffices, PTL DEF Spec

-----------------------------------------------------------------------------
(***************************************************************************)
(* Losses.  A lock that was ever put was put by a task that is beyond it;  *)
(* a task that was held found one; what has resolved has settled, and      *)
(* nothing of it was rejected.                                             *)
(***************************************************************************)
BeyondLock == {"load", "dispatch", "blocked", "delivered", "rejected"}

LocksHaveOwners ==
  \A s \in Schedules, m \in Minutes : lock[s][m] # 0 =>
    \E j \in Invocations :
      minute[j] = m /\ status[j] # "new" /\ task[j][s] \in BeyondLock

HeldByALock ==
  \A i \in Invocations, s \in Schedules :
    task[i][s] = "held" => status[i] # "new" /\ lock[s][minute[i]] # 0

ResolvedIsSettled ==
  \A i \in Invocations, s \in Schedules :
    status[i] = "resolved" => task[i][s] \in Settled \ {"rejected"}

LossInv == LocksHaveOwners /\ HeldByALock /\ ResolvedIsSettled

\* The parts answer for every schedule that was due.
LEMMA LossSuffices == TypeOK /\ LossInv => NoSilentLoss
<1> SUFFICES ASSUME TypeOK, LossInv, NEW i \in Invocations, NEW s \in Schedules,
                    status[i] = "resolved", task[i][s] # "none"
             PROVE  \E j \in Invocations :
                      /\ minute[j] = minute[i]
                      /\ \/ task[j][s] \in {"delivered", "blocked"}
                         \/ j # i /\ status[j] \in {"running", "threw", "died"}
                                  /\ task[j][s] \notin {"none", "get", "held"}
  BY DEF NoSilentLoss
<1>1. task[i][s] \in {"held", "blocked", "delivered"}
  BY DEF LossInv, ResolvedIsSettled, Settled
<1>2. CASE task[i][s] = "held"
  <2>1. PICK j \in Invocations :
          minute[j] = minute[i] /\ status[j] # "new" /\ task[j][s] \in BeyondLock
    BY <1>2 DEF LossInv, HeldByALock, LocksHaveOwners, TypeOK
  <2>2. CASE status[j] = "resolved"
    BY <2>1, <2>2 DEF LossInv, ResolvedIsSettled, Settled, BeyondLock
  <2>3. CASE status[j] # "resolved"
    <3>1. status[j] \in {"running", "threw", "died"} /\ j # i
      BY <2>1, <2>3 DEF TypeOK
    <3> QED
      BY <2>1, <3>1 DEF BeyondLock
  <2> QED
    BY <2>2, <2>3
<1> QED
  BY <1>1, <1>2

(***************************************************************************)
(* A task moves on without undoing what it did for its lock.               *)
(***************************************************************************)
LEMMA TaskLoss ==
  ASSUME TypeOK, LossInv, NEW i \in Invocations, NEW s \in Schedules, Task(i, s)
  PROVE  LossInv'
<1>1. /\ status[i] = "running" /\ UNCHANGED <<status, minute>>
      /\ task[i][s] \in Pending
  BY DEF Task, LockGet, LockPut, Load, Dispatch, Running, Pending
<1>2. \A j \in Invocations, t \in Schedules :
        <<j, t>> # <<i, s>> => task'[j][t] = task[j][t]
  BY DEF Task, LockGet, LockPut, Load, Dispatch, Becomes, TypeOK
<1>3. ResolvedIsSettled'
  BY <1>1, <1>2 DEF LossInv, ResolvedIsSettled
<1>4. task[i][s] \in BeyondLock => task'[i][s] \in BeyondLock
  BY DEF Task, LockGet, LockPut, Load, Dispatch, Running, Becomes, BeyondLock, TypeOK
<1>5. CASE LockPut(i, s) /\ lock' # lock
  <2>1. /\ lock' = [lock EXCEPT ![s][minute[i]] = now + LockTtl]
        /\ task'[i][s] \in {"load", "rejected"}
        /\ now + LockTtl # 0 /\ minute[i] \in Minutes
    BY <1>5, ClockAssumption DEF LockPut, Becomes, TypeOK
  <2>2. \A t \in Schedules, m \in Minutes :
          lock'[t][m] # 0 => lock[t][m] # 0 \/ (t = s /\ m = minute[i])
    BY <2>1 DEF TypeOK
  <2>3. \A t \in Schedules, m \in Minutes : lock[t][m] # 0 => lock'[t][m] # 0
    BY <2>1 DEF TypeOK
  <2>4. LocksHaveOwners'
    <3> SUFFICES ASSUME NEW t \in Schedules, NEW m \in Minutes, lock'[t][m] # 0
                 PROVE  \E j \in Invocations :
                          /\ minute[j] = m /\ status[j] # "new"
                          /\ task'[j][t] \in BeyondLock
      BY <1>1 DEF LocksHaveOwners
    <3>1. CASE t = s /\ m = minute[i]
      BY <1>1, <2>1, <3>1 DEF BeyondLock
    <3>2. CASE lock[t][m] # 0
      BY <1>2, <1>4, <3>2 DEF LossInv, LocksHaveOwners
    <3> QED
      BY <2>2, <3>1, <3>2
  <2>5. HeldByALock'
    BY <1>1, <1>2, <2>1, <2>3 DEF LossInv, HeldByALock, TypeOK
  <2> QED
    BY <1>3, <2>4, <2>5 DEF LossInv
<1>6. CASE lock' = lock
  <2>1. LocksHaveOwners'
    BY <1>1, <1>2, <1>4, <1>6 DEF LossInv, LocksHaveOwners
  <2>2. task'[i][s] = "held" => lock[s][minute[i]] # 0
    <3>1. CASE LockGet(i, s)
      <4>1. CASE now < lock[s][minute[i]]
        BY <4>1 DEF TypeOK
      <4>2. CASE ~ (now < lock[s][minute[i]])
        BY <3>1, <4>2 DEF LockGet, Becomes, TypeOK
      <4> QED
        BY <4>1, <4>2
    <3>2. CASE LockPut(i, s) \/ Load(i, s) \/ Dispatch(i, s)
      BY <3>2 DEF LockPut, Load, Dispatch, Becomes, TypeOK
    <3> QED
      BY <3>1, <3>2 DEF Task
  <2>3. HeldByALock'
    BY <1>1, <1>2, <1>6, <2>2 DEF LossInv, HeldByALock
  <2> QED
    BY <1>3, <2>1, <2>3 DEF LossInv
<1>7. lock' = lock \/ LockPut(i, s)
  BY DEF Task, LockGet, Load, Dispatch
<1> QED
  BY <1>5, <1>6, <1>7

\* Every step keeps the parts.
LEMMA StepLoss ==
  ASSUME TypeOK, LossInv, [Next]_vars
  PROVE  LossInv'
<1>1. CASE UNCHANGED vars \/ Tick
  BY <1>1 DEF vars, Tick, LossInv, LocksHaveOwners, HeldByALock, ResolvedIsSettled
<1>2. ASSUME NEW i \in Invocations, NEW t \in 0..MaxClock,
             NEW list \in SUBSET Schedules, Invoke(i, t, list)
      PROVE  LossInv'
  <2>1. /\ status[i] = "new" /\ status'[i] = "running" /\ lock' = lock
        /\ \A s \in Schedules : task'[i][s] \in {"get", "none"}
        /\ \A j \in Invocations : j # i =>
             status'[j] = status[j] /\ minute'[j] = minute[j] /\ task'[j] = task[j]
    BY <1>2 DEF Invoke, TypeOK
  <2> QED
    BY <2>1 DEF LossInv, LocksHaveOwners, HeldByALock, ResolvedIsSettled
<1>3. ASSUME NEW i \in Invocations, NEW s \in Schedules, Task(i, s)
      PROVE  LossInv'
  BY <1>3, TaskLoss
<1>4. ASSUME NEW i \in Invocations, Settle(i) \/ Die(i)
      PROVE  LossInv'
  <2>1. /\ UNCHANGED <<lock, minute, task>> /\ status'[i] # "new"
        /\ status'[i] = "resolved" =>
             \A s \in Schedules : task[i][s] \in Settled \ {"rejected"}
        /\ \A j \in Invocations : j # i => status'[j] = status[j]
    BY <1>4 DEF Settle, Die, AllSettled, TypeOK
  <2> QED
    BY <2>1 DEF LossInv, LocksHaveOwners, HeldByALock, ResolvedIsSettled
<1> QED
  BY <1>1, <1>2, <1>3, <1>4 DEF Next

(***************************************************************************)
(* A due schedule that was not dispatched is never lost silently, for any  *)
(* number of invocations, any schedules and any TTL of the lock.           *)
(***************************************************************************)
THEOREM LossesAreReported == Spec => []NoSilentLoss
<1>1. Init => LossInv
  BY DEF Init, LossInv, LocksHaveOwners, HeldByALock, ResolvedIsSettled
<1> QED
  BY <1>1, InitType, StepType, StepLoss, LossSuffices, PTL DEF Spec

-----------------------------------------------------------------------------
(***************************************************************************)
(* The workflow instances of an app, for any requests, ids, limit and      *)
(* number of attempts.                                                     *)
(***************************************************************************)
W == INSTANCE WorkflowAdmission

(***************************************************************************)
(* The instance speaks of the same states and counts as this module does.  *)
(***************************************************************************)
LEMMA SpeaksAlike == W!Live = Live /\ \A S : W!Cardinality(S) = Cardinality(S)
  BY DEF W!Live, Live, W!Cardinality, Cardinality

RunStates == {"none"} \cup Live \cup W!Ended

(***************************************************************************)
(* An instance that may still be attempted has attempts left: without it   *)
(* the number of failed attempts would have no bound.                      *)
(***************************************************************************)
TriesLeft == \A i \in Ids :
  run[i] \in {"none", "queued", "running", "waiting"} => tries[i] < MaxAttempts

(***************************************************************************)
(* What a step of an instance does: it moves one instance that exists and  *)
(* has not ended, and touches no marker but its own, which it may clear    *)
(* when the instance ends.                                                 *)
(***************************************************************************)
RunMoves(i) ==
  /\ run[i] \in Live
  /\ \E next \in Live \cup W!Ended :
       /\ run' = [run EXCEPT ![i] = next]
       /\ \/ markers' = markers
          \/ next \in W!Ended /\ markers' = markers \ {i}
  /\ UNCHANGED <<step, id, listed, tracked, earlier, expired>>

\* An instance moves by one of its steps, and ends for good.
LEMMA RunStep ==
  ASSUME NEW i \in Ids, W!Run(i)
  PROVE  RunMoves(i)
<1>1. CASE W!Attempt(i)
  BY <1>1 DEF W!Attempt, W!Becomes, W!Live, Live, RunMoves
<1>2. CASE W!StepReturns(i)
  BY <1>2 DEF W!StepReturns, W!Becomes, W!Live, Live, RunMoves
<1>3. CASE W!StepFails(i)
  <2>1. \E next \in {"throwing", "waiting"} : run' = [run EXCEPT ![i] = next]
    BY <1>3 DEF W!StepFails, W!Becomes
  <2> QED
    BY <1>3, <2>1 DEF W!StepFails, W!Live, Live, RunMoves
<1>4. CASE W!Clear(i)
  BY <1>4 DEF W!Clear, W!Becomes, W!Live, Live, W!Ended, W!Cleared, RunMoves
<1>5. CASE W!ClearFails(i)
  BY <1>5 DEF W!ClearFails, W!Becomes, W!Live, Live, W!Ended, RunMoves
<1> QED
  BY <1>1, <1>2, <1>3, <1>4, <1>5 DEF W!Run

(***************************************************************************)
(* Nothing is created, and every instance has all its attempts.            *)
(***************************************************************************)
LEMMA InitRuns == W!Init => W!TypeOK /\ TriesLeft
  BY LimitAssumption DEF W!Init, W!TypeOK, TriesLeft, W!Steps

(***************************************************************************)
(* A request keeps the types.                                              *)
(***************************************************************************)
LEMMA CreateType ==
  ASSUME W!TypeOK, TriesLeft, NEW c \in Creates, W!HandleCreate(c)
  PROVE  (W!TypeOK /\ TriesLeft)'
<1>0. id[c] \in Ids
  BY DEF W!TypeOK
<1>1. step' \in [Creates -> W!Steps]
  BY DEF W!TypeOK, W!HandleCreate, W!RefuseCaller, W!ListActive,
         W!EnforceActiveLimit, W!Create, W!CreateFails, W!Track, W!TrackFails,
         W!Status, W!ReadFails, W!Goto, W!Steps
<1>2. CASE \/ W!RefuseCaller(c) \/ W!EnforceActiveLimit(c)
           \/ W!Status(c) \/ W!ReadFails(c)
  BY <1>1, <1>2 DEF W!TypeOK, TriesLeft, W!RefuseCaller, W!EnforceActiveLimit,
                    W!Status, W!ReadFails
<1>3. CASE W!ListActive(c)
  BY <1>1, <1>3 DEF W!TypeOK, TriesLeft, W!ListActive
<1>4. CASE W!Create(c) \/ W!CreateFails(c)
  <2>1. \/ run' = run
        \/ run[id[c]] = "none" /\ run' = [run EXCEPT ![id[c]] = "queued"]
    BY <1>4 DEF W!Create, W!CreateFails
  <2>2. run' \in [Ids -> RunStates]
    BY <2>1 DEF W!TypeOK, RunStates, W!Live, Live
  <2>3. TriesLeft'
    BY <1>0, <1>4, <2>1 DEF W!TypeOK, TriesLeft, W!Create, W!CreateFails
  <2> QED
    BY SpeaksAlike, <1>1, <1>4, <2>2, <2>3 DEF W!TypeOK, W!Create, W!CreateFails, RunStates
<1>5. CASE W!Track(c) \/ W!TrackFails(c)
  <2>1. markers' \subseteq Ids
    BY <1>0, <1>5 DEF W!TypeOK, W!Track, W!TrackFails
  <2> QED
    BY <1>1, <1>5, <2>1 DEF W!TypeOK, TriesLeft, W!Track, W!TrackFails
<1> QED
  BY <1>2, <1>3, <1>4, <1>5 DEF W!HandleCreate

(***************************************************************************)
(* An instance keeps the types: the attempt that fails last throws.        *)
(***************************************************************************)
LEMMA RunType ==
  ASSUME W!TypeOK, TriesLeft, NEW i \in Ids, W!Run(i)
  PROVE  (W!TypeOK /\ TriesLeft)'
<1>0. /\ run \in [Ids -> RunStates] /\ tries \in [Ids -> 0..MaxAttempts]
      /\ markers \subseteq Ids
  BY SpeaksAlike DEF W!TypeOK, RunStates
<1>1. run' \in [Ids -> RunStates] /\ markers' \subseteq Ids
  BY <1>0, RunStep DEF RunMoves, RunStates
<1>2. tries' \in [Ids -> 0..MaxAttempts] /\ TriesLeft'
  <2>1. CASE W!StepFails(i)
    <3>1. tries[i] < MaxAttempts /\ tries[i] \in 0..MaxAttempts
      BY <1>0, <2>1 DEF W!StepFails, TriesLeft
    <3>2. tries[i] + 1 \in 0..MaxAttempts
      BY <3>1, LimitAssumption
    <3>3. tries' \in [Ids -> 0..MaxAttempts] /\ tries'[i] = tries[i] + 1
      BY <1>0, <2>1, <3>2 DEF W!StepFails
    <3>4. run'[i] = "waiting" => tries'[i] # MaxAttempts
      BY <1>0, <2>1, <3>3 DEF W!StepFails, W!Becomes
    <3>5. run'[i] \in {"waiting", "throwing"}
      BY <1>0, <2>1 DEF W!StepFails, W!Becomes
    <3>6. run'[i] = "waiting" => tries'[i] < MaxAttempts
      BY <3>2, <3>3, <3>4, LimitAssumption
    <3>7. \A j \in Ids : j # i => run'[j] = run[j] /\ tries'[j] = tries[j]
      BY <1>0, <2>1 DEF W!StepFails, W!Becomes
    <3> QED
      BY <3>3, <3>5, <3>6, <3>7 DEF TriesLeft
  <2>2. CASE W!Attempt(i)
    BY <1>0, <2>2 DEF W!Attempt, W!Becomes, TriesLeft
  <2>3. CASE W!StepReturns(i)
    BY <1>0, <2>3 DEF W!StepReturns, W!Becomes, TriesLeft
  <2>4. CASE W!Clear(i)
    BY <1>0, <2>4 DEF W!Clear, W!Becomes, TriesLeft
  <2>5. CASE W!ClearFails(i)
    BY <1>0, <2>5 DEF W!ClearFails, W!Becomes, TriesLeft
  <2> QED
    BY <2>1, <2>2, <2>3, <2>4, <2>5 DEF W!Run
<1> QED
  BY SpeaksAlike, <1>1, <1>2, RunStep DEF RunMoves, W!TypeOK, RunStates

(***************************************************************************)
(* Every step keeps the types.                                             *)
(***************************************************************************)
LEMMA StepRuns ==
  W!TypeOK /\ TriesLeft /\ [W!Next]_W!vars => (W!TypeOK /\ TriesLeft)'
<1> SUFFICES ASSUME W!TypeOK, TriesLeft, [W!Next]_W!vars
             PROVE  (W!TypeOK /\ TriesLeft)'
  OBVIOUS
<1>1. CASE UNCHANGED W!vars
  BY <1>1 DEF W!vars, W!TypeOK, TriesLeft
<1>2. ASSUME NEW i \in Ids, W!Expire(i)
      PROVE  (W!TypeOK /\ TriesLeft)'
  BY <1>2 DEF W!Expire, W!TypeOK, TriesLeft
<1> QED
  BY <1>1, <1>2, CreateType, RunType DEF W!Next

(***************************************************************************)
(* The variables of WorkflowAdmission keep their types.                    *)
(***************************************************************************)
THEOREM WorkflowsTypeCorrect == W!Spec => []W!TypeOK
  BY InitRuns, StepRuns, PTL DEF W!Spec

-----------------------------------------------------------------------------

(***************************************************************************)
(* The strengthening: the markers a request has listed include those of    *)
(* every instance that was tracked then and is alive now, and a request    *)
(* that passed the check has listed fewer than the limit.                  *)
(***************************************************************************)
Passed == {"create", "track", "status", "ok"}

Created == \A c \in Creates :
  step[c] \in {"track", "status", "ok"} \/ c \in tracked => run[id[c]] # "none"

Listed == \A c \in Creates :
  step[c] \in {"check"} \cup Passed =>
    \A d \in earlier[c] :
      /\ d \in tracked
      /\ run[id[d]] \in Live /\ id[d] \notin expired => id[d] \in listed[c]

BelowLimit == \A c \in Creates :
  step[c] \in Passed => Cardinality(listed[c]) < ActiveLimit

Single == \A c, d \in Creates :
  /\ step[c] \in {"track", "status", "ok"}
  /\ step[d] \in {"track", "status", "ok"}
  /\ id[c] = id[d]
  => c = d

MarkerInv == Created /\ TrackedRunHoldsMarker /\ Listed /\ BelowLimit /\ Single

(***************************************************************************)
(* No request has begun.                                                   *)
(***************************************************************************)
LEMMA InitMarkers == W!Init => MarkerInv
  BY DEF W!Init, MarkerInv, Created, TrackedRunHoldsMarker, Listed, BelowLimit,
         Single, Passed

(***************************************************************************)
(* A step of an instance keeps the strengthening: it never brings an       *)
(* instance to life, and clears a marker only with the end of its instance.*)
(***************************************************************************)
LEMMA RunMarkers ==
  ASSUME W!TypeOK, MarkerInv, NEW i \in Ids, W!Run(i)
  PROVE  MarkerInv'
<1>0. /\ run \in [Ids -> RunStates] /\ id \in [Creates -> Ids]
      /\ tracked \subseteq Creates /\ earlier \in [Creates -> SUBSET Creates]
  BY SpeaksAlike DEF W!TypeOK, RunStates
<1>1. RunMoves(i)
  BY RunStep
<1>2. /\ \A j \in Ids : run'[j] \in Live => run[j] \in Live
      /\ \A j \in Ids : run'[j] \in Live /\ j \in markers => j \in markers'
      /\ \A j \in Ids : run[j] # "none" => run'[j] # "none"
  BY <1>0, <1>1 DEF RunMoves, W!Live, Live, W!Ended, W!Cleared
<1>3. /\ step' = step /\ id' = id /\ listed' = listed /\ tracked' = tracked
      /\ earlier' = earlier /\ expired' = expired
  BY <1>1 DEF RunMoves
<1>4. Created'
  BY <1>0, <1>2, <1>3 DEF MarkerInv, Created
<1>5. TrackedRunHoldsMarker'
  BY <1>0, <1>2, <1>3 DEF MarkerInv, TrackedRunHoldsMarker
<1>6. Listed'
  BY <1>0, <1>2, <1>3 DEF MarkerInv, Listed
<1>7. BelowLimit' /\ Single'
  BY <1>3 DEF MarkerInv, BelowLimit, Single
<1> QED
  BY <1>4, <1>5, <1>6, <1>7 DEF MarkerInv

(***************************************************************************)
(* A request keeps the strengthening.                                      *)
(***************************************************************************)
LEMMA CreateMarkers ==
  ASSUME W!TypeOK, MarkerInv, NEW c \in Creates, W!HandleCreate(c)
  PROVE  MarkerInv'
<1> USE DEF MarkerInv
<1>0. /\ step \in [Creates -> W!Steps] /\ id \in [Creates -> Ids]
      /\ run \in [Ids -> RunStates] /\ listed \in [Creates -> SUBSET Ids]
      /\ tracked \subseteq Creates /\ earlier \in [Creates -> SUBSET Creates]
      /\ id' = id /\ expired' = expired
  BY SpeaksAlike DEF W!TypeOK, RunStates, W!HandleCreate, W!RefuseCaller, W!ListActive,
         W!EnforceActiveLimit, W!Create, W!CreateFails, W!Track, W!TrackFails, W!Status,
         W!ReadFails
<1>1. CASE W!RefuseCaller(c) \/ W!ReadFails(c)
  <2>1. /\ step'[c] \in {"refused", "error"}
        /\ \A d \in Creates : d # c => step'[d] = step[d]
        /\ UNCHANGED <<id, listed, run, markers, tracked, earlier, expired>>
    BY <1>0, <1>1 DEF W!RefuseCaller, W!ReadFails, W!Goto
  <2>2. Created' /\ TrackedRunHoldsMarker'
    BY <1>0, <2>1 DEF Created, TrackedRunHoldsMarker
  <2>3. Listed' /\ BelowLimit' /\ Single'
    BY <1>0, <2>1 DEF Listed, BelowLimit, Single, Passed
  <2> QED
    BY <2>2, <2>3
<1>2. CASE W!ListActive(c)
  <2>1. /\ step'[c] = "check" /\ listed'[c] = markers /\ earlier'[c] = tracked
        /\ \A d \in Creates : d # c => /\ step'[d] = step[d]
                                       /\ listed'[d] = listed[d]
                                       /\ earlier'[d] = earlier[d]
        /\ UNCHANGED <<id, run, markers, tracked, expired>>
    BY <1>0, <1>2 DEF W!ListActive, W!Goto
  <2>2. Created' /\ TrackedRunHoldsMarker'
    BY <1>0, <2>1 DEF Created, TrackedRunHoldsMarker
  <2>3. Listed'
    BY <1>0, <2>1 DEF Listed, TrackedRunHoldsMarker, Passed
  <2>4. BelowLimit' /\ Single'
    BY <1>0, <2>1 DEF BelowLimit, Single, Passed
  <2> QED
    BY <2>2, <2>3, <2>4
<1>3. CASE W!EnforceActiveLimit(c)
  <2>1. /\ step[c] = "check"
        /\ \/ step'[c] = "refused"
           \/ step'[c] = "create" /\ Cardinality(listed[c]) < ActiveLimit
        /\ \A d \in Creates : d # c => step'[d] = step[d]
        /\ UNCHANGED <<id, listed, run, markers, tracked, earlier, expired>>
    BY <1>0, <1>3, SpeaksAlike DEF W!EnforceActiveLimit, W!Goto
  <2>2. Created' /\ TrackedRunHoldsMarker'
    BY <1>0, <2>1 DEF Created, TrackedRunHoldsMarker
  <2>3. Listed'
    BY <1>0, <2>1 DEF Listed, Passed
  <2>4. BelowLimit' /\ Single'
    BY <1>0, <2>1 DEF BelowLimit, Single, Passed
  <2> QED
    BY <2>2, <2>3, <2>4
<1>4. CASE W!Create(c) \/ W!CreateFails(c)
  <2>1. /\ step[c] = "create"
        /\ \/ step'[c] = "error"
           \/ step'[c] = "track" /\ run[id[c]] = "none"
        /\ step'[c] = "track" => run'[id[c]] = "queued"
        /\ \A d \in Creates : d # c => step'[d] = step[d]
        /\ UNCHANGED <<id, listed, markers, tracked, earlier, expired>>
    BY <1>0, <1>4 DEF W!Create, W!CreateFails, W!Goto
  <2>2. \A j \in Ids : run[j] # "none" => run'[j] = run[j]
    BY <1>0, <1>4 DEF W!Create, W!CreateFails
  <2>3. Created'
    BY <1>0, <2>1, <2>2 DEF Created
  <2>4. TrackedRunHoldsMarker'
    BY <1>0, <2>1, <2>2 DEF Created, TrackedRunHoldsMarker
  <2>5. Listed'
    BY <1>0, <2>1, <2>2 DEF Created, Listed, Passed
  <2>6. BelowLimit'
    BY <1>0, <2>1 DEF BelowLimit, Passed
  <2>7. Single'
    BY <1>0, <2>1, <2>2 DEF Created, Single
  <2> QED
    BY <2>3, <2>4, <2>5, <2>6, <2>7
<1>5. CASE W!Track(c) \/ W!TrackFails(c)
  <2>1. /\ step[c] = "track"
        /\ step'[c] \in {"status", "error"}
        /\ \A d \in Creates : d # c => step'[d] = step[d]
        /\ markers \subseteq markers'
        /\ \/ tracked' = tracked
           \/ tracked' = tracked \cup {c} /\ id[c] \in markers'
        /\ UNCHANGED <<id, listed, run, earlier, expired>>
    BY <1>0, <1>5 DEF W!Track, W!TrackFails, W!Goto
  <2>2. Created'
    BY <1>0, <2>1 DEF Created
  <2>3. TrackedRunHoldsMarker'
    BY <1>0, <2>1 DEF TrackedRunHoldsMarker
  <2>4. Listed'
    BY <1>0, <2>1 DEF Listed, Passed
  <2>5. BelowLimit' /\ Single'
    BY <1>0, <2>1 DEF BelowLimit, Single, Passed
  <2> QED
    BY <2>2, <2>3, <2>4, <2>5
<1>6. CASE W!Status(c)
  <2>1. /\ step[c] = "status" /\ step'[c] = "ok"
        /\ \A d \in Creates : d # c => step'[d] = step[d]
        /\ UNCHANGED <<id, listed, run, markers, tracked, earlier, expired>>
    BY <1>0, <1>6 DEF W!Status, W!Goto
  <2>2. Created' /\ TrackedRunHoldsMarker'
    BY <1>0, <2>1 DEF Created, TrackedRunHoldsMarker
  <2>3. Listed' /\ BelowLimit' /\ Single'
    BY <1>0, <2>1 DEF Listed, BelowLimit, Single, Passed
  <2> QED
    BY <2>2, <2>3
<1> QED
  BY <1>1, <1>2, <1>3, <1>4, <1>5, <1>6 DEF W!HandleCreate

(***************************************************************************)
(* Every step keeps the strengthening.                                     *)
(***************************************************************************)
LEMMA StepMarkers == W!TypeOK /\ MarkerInv /\ [W!Next]_W!vars => MarkerInv'
<1> SUFFICES ASSUME W!TypeOK, MarkerInv, [W!Next]_W!vars
             PROVE  MarkerInv'
  OBVIOUS
<1>1. CASE UNCHANGED W!vars
  BY <1>1 DEF W!vars, MarkerInv, Created, TrackedRunHoldsMarker, Listed,
              BelowLimit, Single
<1>2. ASSUME NEW i \in Ids, W!Expire(i)
      PROVE  MarkerInv'
  <2>1. /\ markers' = markers \ {i} /\ expired' = expired \cup {i}
        /\ UNCHANGED <<step, id, listed, run, tracked, earlier>>
    BY <1>2 DEF W!Expire
  <2> QED
    BY <2>1 DEF MarkerInv, Created, TrackedRunHoldsMarker, Listed,
                BelowLimit, Single
<1> QED
  BY <1>1, <1>2, CreateMarkers, RunMarkers DEF W!Next

\* The parts and the types are an invariant.
LEMMA MarkersSafe == W!Spec => [](W!TypeOK /\ MarkerInv)
<1>1. W!Init => W!TypeOK /\ TriesLeft /\ MarkerInv
  BY InitRuns, InitMarkers
<1>2. W!TypeOK /\ TriesLeft /\ MarkerInv /\ [W!Next]_W!vars
        => (W!TypeOK /\ TriesLeft /\ MarkerInv)'
  BY StepRuns, StepMarkers
<1> QED
  BY <1>1, <1>2, PTL DEF W!Spec

(***************************************************************************)
(* A tracked instance that is alive has its marker until that expires.     *)
(***************************************************************************)
THEOREM MarkersAreHeld == W!Spec => []TrackedRunHoldsMarker
<1>1. MarkerInv => TrackedRunHoldsMarker
  BY DEF MarkerInv
<1> QED
  BY <1>1, MarkersSafe, PTL

(***************************************************************************)
(* No two requests with one id are told that they created the instance.    *)
(***************************************************************************)
THEOREM AnswersAreSingle == W!Spec => []OneAnswerPerInstance
<1>1. MarkerInv => OneAnswerPerInstance
  BY DEF MarkerInv, Single, OneAnswerPerInstance
<1> QED
  BY <1>1, MarkersSafe, PTL

(***************************************************************************)
(* A request that passed the check was below the limit, whatever is        *)
(* created, retried, fails or expires beside it: what was tracked before   *)
(* it and is still alive is among the markers it listed.                   *)
(***************************************************************************)
THEOREM LimitHolds == W!Spec => []LimitHoldsWithoutOverlap
<1>1. W!TypeOK /\ MarkerInv => LimitHoldsWithoutOverlap
  <2> SUFFICES ASSUME W!TypeOK, MarkerInv, NEW c \in Creates, step[c] \in Passed
               PROVE  Cardinality({i \in Ids :
                        /\ run[i] \in Live /\ i \notin expired
                        /\ \E d \in earlier[c] : id[d] = i}) < ActiveLimit
    BY SpeaksAlike DEF LimitHoldsWithoutOverlap, Passed
  <2> DEFINE Before == {i \in Ids : /\ run[i] \in Live /\ i \notin expired
                                    /\ \E d \in earlier[c] : id[d] = i}
  <2>1. Before \subseteq listed[c]
    BY DEF MarkerInv, Listed, Passed
  <2>2. IsFiniteSet(listed[c])
    <3>1. listed[c] \subseteq Ids
      BY DEF W!TypeOK
    <3> QED
      BY <3>1, FS_Subset, IdsAssumption
  <2>3. /\ Cardinality(Before) <= Cardinality(listed[c])
        /\ Cardinality(Before) \in Nat /\ Cardinality(listed[c]) \in Nat
    BY <2>1, <2>2, FS_Subset, FS_CardinalityType
  <2>4. Cardinality(listed[c]) < ActiveLimit
    BY DEF MarkerInv, BelowLimit
  <2> HIDE DEF Before
  <2>5. Cardinality(Before) < ActiveLimit
    BY <2>3, <2>4, LimitAssumption
  <2> QED
    BY <2>5 DEF Before
<1> QED
  BY <1>1, MarkersSafe, PTL
=============================================================================
