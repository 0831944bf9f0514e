---------------------------- MODULE AppCallsProofs ----------------------------
(***************************************************************************)
(* Proofs about AppCalls for any apps, deploys, calls, messages and        *)
(* deliveries: a call is let through, and refused, for a reason, and a     *)
(* message is lost to its consumer for a reason.                           *)
(***************************************************************************)
EXTENDS AppCalls, TLAPS

-----------------------------------------------------------------------------
(* What the steps of each actor leave alone *)

\* What a deploy or a suspension stores.
Platform ==
  \/ \E d \in Deploys :
       \/ Upload(d) \/ Store(d) \/ MapQueue(d) \/ Fail(d)
       \/ \E put \in {"record", "token"} : Land(d, put)
  \/ \E a \in Apps : SuspendOrResume(a)

\* Whatever a deploy or a suspension stores is noted by what is under way.
LEMMA PlatformNotes ==
  ASSUME Platform
  PROVE  Noted
BY Zenon DEF Platform, Upload, Store, MapQueue, Fail, Land, SuspendOrResume

\* A call takes a step, or a delivery does.
CallMoves(c) == Begin(c) \/ CallStep(c)

Delivery(b) ==
  \/ \E a \in Apps, batched \in SUBSET Calls : Start(b, a, batched)
  \/ BatchStep(b) \/ Die(b)

\* A step is of the platform, of a call or of a delivery.
LEMMA NextCases ==
  ASSUME [Next]_vars
  PROVE  \/ Platform
         \/ \E c \in Calls : CallMoves(c)
         \/ \E b \in Batches : Delivery(b)
         \/ UNCHANGED vars
BY Zenon DEF Next, Platform, CallMoves, Delivery

(***************************************************************************)
(* Which functions the variables are.                                      *)
(***************************************************************************)
LEMMA Shapes ==
  ASSUME TypeOK
  PROVE  /\ pc = [c \in Calls |-> pc[c]] /\ who = [c \in Calls |-> who[c]]
         /\ took = [c \in Calls |-> took[c]]
         /\ answer = [c \in Calls |-> answer[c]]
         /\ batch = [b \in Batches |-> batch[b]]
         /\ step = [b \in Batches |-> step[b]]
         /\ stage = [d \in Deploys |-> stage[d]]
         /\ puts = [d \in Deploys |-> puts[d]]
BY DEF TypeOK

(***************************************************************************)
(* A call changes what is kept of itself only.                             *)
(***************************************************************************)
LEMMA CallFrame ==
  ASSUME TypeOK, NEW c \in Calls, CallMoves(c)
  PROVE  /\ UNCHANGED <<plan, platform, ask, tries, batch, step, handled, limited>>
         /\ message' \in {message, [message EXCEPT ![c] = "queued"]}
         /\ \A e \in Calls :
              e # c => /\ pc'[e] = pc[e] /\ who'[e] = who[e]
                       /\ took'[e] = took[e] /\ answer'[e] = answer[e]
         /\ \/ seen' = seen
            \/ seen' = [seen EXCEPT ![c] = {Now}] /\ pc[c] = "new"
<1>0. /\ pc = [e \in Calls |-> pc[e]] /\ who = [e \in Calls |-> who[e]]
      /\ took = [e \in Calls |-> took[e]]
      /\ answer = [e \in Calls |-> answer[e]]
  BY Shapes
<1>1. /\ UNCHANGED <<plan, platform, ask, tries, batch, step, handled, limited>>
      /\ message' \in {message, [message EXCEPT ![c] = "queued"]}
      /\ \/ seen' = seen
         \/ seen' = [seen EXCEPT ![c] = {Now}] /\ pc[c] = "new"
  BY DEF CallMoves, CallStep, Begin, ResolveCaller, CheckToken, LoadTarget,
         CheckCaller, CheckTarget, CheckLimit, Act, CallOnly, queueVars
<1>2. /\ \/ UNCHANGED who
         \/ \E caller : who' = [who EXCEPT ![c] = caller]
      /\ \/ UNCHANGED took
         \/ \E d : took' = [took EXCEPT ![c] = d]
  BY DEF CallMoves, CallStep, Begin, ResolveCaller, CheckToken, LoadTarget,
         CheckCaller, CheckTarget, CheckLimit, Act, CallOnly, queueVars
<1>3. /\ \/ UNCHANGED answer
         \/ \E told : answer' = [answer EXCEPT ![c] = told]
      /\ \E next : pc' = [pc EXCEPT ![c] = next]
  BY DEF CallMoves, CallStep, Begin, ResolveCaller, CheckToken, LoadTarget,
         CheckCaller, CheckTarget, CheckLimit, Act, Goto, Reply
<1> QED
  BY <1>0, <1>1, <1>2, <1>3

(***************************************************************************)
(* And so does a delivery, but for its messages.                           *)
(***************************************************************************)
LEMMA DeliveryFrame ==
  ASSUME TypeOK, NEW b \in Batches, Delivery(b)
  PROVE  /\ UNCHANGED <<plan, platform, ask, callVars>>
         /\ handled \subseteq handled' /\ limited \subseteq limited'
         /\ \A e \in Batches : e # b => step'[e] = step[e] /\ batch'[e] = batch[e]
         /\ seen' \in {seen, [seen EXCEPT ![b] = {Now}], [seen EXCEPT ![b] = {}]}
<1>0. batch = [e \in Batches |-> batch[e]] /\ step = [e \in Batches |-> step[e]]
  BY Shapes
<1>1. /\ UNCHANGED <<plan, platform, ask, callVars>>
      /\ handled \subseteq handled' /\ limited \subseteq limited'
      /\ seen' \in {seen, [seen EXCEPT ![b] = {Now}], [seen EXCEPT ![b] = {}]}
  BY DEF Delivery, BatchStep, Start, LoadMapping, LoadRecord, CheckDelivery,
         Dispatch, Die, Acknowledge, Retry, Over, DeliveryOnly
<1>2. /\ \E next : step' = [step EXCEPT ![b] = next]
      /\ \/ UNCHANGED batch
         \/ \E now : batch' = [batch EXCEPT ![b] = now]
  BY DEF Delivery, BatchStep, Start, LoadMapping, LoadRecord, CheckDelivery,
         Dispatch, Die, Acknowledge, Retry, Over, Turn
<1> QED
  BY <1>0, <1>1, <1>2

-----------------------------------------------------------------------------
(* Types *)

\* What plans, calls and records are made of.
LEMMA PlanType ==
  ASSUME TypeOK
  PROVE  /\ \A d \in Deploys : /\ plan[d].app \in Apps
                               /\ plan[d].path \in Paths \cup {None}
                               /\ plan[d].allows \in SUBSET Apps
         /\ \A c \in Calls : /\ ask[c].by \in Deploys
                             /\ ask[c].claim \in Apps \cup {None}
                             /\ ask[c].target \in Apps
         /\ record \in [Apps -> Deploys \cup {None}] /\ mapped \in SUBSET Deploys
         /\ consumer \in [Apps -> Deploys \cup {None}]
         /\ suspended \in SUBSET Apps
BY DEF TypeOK, Plan, Ask, Now, Stored

\* The present is a stored state.
LEMMA NowType ==
  ASSUME record \in [Apps -> Deploys \cup {None}], mapped \in SUBSET Deploys,
         consumer \in [Apps -> Deploys \cup {None}], suspended \in SUBSET Apps
  PROVE  Now \in Stored
BY DEF Now, Stored

\* Noting a stored state keeps the type of what was met.
LEMMA NotedType ==
  ASSUME TypeOK, Noted, (Now \in Stored)'
  PROVE  seen' \in [Calls \cup Batches -> SUBSET Stored]
BY DEF TypeOK, Noted

\* Deploys and suspensions keep the types.
LEMMA PlatformType ==
  ASSUME TypeOK, Platform
  PROVE  TypeOK'
<1>0. /\ Noted
      /\ \A d \in Deploys : plan[d].app \in Apps
      /\ record \in [Apps -> Deploys \cup {None}] /\ mapped \in SUBSET Deploys
      /\ consumer \in [Apps -> Deploys \cup {None}] /\ suspended \in SUBSET Apps
      /\ stage \in [Deploys -> {"new", "uploaded", "storing", "done", "failed"}]
      /\ puts \in [Deploys -> SUBSET {"record", "token"}] /\ toggles \in Nat
  BY PlatformNotes, PlanType DEF TypeOK
<1>1. /\ record' \in [Apps -> Deploys \cup {None}] /\ mapped' \in SUBSET Deploys
      /\ consumer' \in [Apps -> Deploys \cup {None}]
      /\ suspended' \in SUBSET Apps /\ toggles' \in Nat
  BY <1>0 DEF Platform, Upload, Store, MapQueue, Fail, Land, SuspendOrResume
<1>2. /\ stage' \in [Deploys -> {"new", "uploaded", "storing", "done", "failed"}]
      /\ puts' \in [Deploys -> SUBSET {"record", "token"}]
  BY <1>0 DEF Platform, Upload, Store, MapQueue, Fail, Land, SuspendOrResume
<1>3. (Now \in Stored)' /\ seen' \in [Calls \cup Batches -> SUBSET Stored]
  <2>1. (Now \in Stored)'
    BY <1>1 DEF Now, Stored
  <2> QED
    BY <2>1, <1>0, NotedType
<1>4. UNCHANGED <<plan, ask, pc, who, took, answer, message, tries, batch, step,
                  handled, limited>>
  BY <1>0 DEF Noted, callVars, queueVars
<1> QED
  BY <1>1, <1>2, <1>3, <1>4 DEF TypeOK

Pcs == {"new", "caller", "record", "target", "caller awake", "target awake",
        "limit", "act", "ended"}
Answers == {"none", "unknown", "forbidden", "not found", "suspended", "limited",
            "ran", "sent", "error"}

\* Calls keep the types.
LEMMA CallType ==
  ASSUME TypeOK, NEW c \in Calls, CallMoves(c)
  PROVE  TypeOK'
<1>0. /\ UNCHANGED <<plan, platform, ask, tries, batch, step, handled, limited>>
      /\ message' \in {message, [message EXCEPT ![c] = "queued"]}
      /\ seen' = seen \/ seen' = [seen EXCEPT ![c] = {Now}]
  BY CallFrame
<1>1. /\ pc \in [Calls -> Pcs] /\ answer \in [Calls -> Answers]
      /\ who \in [Calls -> Apps \cup {None}]
      /\ took \in [Calls -> Deploys \cup {None}]
      /\ \A d \in Deploys : plan[d].app \in Apps
      /\ ask[c].by \in Deploys /\ ask[c].claim \in Apps \cup {None}
      /\ ask[c].target \in Apps
      /\ record \in [Apps -> Deploys \cup {None}]
  BY PlanType DEF TypeOK, Pcs, Answers
<1>2. /\ pc' \in [Calls -> Pcs] /\ answer' \in [Calls -> Answers]
      /\ who' \in [Calls -> Apps \cup {None}]
      /\ took' \in [Calls -> Deploys \cup {None}]
  <2>1. CASE Begin(c)
    BY <1>1, <2>1 DEF Begin, Goto, Pcs
  <2>2. CASE ResolveCaller(c)
    BY <1>1, <2>2 DEF ResolveCaller, Goto, Reply, Pcs, Answers
  <2>3. CASE CheckToken(c)
    BY <1>1, <2>3 DEF CheckToken, Goto, Reply, Pcs, Answers
  <2>4. CASE LoadTarget(c)
    BY <1>1, <2>4 DEF LoadTarget, Goto, Reply, Pcs, Answers
  <2>5. CASE CheckCaller(c) \/ CheckTarget(c) \/ CheckLimit(c) \/ Act(c)
    BY <1>1, <2>5 DEF CheckCaller, CheckTarget, CheckLimit, Act, Goto, Reply,
                      Pcs, Answers
  <2> QED
    BY <2>1, <2>2, <2>3, <2>4, <2>5 DEF CallMoves, CallStep
<1>3. /\ message' \in [Calls -> {"none", "queued", "flying", "acked", "dead"}]
      /\ seen' \in [Calls \cup Batches -> SUBSET Stored]
      /\ (Now \in Stored)'
  <2>1. Now' = Now
    BY <1>0 DEF platform, Now
  <2>2. /\ message \in [Calls -> {"none", "queued", "flying", "acked", "dead"}]
        /\ seen \in [Calls \cup Batches -> SUBSET Stored] /\ Now \in Stored
    BY DEF TypeOK
  <2> HIDE DEF Now
  <2> QED
    BY <1>0, <2>1, <2>2
<1> QED
  BY <1>0, <1>2, <1>3 DEF TypeOK, platform, Pcs, Answers

Messages == {"none", "queued", "flying", "acked", "dead"}
Steps == {"idle", "mapping", "record", "limit", "dispatch", "returned",
          "homeless", "failed"}

\* A delivery that has begun is one to an app.
HasApp == \A b \in Batches : step[b] # "idle" => batch[b].app \in Apps

\* Deliveries keep the types, and have an app once they have begun.
LEMMA DeliveryType ==
  ASSUME TypeOK, HasApp, NEW b \in Batches, Delivery(b)
  PROVE  (TypeOK /\ HasApp)'
<1>0. /\ UNCHANGED <<plan, platform, ask, callVars>>
      /\ seen' \in {seen, [seen EXCEPT ![b] = {Now}], [seen EXCEPT ![b] = {}]}
  BY DeliveryFrame
<1>1. /\ message \in [Calls -> Messages] /\ tries \in [Calls -> Nat]
      /\ batch \in [Batches -> Batch] /\ step \in [Batches -> Steps]
      /\ handled \in SUBSET Calls /\ limited \in SUBSET Calls
      /\ record \in [Apps -> Deploys \cup {None}]
      /\ consumer \in [Apps -> Deploys \cup {None}]
  BY PlanType DEF TypeOK, Messages, Steps
<1>2. /\ batch[b] \in Batch /\ Idle \in Batch
      /\ batch[b].messages \in SUBSET Calls
  BY <1>1 DEF Batch, Idle
<1>3. /\ message' \in [Calls -> Messages] /\ tries' \in [Calls -> Nat]
      /\ batch' \in [Batches -> Batch] /\ step' \in [Batches -> Steps]
      /\ handled' \in SUBSET Calls /\ limited' \in SUBSET Calls
  <2>1. ASSUME NEW a \in Apps, NEW batched \in SUBSET Calls, Start(b, a, batched)
        PROVE  <1>3!:
    <3>1. [Idle EXCEPT !.app = a, !.messages = batched] \in Batch
      BY DEF Idle, Batch
    <3> QED
      BY <1>1, <2>1, <3>1 DEF Start, Turn, Messages, Steps
  <2>2. CASE LoadMapping(b)
    <3>1. consumer[batch[b].app] \in Deploys \cup {None}
      BY <1>1, <2>2 DEF HasApp, LoadMapping
    <3> QED
      BY <1>1, <1>2, <2>2, <3>1 DEF LoadMapping, Turn, Steps, Batch
  <2>3. CASE LoadRecord(b)
    <3>1. record[batch[b].app] \in Deploys \cup {None}
      BY <1>1, <2>3 DEF HasApp, LoadRecord
    <3> QED
      BY <1>1, <1>2, <2>3, <3>1 DEF LoadRecord, Turn, Steps, Batch
  <2>4. CASE CheckDelivery(b) \/ Dispatch(b) \/ Die(b)
    BY <1>1, <1>2, <2>4 DEF CheckDelivery, Dispatch, Die, Turn, Steps
  <2>5. CASE Acknowledge(b) \/ Retry(b)
    BY <1>1, <1>2, <2>5 DEF Acknowledge, Retry, Over, Turn, Steps, Messages
  <2> QED
    BY <2>1, <2>2, <2>3, <2>4, <2>5 DEF Delivery, BatchStep
<1>4. seen' \in [Calls \cup Batches -> SUBSET Stored]
  <2>1. seen \in [Calls \cup Batches -> SUBSET Stored] /\ Now \in Stored
    BY DEF TypeOK
  <2> HIDE DEF Now
  <2> QED
    BY <1>0, <2>1
<1>5. (Now \in Stored)'
  BY <1>0 DEF TypeOK, platform, Now
<1>6. HasApp'
  <2>0. /\ step = [e \in Batches |-> step[e]]
        /\ batch = [e \in Batches |-> batch[e]]
        /\ batch[b] = [app |-> batch[b].app, messages |-> batch[b].messages,
                       consumer |-> batch[b].consumer, target |-> batch[b].target]
    BY Shapes, <1>2 DEF Batch
  <2>1. step'[b] # "idle" => batch'[b].app \in Apps
    <3>1. CASE \E a \in Apps, batched \in SUBSET Calls : Start(b, a, batched)
      BY <2>0, <3>1 DEF Start, Turn, Idle
    <3>2. CASE LoadMapping(b) \/ LoadRecord(b)
      BY <2>0, <3>2 DEF LoadMapping, LoadRecord, Turn, HasApp
    <3>3. CASE CheckDelivery(b) \/ Dispatch(b) \/ Die(b)
      BY <2>0, <3>3 DEF CheckDelivery, Dispatch, Die, Turn, HasApp
    <3>4. CASE Acknowledge(b) \/ Retry(b)
      BY <2>0, <3>4 DEF Acknowledge, Retry, Over, Turn
    <3> QED
      BY <3>1, <3>2, <3>3, <3>4 DEF Delivery, BatchStep
  <2> QED
    BY <2>1, DeliveryFrame DEF HasApp
<1> QED
  BY <1>0, <1>3, <1>4, <1>5, <1>6
     DEF TypeOK, platform, callVars, Messages, Steps

\* The latest deploy of an app in a history is one of its own.
LEMMA LatestType ==
  ASSUME NEW h \in Histories, NEW a \in Apps
  PROVE  /\ Latest(h, a) \in Deploys \cup {None}
         /\ Latest(h, a) # None =>
              Latest(h, a) \in h.past /\ h.plan[Latest(h, a)].app = a
BY HistoriesAssumption DEF Latest

\* A history leaves well typed records and mappings.
LEMMA InitType ==
  ASSUME Init
  PROVE  TypeOK /\ HasApp
<1>1. PICK h \in Histories :
        /\ plan = h.plan
        /\ stage = [d \in Deploys |-> IF d \in h.past THEN "done" ELSE "new"]
        /\ record = [a \in Apps |-> Latest(h, a)]
        /\ mapped = {d \in h.past : h.plan[d].worker}
        /\ consumer = [a \in Apps |->
             IF Latest(h, a) # None /\ h.plan[Latest(h, a)].path # None
             THEN Latest(h, a) ELSE None]
  BY Zenon DEF Init
<1>2. plan \in [Deploys -> Plan] /\ h.past \in SUBSET Deploys
  BY <1>1, HistoriesAssumption
<1>3. /\ record \in [Apps -> Deploys \cup {None}] /\ mapped \in SUBSET Deploys
      /\ consumer \in [Apps -> Deploys \cup {None}]
      /\ suspended \in SUBSET Apps
  BY <1>1, <1>2, LatestType DEF Init
<1>4. Now \in Stored
  BY <1>3, NowType
<1>5. ask \in [Calls -> Ask] /\ Idle \in Batch
  BY ScenariosAssumption DEF Init, Idle, Batch
<1>6. /\ stage \in [Deploys -> {"new", "uploaded", "storing", "done", "failed"}]
      /\ puts \in [Deploys -> SUBSET {"record", "token"}] /\ toggles \in Nat
  BY <1>1 DEF Init
<1>7. /\ pc \in [Calls -> Pcs] /\ who \in [Calls -> Apps \cup {None}]
      /\ took \in [Calls -> Deploys \cup {None}] /\ answer \in [Calls -> Answers]
      /\ message \in [Calls -> Messages] /\ tries \in [Calls -> Nat]
  BY DEF Init, Pcs, Answers, Messages
<1>8. /\ batch \in [Batches -> Batch] /\ step \in [Batches -> Steps]
      /\ handled \subseteq Calls /\ limited \subseteq Calls
      /\ seen \in [Calls \cup Batches -> SUBSET Stored] /\ HasApp
  BY <1>5 DEF Init, Steps, HasApp
<1> QED
  BY <1>2, <1>4, <1>5, <1>6, <1>7, <1>8 DEF TypeOK, Pcs, Answers, Messages, Steps

\* Every step keeps the types.
LEMMA StepType ==
  ASSUME TypeOK, HasApp, [Next]_vars
  PROVE  (TypeOK /\ HasApp)'
<1>1. CASE Platform
  BY <1>1, PlatformType, PlatformNotes DEF Noted, queueVars, HasApp
<1>2. ASSUME NEW c \in Calls, CallMoves(c)
      PROVE  (TypeOK /\ HasApp)'
  BY <1>2, CallType, CallFrame DEF HasApp
<1>3. ASSUME NEW b \in Batches, Delivery(b)
      PROVE  (TypeOK /\ HasApp)'
  BY <1>3, DeliveryType
<1>4. CASE UNCHANGED vars
  BY <1>4 DEF vars, platform, callVars, queueVars, TypeOK, HasApp, Now
<1> QED
  BY <1>1, <1>2, <1>3, <1>4, NextCases

\* The types are an invariant.
LEMMA TypeInv == Spec => [](TypeOK /\ HasApp)
<1>1. Init => TypeOK /\ HasApp
  BY InitType
<1>2. TypeOK /\ HasApp /\ [Next]_vars => (TypeOK /\ HasApp)'
  BY StepType
<1> QED
  BY <1>1, <1>2, PTL DEF Spec

(***************************************************************************)
(* The state of deploys, calls, messages and deliveries has its types, for *)
(* any number of them.                                                     *)
(***************************************************************************)
THEOREM TypeCorrect == Spec => []TypeOK
BY TypeInv, PTL

-----------------------------------------------------------------------------
(* What is stored *)

(***************************************************************************)
(* The records of an app are of its deploys, and only code has tokens and  *)
(* consumes queues.                                                        *)
(***************************************************************************)
RecordIsOwn ==
  /\ \A a \in Apps : record[a] # None => plan[record[a]].app = a
  /\ \A d \in Deploys : ~ plan[d].worker => plan[d].path = None

\* What is stored now has been met by whatever is under way.
NowIsSeen == \A x \in Active : Now \in seen[x]

Typed == TypeOK /\ HasApp

\* A record is replaced only by a deploy of its app.
LEMMA OwnStep ==
  ASSUME Typed, RecordIsOwn, [Next]_vars
  PROVE  RecordIsOwn'
<1>0. /\ record \in [Apps -> Deploys \cup {None}]
      /\ \A d \in Deploys : plan[d].app \in Apps
  BY PlanType DEF Typed
<1>1. CASE Platform
  <2>1. plan' = plan
    BY <1>1, PlatformNotes DEF Noted
  <2>2. \/ record' = record
        \/ \E d \in Deploys : record' = [record EXCEPT ![plan[d].app] = d]
    BY <1>1 DEF Platform, Upload, Store, MapQueue, Fail, Land, SuspendOrResume
  <2> QED
    BY <1>0, <2>1, <2>2 DEF RecordIsOwn
<1>2. CASE UNCHANGED <<plan, platform>>
  BY <1>2 DEF platform, RecordIsOwn
<1>3. \/ Platform \/ UNCHANGED <<plan, platform>>
  BY NextCases, CallFrame, DeliveryFrame DEF Typed, vars
<1> QED
  BY <1>1, <1>2, <1>3

(***************************************************************************)
(* What is under way has begun before, or has met what is stored now.      *)
(***************************************************************************)
LEMMA CallSees ==
  ASSUME Typed, NEW c \in Calls, CallMoves(c), NowIsSeen
  PROVE  Now' = Now /\ NowIsSeen'
<1>0. /\ UNCHANGED <<platform, step>> /\ pc = [e \in Calls |-> pc[e]]
      /\ \A e \in Calls : e # c => pc'[e] = pc[e]
      /\ seen' = seen \/ seen' = [seen EXCEPT ![c] = {Now}]
      /\ seen \in [Calls \cup Batches -> SUBSET Stored]
  BY CallFrame, Shapes DEF Typed, TypeOK
<1>1. Now' = Now
  BY <1>0 DEF platform, Now
<1>2. seen' = [seen EXCEPT ![c] = {Now}] \/ pc[c] \notin {"new", "ended"}
  BY DEF CallMoves, CallStep, Begin, ResolveCaller, CheckToken, LoadTarget,
         CheckCaller, CheckTarget, CheckLimit, Act
<1>3. ASSUME NEW x \in Active'
      PROVE  x = c \/ x \in Active
  BY <1>0 DEF Active
<1> HIDE DEF Now
<1>4. Active' \subseteq Calls \cup Batches /\ (c \in Active \/ pc[c] \in {"new", "ended"})
  BY DEF Active
<1> QED
  BY <1>0, <1>1, <1>2, <1>3, <1>4 DEF NowIsSeen

\* A delivery that begins meets the present, and stores nothing.
LEMMA DeliverySees ==
  ASSUME Typed, NEW b \in Batches, Delivery(b), NowIsSeen
  PROVE  Now' = Now /\ NowIsSeen'
<1>0. /\ UNCHANGED <<platform, pc>> /\ step = [e \in Batches |-> step[e]]
      /\ \A e \in Batches : e # b => step'[e] = step[e]
      /\ seen' \in {seen, [seen EXCEPT ![b] = {Now}], [seen EXCEPT ![b] = {}]}
      /\ seen \in [Calls \cup Batches -> SUBSET Stored]
  BY DeliveryFrame, Shapes DEF Typed, TypeOK, callVars
<1>1. Now' = Now
  BY <1>0 DEF platform, Now
<1>2. \/ seen' = [seen EXCEPT ![b] = {Now}]
      \/ step[b] # "idle" /\ seen' = seen
      \/ step'[b] = "idle"
  BY <1>0 DEF Delivery, BatchStep, Start, LoadMapping, LoadRecord, CheckDelivery,
              Dispatch, Die, Acknowledge, Retry, Over, Turn
<1>3. ASSUME NEW x \in Active'
      PROVE  \/ x = b /\ step'[b] # "idle"
             \/ x # b /\ x \in Active
  BY <1>0, CallsAssumption DEF Active
<1> HIDE DEF Now
<1>4. Active' \subseteq Calls \cup Batches /\ (step[b] # "idle" => b \in Active)
  BY DEF Active
<1> QED
  BY <1>0, <1>1, <1>2, <1>3, <1>4 DEF NowIsSeen

\* What is stored anew is met by all that is under way.
LEMMA PlatformSees ==
  ASSUME Typed, Platform, NowIsSeen
  PROVE  /\ NowIsSeen' /\ Active' = Active
         /\ \A x \in Active : seen'[x] = seen[x] \cup {Now'}
         /\ \A x \in Calls \cup Batches : seen[x] \subseteq seen'[x]
<1>1. Noted /\ Active \subseteq Calls \cup Batches
  BY PlatformNotes DEF Active
<1>2. Active' = Active
  BY <1>1 DEF Noted, callVars, queueVars, Active
<1> QED
  BY <1>1, <1>2 DEF Noted, NowIsSeen

\* No step leaves the present unmet.
LEMMA SeenStep ==
  ASSUME Typed, NowIsSeen, [Next]_vars
  PROVE  NowIsSeen'
<1>1. CASE UNCHANGED vars
  BY <1>1 DEF vars, platform, callVars, queueVars, Now, NowIsSeen, Active
<1> QED
  BY <1>1, NextCases, CallSees, DeliverySees, PlatformSees

-----------------------------------------------------------------------------
(* Calls *)

Home(c) == plan[ask[c].by].app
LetThrough(c) == answer[c] \in {"ran", "sent"}

\* Past the checks of the token, of the target, and of each suspension.
Known(c) == LetThrough(c) \/ pc[c] \in {"target", "caller awake", "target awake",
                                        "limit", "act"}
Found(c) == ask[c].kind # "ai" /\ pc[c] # "target" /\ Known(c)
CallerAwake(c) == LetThrough(c) \/ pc[c] \in {"target awake", "limit", "act"}
TargetAwake(c) ==
  ask[c].kind # "ai" /\ (LetThrough(c) \/ pc[c] \in {"limit", "act"})

\* A reason not to believe the headers' claim of the token, see RefusalsMeanRedeploy.
Misnamed(c) ==
  \E s \in seen[c] : ask[c].by \notin s.mapped /\ ask[c].claim # Home(c)

(***************************************************************************)
(* What each check of a call has found stands in something it has met.     *)
(***************************************************************************)
CallOf(c) ==
  /\ pc[c] = "record" => who[c] \in Apps /\ (who[c] = Home(c) \/ Misnamed(c))
  /\ Known(c) =>
       /\ who[c] = Home(c)
       /\ \E s \in seen[c] : s.record[who[c]] = ask[c].by
  /\ Found(c) =>
       /\ IsAuthorizedCaller(who[c], took[c])
       /\ \E s \in seen[c] : s.record[ask[c].target] = took[c]
  /\ CallerAwake(c) => \E s \in seen[c] : who[c] \notin s.suspended
  /\ TargetAwake(c) => \E s \in seen[c] : ask[c].target \notin s.suspended
  /\ answer[c] # "none" => pc[c] = "ended"
  /\ answer[c] = "unknown" =>
       Misnamed(c) \/ \E s \in seen[c] : s.record[Home(c)] # ask[c].by

CallInv == \A c \in Calls : CallOf(c)

(***************************************************************************)
(* What others do takes nothing from what a call has met.                  *)
(***************************************************************************)
LEMMA CallStays ==
  ASSUME NEW c \in Calls, CallOf(c), UNCHANGED <<plan, ask>>,
         pc'[c] = pc[c], who'[c] = who[c], took'[c] = took[c],
         answer'[c] = answer[c], seen[c] \subseteq seen'[c]
  PROVE  CallOf(c)'
<1>1. /\ (Known(c) <=> Known(c)') /\ (Found(c) <=> Found(c)')
      /\ (CallerAwake(c) <=> CallerAwake(c)') /\ (TargetAwake(c) <=> TargetAwake(c)')
      /\ (Misnamed(c) => Misnamed(c)') /\ Home(c)' = Home(c)
  BY DEF Known, Found, CallerAwake, TargetAwake, LetThrough, Misnamed, Home
<1>2. IsAuthorizedCaller(who[c], took[c]) => IsAuthorizedCaller(who[c], took[c])'
  BY DEF IsAuthorizedCaller
<1> QED
  BY <1>1, <1>2 DEF CallOf

\* A step of a call stands in what it has met.
LEMMA CallKeeps ==
  ASSUME Typed, RecordIsOwn, NowIsSeen, NEW c \in Calls, CallOf(c), CallMoves(c)
  PROVE  CallOf(c)'
<1>0. /\ UNCHANGED <<plan, platform, ask>>
      /\ pc = [e \in Calls |-> pc[e]] /\ who = [e \in Calls |-> who[e]]
      /\ took = [e \in Calls |-> took[e]]
      /\ answer = [e \in Calls |-> answer[e]]
      /\ ask[c].by \in Deploys /\ ask[c].claim \in Apps \cup {None}
      /\ Home(c) \in Apps /\ Home(c)' = Home(c)
  BY CallFrame, Shapes, PlanType DEF Typed, Home
<1>1. /\ Now.record = record /\ Now.mapped = mapped
      /\ Now.consumer = consumer /\ Now.suspended = suspended
      /\ pc[c] \notin {"new", "ended"} => Now \in seen[c]
  BY DEF Now, NowIsSeen, Active
<1>2. \A d : IsAuthorizedCaller(who[c], d)' <=> IsAuthorizedCaller(who'[c], d)
  BY <1>0 DEF IsAuthorizedCaller
<1> HIDE DEF Now
<1>3. CASE Begin(c)
  <2>1. pc'[c] = "caller" /\ UNCHANGED <<who, took, answer>> /\ pc[c] = "new"
    BY <1>0, <1>3 DEF Begin, Goto
  <2>2. answer[c] = "none"
    BY <2>1 DEF CallOf
  <2> QED
    BY <2>1, <2>2 DEF CallOf, Known, Found, CallerAwake, TargetAwake, LetThrough
<1>4. CASE ResolveCaller(c)
  <2>1. /\ pc[c] = "caller" /\ UNCHANGED <<seen, took>> /\ answer[c] = "none"
    BY <1>0, <1>4 DEF ResolveCaller, CallOf
  <2>2. CASE ask[c].by \in mapped
    <3>1. pc'[c] = "record" /\ who'[c] = Home(c) /\ answer'[c] = "none"
      BY <1>0, <1>4, <2>1, <2>2, NoneAssumption DEF ResolveCaller, Home, Goto
    <3> QED
      BY <1>0, <3>1 DEF CallOf, Known, Found, CallerAwake, TargetAwake, LetThrough
  <2>3. CASE ask[c].by \notin mapped /\ ask[c].claim # Home(c)
    <3>1. Misnamed(c)'
      BY <1>0, <1>1, <2>1, <2>3 DEF Misnamed
    <3>2. \/ pc'[c] = "record" /\ who'[c] \in Apps /\ answer'[c] = "none"
          \/ pc'[c] = "ended" /\ answer'[c] = "unknown"
      BY <1>0, <1>4, <2>1, <2>3 DEF ResolveCaller, Goto, Reply
    <3> QED
      BY <3>1, <3>2 DEF CallOf, Known, Found, CallerAwake, TargetAwake, LetThrough
  <2>4. CASE ask[c].by \notin mapped /\ ask[c].claim = Home(c)
    <3>1. pc'[c] = "record" /\ who'[c] = Home(c) /\ answer'[c] = "none"
      BY <1>0, <1>4, <2>1, <2>4, NoneAssumption DEF ResolveCaller, Goto
    <3> QED
      BY <1>0, <3>1 DEF CallOf, Known, Found, CallerAwake, TargetAwake, LetThrough
  <2> QED
    BY <2>2, <2>3, <2>4
<1>5. CASE CheckToken(c)
  <2>1. /\ pc[c] = "record" /\ UNCHANGED <<seen, who, took>> /\ answer[c] = "none"
        /\ who[c] \in Apps /\ (who[c] = Home(c) \/ Misnamed(c))
        /\ Misnamed(c) => Misnamed(c)'
    BY <1>0, <1>5 DEF CheckToken, CallOf, Misnamed
  <2>2. CASE record[who[c]] = ask[c].by
    <3>1. who[c] = Home(c)
      BY <1>0, <2>1, <2>2, NoneAssumption DEF RecordIsOwn, Home
    <3>2. /\ pc'[c] \in {"caller awake", "target"} /\ answer'[c] = "none"
          /\ pc'[c] = "caller awake" => ask[c].kind = "ai"
      BY <1>0, <1>5, <2>1, <2>2 DEF CheckToken, Goto
    <3>3. \E s \in seen[c] : s.record[who[c]] = ask[c].by
      BY <1>1, <2>1, <2>2
    <3> QED
      BY <1>0, <2>1, <3>1, <3>2, <3>3
         DEF CallOf, Known, Found, CallerAwake, TargetAwake, LetThrough
  <2>3. CASE record[who[c]] # ask[c].by
    <3>1. pc'[c] = "ended" /\ answer'[c] = "unknown"
      BY <1>0, <1>5, <2>1, <2>3 DEF CheckToken, Reply, Goto
    <3>2. Misnamed(c) \/ \E s \in seen[c] : s.record[Home(c)] # ask[c].by
      BY <1>1, <2>1, <2>3
    <3> QED
      BY <1>0, <2>1, <3>1, <3>2
         DEF CallOf, Known, Found, CallerAwake, TargetAwake, LetThrough
  <2> QED
    BY <2>2, <2>3
<1>6. CASE LoadTarget(c)
  <2>1. /\ pc[c] = "target" /\ UNCHANGED <<seen, who>> /\ answer[c] = "none"
        /\ who[c] = Home(c) /\ \E s \in seen[c] : s.record[who[c]] = ask[c].by
    BY <1>0, <1>6 DEF LoadTarget, CallOf, Known
  <2>2. \/ /\ pc'[c] = "caller awake" /\ answer'[c] = "none"
           /\ took'[c] = record[ask[c].target]
           /\ IsAuthorizedCaller(who[c], record[ask[c].target])
        \/ pc'[c] = "ended" /\ answer'[c] \in {"forbidden", "not found"}
    BY <1>0, <1>6, <2>1 DEF LoadTarget, Reply, Goto
  <2>3. \E s \in seen[c] : s.record[ask[c].target] = record[ask[c].target]
    BY <1>1, <2>1
  <2> QED
    BY <1>0, <1>2, <2>1, <2>2, <2>3
       DEF CallOf, Known, Found, CallerAwake, TargetAwake, LetThrough
<1>7. CASE CheckCaller(c) \/ CheckTarget(c)
  <2>1. /\ pc[c] \in {"caller awake", "target awake"}
        /\ UNCHANGED <<seen, who, took>> /\ answer[c] = "none"
        /\ \A d : IsAuthorizedCaller(who[c], d)' <=> IsAuthorizedCaller(who[c], d)
    BY <1>0, <1>2, <1>7 DEF CheckCaller, CheckTarget, CallOf
  <2>2. \/ /\ pc[c] = "caller awake" /\ who[c] \notin suspended /\ answer'[c] = "none"
           /\ pc'[c] = IF ask[c].kind = "ai" THEN "limit" ELSE "target awake"
        \/ /\ pc[c] = "target awake" /\ ask[c].target \notin suspended
           /\ answer'[c] = "none" /\ pc'[c] = "limit"
        \/ pc'[c] = "ended" /\ answer'[c] = "suspended"
    BY <1>0, <1>7, <2>1 DEF CheckCaller, CheckTarget, Reply, Goto
  <2> QED
    BY <1>0, <1>1, <2>1, <2>2
       DEF CallOf, Known, Found, CallerAwake, TargetAwake, LetThrough
<1>8. CASE CheckLimit(c) \/ Act(c)
  <2>1. /\ pc[c] \in {"limit", "act"}
        /\ UNCHANGED <<seen, who, took>> /\ answer[c] = "none"
        /\ \A d : IsAuthorizedCaller(who[c], d)' <=> IsAuthorizedCaller(who[c], d)
    BY <1>0, <1>2, <1>8 DEF CheckLimit, Act, CallOf
  <2>2. \/ pc'[c] = "act" /\ answer'[c] = "none"
        \/ pc'[c] = "ended" /\ answer'[c] \in {"limited", "ran", "sent", "error"}
    BY <1>0, <1>8, <2>1 DEF CheckLimit, Act, Reply, Goto
  <2> QED
    BY <1>0, <1>1, <2>1, <2>2
       DEF CallOf, Known, Found, CallerAwake, TargetAwake, LetThrough
<1> QED
  BY <1>3, <1>4, <1>5, <1>6, <1>7, <1>8 DEF CallMoves, CallStep

\* Every step keeps what calls have found.
LEMMA CallInvStep ==
  ASSUME Typed, RecordIsOwn, NowIsSeen, CallInv, [Next]_vars
  PROVE  CallInv'
<1>1. CASE Platform
  <2>1. /\ UNCHANGED <<plan, ask, callVars>>
        /\ \A c \in Calls : seen[c] \subseteq seen'[c]
    BY <1>1, PlatformNotes, PlatformSees DEF Noted
  <2> QED
    BY <2>1, CallStays DEF CallInv, callVars
<1>2. ASSUME NEW c \in Calls, CallMoves(c)
      PROVE  CallInv'
  <2>1. ASSUME NEW e \in Calls, e # c
        PROVE  CallOf(e)'
    <3>1. seen'[e] = seen[e]
      <4>1. seen' = seen \/ seen' = [seen EXCEPT ![c] = {Now}]
        BY <1>2, CallFrame DEF Typed
      <4>2. seen \in [Calls \cup Batches -> SUBSET Stored]
        BY DEF Typed, TypeOK
      <4> QED
        BY <2>1, <4>1, <4>2
    <3> QED
      BY <1>2, <2>1, <3>1, CallFrame, CallStays DEF Typed, CallInv
  <2> QED
    BY <1>2, <2>1, CallKeeps DEF CallInv
<1>3. ASSUME NEW b \in Batches, Delivery(b)
      PROVE  CallInv'
  <2>1. \A e \in Calls : seen'[e] = seen[e]
    <3>1. seen' \in {seen, [seen EXCEPT ![b] = {Now}], [seen EXCEPT ![b] = {}]}
      BY <1>3, DeliveryFrame DEF Typed
    <3>2. seen \in [Calls \cup Batches -> SUBSET Stored]
      BY DEF Typed, TypeOK
    <3>3. \A e \in Calls : e # b
      BY CallsAssumption
    <3> QED
      BY <3>1, <3>2, <3>3
  <2> QED
    BY <1>3, <2>1, DeliveryFrame, CallStays DEF Typed, CallInv, callVars
<1>4. CASE UNCHANGED vars
  BY <1>4, CallStays DEF vars, callVars, CallInv
<1> QED
  BY <1>1, <1>2, <1>3, <1>4, NextCases

\* At first no call has begun.
LEMMA InitCalls == Init => RecordIsOwn /\ NowIsSeen /\ CallInv
<1> SUFFICES ASSUME Init
             PROVE  RecordIsOwn /\ NowIsSeen /\ CallInv
  OBVIOUS
<1>1. RecordIsOwn
  <2>1. PICK h \in Histories :
          plan = h.plan /\ record = [a \in Apps |-> Latest(h, a)]
    BY Zenon DEF Init
  <2> QED
    BY <2>1, LatestType, HistoriesAssumption DEF RecordIsOwn
<1>2. NowIsSeen /\ CallInv
  BY DEF Init, NowIsSeen, Active, CallInv, CallOf, Known, Found, CallerAwake,
         TargetAwake, LetThrough
<1> QED
  BY <1>1, <1>2

CallsInv == Typed /\ RecordIsOwn /\ NowIsSeen /\ CallInv

\* The parts hold together.
LEMMA CallsInvariant == Spec => []CallsInv
<1>1. Init => CallsInv
  BY InitType, InitCalls DEF CallsInv, Typed
<1>2. CallsInv /\ [Next]_vars => CallsInv'
  BY StepType, OwnStep, SeenStep, CallInvStep DEF CallsInv, Typed
<1> QED
  BY <1>1, <1>2, PTL DEF Spec

(***************************************************************************)
(* However calls, redeploys and suspensions interleave, a call that is let *)
(* through comes from the live deployment of the app it is taken to come   *)
(* from, its target was deployed as one that lets that app in, and neither *)
(* was suspended throughout.                                               *)
(***************************************************************************)
THEOREM CallsAreAuthorized == Spec => []LetThroughRightly
<1>1. CallsInv => LetThroughRightly
  BY DEF CallsInv, CallInv, CallOf, LetThroughRightly, Known, Found, CallerAwake,
         TargetAwake, LetThrough, Home
<1> QED
  BY <1>1, CallsInvariant, PTL

(***************************************************************************)
(* A token is refused only if its deployment was not the live one at some  *)
(* time during the call, or its mapping had not landed.                    *)
(***************************************************************************)
THEOREM LiveTokensHold == Spec => []RefusalsMeanRedeploy
<1>1. CallsInv => RefusalsMeanRedeploy
  BY DEF CallsInv, CallInv, CallOf, RefusalsMeanRedeploy, Misnamed, Home
<1> QED
  BY <1>1, CallsInvariant, PTL

-----------------------------------------------------------------------------
(* Deliveries *)

(***************************************************************************)
(* While record and consumer of an app were of the same deploy whenever    *)
(* they were met, the record did not change: one cannot follow the other   *)
(* at once.                                                                *)
(***************************************************************************)
Steady(x, a) ==
  (\A s \in seen[x] : Agrees(s, a) /\ PathOf(s.record[a]) # None)
    => \A s \in seen[x] : s.record[a] = record[a]

SteadyInv == \A x \in Active, a \in Apps : Steady(x, a)

(***************************************************************************)
(* What a delivery knows was stored since it began.                        *)
(***************************************************************************)
BatchOf(b) ==
  /\ step[b] \in {"record", "limit", "dispatch"} =>
       /\ batch[b].consumer # None
       /\ \E s \in seen[b] : s.consumer[batch[b].app] = batch[b].consumer
  /\ step[b] \in {"limit", "dispatch"} =>
       \E s \in seen[b] : s.record[batch[b].app] = batch[b].target
  /\ step[b] = "returned" => batch[b].messages \subseteq handled \cup limited
  /\ step[b] = "homeless" =>
       \E s \in seen[b] : \/ ~ Agrees(s, batch[b].app)
                          \/ PathOf(s.record[batch[b].app]) = None

BatchInv ==
  /\ \A b \in Batches : BatchOf(b)
  /\ \A c \in Calls : message[c] = "acked" => c \in handled \cup limited

-----------------------------------------------------------------------------
(* Deploys *)

(***************************************************************************)
(* One deploy of an app stores at a time, and nothing replaces its record  *)
(* before its queue is mapped.                                             *)
(***************************************************************************)
DeployInv ==
  /\ \A d, e \in Deploys :
       /\ d # e /\ plan[d].app = plan[e].app
       /\ stage[d] \in {"uploaded", "storing"}
       => stage[e] \notin {"uploaded", "storing"}
  /\ \A d \in Deploys :
       stage[d] = "storing" /\ "record" \notin puts[d] => record[plan[d].app] = d
  /\ \A a \in Apps :
       ~ Agrees(Now, a) =>
         \E d \in Deploys : plan[d].app = a /\ stage[d] \in {"storing", "failed"}

-----------------------------------------------------------------------------
(* What becomes of messages *)

(***************************************************************************)
(* A step stores a record or a queue mapping, never both.                  *)
(***************************************************************************)
LEMMA OneAtATime ==
  ASSUME Typed, Platform, NEW a \in Apps
  PROVE  record'[a] = record[a] \/ consumer'[a] = consumer[a]
BY DEF Platform, Upload, Store, MapQueue, Fail, Land, SuspendOrResume

\* A record that follows a mapping, or the reverse, disagrees with it in between.
LEMMA SteadyStep ==
  ASSUME Typed, NowIsSeen, SteadyInv, [Next]_vars
  PROVE  SteadyInv'
<1>0. /\ Now.record = record /\ Now.consumer = consumer
      /\ Now'.record = record' /\ Now'.consumer = consumer'
      /\ seen \in [Calls \cup Batches -> SUBSET Stored]
      /\ Active \subseteq Calls \cup Batches
  BY DEF Now, Typed, TypeOK, Active
<1> HIDE DEF Now
<1>1. CASE Platform
  <2>1. /\ Active' = Active /\ plan' = plan
        /\ \A x \in Active : seen'[x] = seen[x] \cup {Now'}
    BY <1>1, PlatformSees, PlatformNotes DEF Noted
  <2>2. \A s, a : Agrees(s, a)' <=> Agrees(s, a)
    BY <2>1 DEF Agrees, PathOf
  <2>3. \A d : PathOf(d)' = PathOf(d)
    BY <2>1 DEF PathOf
  <2>4. ASSUME NEW x \in Active, NEW a \in Apps,
               \A s \in seen'[x] : Agrees(s, a) /\ PathOf(s.record[a]) # None
        PROVE  \A s \in seen'[x] : s.record[a] = record'[a]
    <3>1. Now \in seen[x] /\ \A s \in seen[x] : s.record[a] = record[a]
      BY <2>1, <2>4 DEF NowIsSeen, SteadyInv, Steady
    <3>2. consumer[a] = record[a] /\ consumer'[a] = record'[a]
      <4>1. /\ Agrees(Now, a) /\ PathOf(record[a]) # None
            /\ Agrees(Now', a) /\ PathOf(record'[a]) # None
        BY <1>0, <2>1, <2>4, <3>1
      <4> QED
        BY <1>0, <4>1 DEF Agrees
    <3>3. record'[a] = record[a]
      BY <1>1, <3>2, OneAtATime
    <3> QED
      BY <1>0, <2>1, <3>1, <3>3
  <2> QED
    BY <2>1, <2>2, <2>3, <2>4 DEF SteadyInv, Steady
<1>2. ASSUME UNCHANGED <<plan, record>>,
             \A x \in Active' : \/ x \in Active /\ seen'[x] = seen[x]
                                \/ seen'[x] = {Now}
      PROVE  SteadyInv'
  <2>1. \A s, a : Agrees(s, a)' <=> Agrees(s, a)
    BY <1>2 DEF Agrees, PathOf
  <2>2. \A d : PathOf(d)' = PathOf(d)
    BY <1>2 DEF PathOf
  <2> QED
    BY <1>0, <1>2, <2>1, <2>2 DEF SteadyInv, Steady
<1>3. ASSUME NEW c \in Calls, CallMoves(c)
      PROVE  SteadyInv'
  <2>1. /\ UNCHANGED <<plan, platform, step>>
        /\ \A e \in Calls : e # c => pc'[e] = pc[e]
        /\ seen' = seen \/ seen' = [seen EXCEPT ![c] = {Now}]
    BY <1>3, CallFrame DEF Typed
  <2>2. seen' = [seen EXCEPT ![c] = {Now}] \/ pc[c] \notin {"new", "ended"}
    BY <1>3 DEF CallMoves, CallStep, Begin, ResolveCaller, CheckToken, LoadTarget,
           CheckCaller, CheckTarget, CheckLimit, Act
  <2>3. \A x \in Active' : x = c \/ x \in Active
    BY <2>1 DEF Active
  <2>4. c \in Active \/ pc[c] \in {"new", "ended"}
    BY DEF Active
  <2> QED
    BY <1>0, <1>2, <2>1, <2>2, <2>3, <2>4 DEF platform
<1>4. ASSUME NEW b \in Batches, Delivery(b)
      PROVE  SteadyInv'
  <2>1. /\ UNCHANGED <<plan, platform, pc>>
        /\ \A e \in Batches : e # b => step'[e] = step[e]
    BY <1>4, DeliveryFrame DEF Typed, callVars
  <2>2. \/ seen' = [seen EXCEPT ![b] = {Now}]
        \/ step[b] # "idle" /\ seen' = seen
        \/ step'[b] = "idle" /\ seen' = [seen EXCEPT ![b] = {}]
    BY <1>4, Shapes DEF Typed, Delivery, BatchStep, Start, LoadMapping, LoadRecord,
         CheckDelivery, Dispatch, Die, Acknowledge, Retry, Over, Turn
  <2>3. \A x \in Active' : \/ x = b /\ step'[b] # "idle"
                           \/ x # b /\ x \in Active
    BY <2>1, CallsAssumption DEF Active
  <2>4. b \in Active \/ step[b] = "idle"
    BY DEF Active
  <2> QED
    BY <1>0, <1>2, <2>1, <2>2, <2>3, <2>4 DEF platform
<1>5. CASE UNCHANGED vars
  <2>1. UNCHANGED <<plan, record, seen>> /\ Active' = Active
    BY <1>5 DEF vars, platform, callVars, queueVars, Active
  <2> QED
    BY <1>2, <2>1
<1> QED
  BY <1>1, <1>3, <1>4, <1>5, NextCases

(***************************************************************************)
(* A delivery knows what it knew, whatever is stored meanwhile.            *)
(***************************************************************************)
LEMMA BatchStays ==
  ASSUME NEW b \in Batches, BatchOf(b), UNCHANGED plan, step'[b] = step[b],
         batch'[b] = batch[b], seen[b] \subseteq seen'[b],
         handled \subseteq handled', limited \subseteq limited'
  PROVE  BatchOf(b)'
<1>1. /\ \A s, a : Agrees(s, a)' <=> Agrees(s, a)
      /\ \A d : PathOf(d)' = PathOf(d)
  BY DEF Agrees, PathOf
<1> QED
  BY <1>1 DEF BatchOf

\* A step of a delivery stands in what it has met.
LEMMA BatchKeeps ==
  ASSUME Typed, RecordIsOwn, NowIsSeen, SteadyInv, NEW b \in Batches,
         BatchOf(b), Delivery(b)
  PROVE  BatchOf(b)'
<1> DEFINE a == batch[b].app
<1>0. /\ UNCHANGED <<plan, platform>>
      /\ step = [e \in Batches |-> step[e]] /\ batch = [e \in Batches |-> batch[e]]
      /\ batch[b] = [app |-> batch[b].app, messages |-> batch[b].messages,
                     consumer |-> batch[b].consumer, target |-> batch[b].target]
      /\ step[b] # "idle" => a \in Apps
      /\ record \in [Apps -> Deploys \cup {None}]
  BY Shapes, DeliveryFrame, PlanType DEF Typed, TypeOK, Batch, HasApp
<1>1. /\ Now.record = record /\ Now.consumer = consumer
      /\ step[b] # "idle" => b \in Active /\ Now \in seen[b]
  BY DEF Now, NowIsSeen, Active
<1>2. /\ \A s, x : Agrees(s, x)' <=> Agrees(s, x)
      /\ \A d : PathOf(d)' = PathOf(d)
  BY <1>0 DEF Agrees, PathOf
<1> HIDE DEF Now
<1>3. CASE \E x \in Apps, batched \in SUBSET Calls : Start(b, x, batched)
  BY <1>0, <1>3 DEF Start, Turn, BatchOf
<1>4. CASE LoadMapping(b)
  <2>1. /\ UNCHANGED seen /\ step[b] = "mapping" /\ batch'[b].app = a
        /\ batch'[b].consumer = consumer[a]
        /\ step'[b] = IF consumer[a] = None THEN "homeless" ELSE "record"
    BY <1>0, <1>4 DEF LoadMapping, Turn
  <2>2. consumer[a] = None => ~ Agrees(Now, a) \/ PathOf(record[a]) = None
    BY <1>1, NoneAssumption DEF Agrees, PathOf
  <2> QED
    BY <1>1, <1>2, <2>1, <2>2 DEF BatchOf
<1>5. CASE LoadRecord(b)
  <2>1. /\ UNCHANGED seen /\ step[b] = "record" /\ batch'[b].app = a
        /\ batch'[b].consumer = batch[b].consumer
        /\ batch'[b].target = record[a]
        /\ \/ step'[b] = "limit"
           \/ /\ step'[b] = "homeless"
              /\ record[a] = None \/ ~ plan[record[a]].worker
    BY <1>0, <1>5 DEF LoadRecord, Turn
  <2>2. step'[b] = "homeless" => PathOf(record[a]) = None
    BY <1>0, <2>1 DEF PathOf, RecordIsOwn
  <2> QED
    BY <1>1, <1>2, <2>1, <2>2 DEF BatchOf
<1>6. CASE CheckDelivery(b)
  <2>1. /\ UNCHANGED <<seen, batch, handled>> /\ step[b] = "limit"
        /\ \/ step'[b] = "returned" /\ limited' = limited \cup batch[b].messages
           \/ step'[b] = "dispatch" /\ limited' = limited
    BY <1>0, <1>6 DEF CheckDelivery, Turn
  <2> QED
    BY <1>2, <2>1 DEF BatchOf
<1>7. CASE Dispatch(b)
  <2>1. /\ UNCHANGED <<seen, batch, limited>> /\ step[b] = "dispatch"
        /\ \/ step'[b] = "returned" /\ handled' = handled \cup batch[b].messages
           \/ step'[b] = "failed" /\ handled' = handled
           \/ /\ step'[b] = "homeless" /\ handled' = handled
              /\ PathOf(batch[b].consumer) # PathOf(batch[b].target)
    BY <1>0, <1>7 DEF Dispatch, Turn
  <2>2. ASSUME \A s \in seen[b] : Agrees(s, a) /\ PathOf(s.record[a]) # None
        PROVE  PathOf(batch[b].consumer) = PathOf(batch[b].target)
    <3>1. PICK s \in seen[b] : s.consumer[a] = batch[b].consumer
      BY <2>1 DEF BatchOf
    <3>2. PICK r \in seen[b] : r.record[a] = batch[b].target
      BY <2>1 DEF BatchOf
    <3>3. s.record[a] = record[a] /\ r.record[a] = record[a]
      BY <1>0, <1>1, <2>1, <2>2 DEF SteadyInv, Steady
    <3>4. s.consumer[a] = s.record[a]
      BY <2>2 DEF Agrees
    <3> QED
      BY <3>1, <3>2, <3>3, <3>4
  <2> QED
    BY <1>2, <2>1, <2>2 DEF BatchOf
<1>8. CASE Die(b) \/ Acknowledge(b) \/ Retry(b)
  <2>1. step'[b] \in {"failed", "idle"}
    BY <1>0, <1>8 DEF Die, Acknowledge, Retry, Over, Turn
  <2> QED
    BY <2>1 DEF BatchOf
<1> QED
  BY <1>3, <1>4, <1>5, <1>6, <1>7, <1>8 DEF Delivery, BatchStep

(***************************************************************************)
(* Only a batch that returned is acknowledged.                             *)
(***************************************************************************)
LEMMA AckedStep ==
  ASSUME Typed, BatchInv, [Next]_vars
  PROVE  \A c \in Calls : message'[c] = "acked" => c \in handled' \cup limited'
<1>0. \A c \in Calls : message[c] = "acked" => c \in handled \cup limited
  BY DEF BatchInv
<1>1. CASE Platform
  BY <1>0, <1>1, PlatformNotes DEF Noted, queueVars
<1>2. ASSUME NEW c \in Calls, CallMoves(c)
      PROVE  \A e \in Calls : message'[e] = "acked" => e \in handled' \cup limited'
  <2>1. /\ UNCHANGED <<handled, limited>>
        /\ message' \in {message, [message EXCEPT ![c] = "queued"]}
    BY <1>2, CallFrame DEF Typed
  <2> QED
    BY <1>0, <2>1 DEF Typed, TypeOK
<1>3. ASSUME NEW b \in Batches, Delivery(b)
      PROVE  \A e \in Calls : message'[e] = "acked" => e \in handled' \cup limited'
  <2>1. handled \subseteq handled' /\ limited \subseteq limited'
    BY <1>3, DeliveryFrame DEF Typed
  <2>2. CASE \E a \in Apps, batched \in SUBSET Calls : Start(b, a, batched)
    BY <1>0, <2>1, <2>2 DEF Start
  <2>3. CASE \/ LoadMapping(b) \/ LoadRecord(b) \/ CheckDelivery(b)
             \/ Dispatch(b) \/ Die(b)
    BY <1>0, <2>1, <2>3 DEF LoadMapping, LoadRecord, CheckDelivery, Dispatch, Die
  <2>4. CASE Acknowledge(b)
    <3>1. batch[b].messages \subseteq handled \cup limited
      BY <2>4 DEF Acknowledge, BatchInv, BatchOf
    <3> QED
      BY <1>0, <2>1, <2>4, <3>1 DEF Acknowledge, Over
  <2>5. CASE Retry(b)
    BY <1>0, <2>1, <2>5 DEF Retry, Over
  <2> QED
    BY <1>3, <2>2, <2>3, <2>4, <2>5 DEF Delivery, BatchStep
<1>4. CASE UNCHANGED vars
  BY <1>0, <1>4 DEF vars, queueVars
<1> QED
  BY <1>1, <1>2, <1>3, <1>4, NextCases

\* Every step keeps what deliveries know.
LEMMA BatchInvStep ==
  ASSUME Typed, RecordIsOwn, NowIsSeen, SteadyInv, BatchInv, [Next]_vars
  PROVE  BatchInv'
<1>0. seen \in [Calls \cup Batches -> SUBSET Stored]
  BY DEF Typed, TypeOK
<1>1. CASE Platform
  <2>1. \A b \in Batches : seen[b] \subseteq seen'[b]
    BY <1>1, PlatformSees
  <2>2. UNCHANGED <<plan, queueVars>>
    BY <1>1, PlatformNotes DEF Noted
  <2> QED
    BY <2>1, <2>2, BatchStays, AckedStep DEF BatchInv, queueVars
<1>2. ASSUME NEW c \in Calls, CallMoves(c)
      PROVE  BatchInv'
  <2>1. \A b \in Batches : seen'[b] = seen[b]
    BY <1>0, <1>2, CallFrame, CallsAssumption DEF Typed
  <2>2. UNCHANGED <<plan, step, batch, handled, limited>>
    BY <1>2, CallFrame DEF Typed
  <2> QED
    BY <2>1, <2>2, BatchStays, AckedStep DEF BatchInv
<1>3. ASSUME NEW b \in Batches, Delivery(b)
      PROVE  BatchInv'
  <2>1. BatchOf(b)'
    BY <1>3, BatchKeeps DEF BatchInv
  <2>2. ASSUME NEW e \in Batches, e # b
        PROVE  BatchOf(e)'
    <3>1. seen'[e] = seen[e]
      BY <1>0, <1>3, <2>2, DeliveryFrame DEF Typed
    <3> QED
      BY <1>3, <2>2, <3>1, DeliveryFrame, BatchStays DEF Typed, BatchInv
  <2> QED
    BY <2>1, <2>2, AckedStep DEF BatchInv
<1>4. CASE UNCHANGED vars
  BY <1>4, BatchStays, AckedStep DEF vars, queueVars, BatchInv
<1> QED
  BY <1>1, <1>2, <1>3, <1>4, NextCases

(***************************************************************************)
(* A deploy that stores has its app to itself.                             *)
(***************************************************************************)
LEMMA DeployStep ==
  ASSUME Typed, DeployInv, [Next]_vars
  PROVE  DeployInv'
<1>0. /\ stage = [d \in Deploys |-> stage[d]] /\ puts = [d \in Deploys |-> puts[d]]
      /\ record \in [Apps -> Deploys \cup {None}]
      /\ consumer \in [Apps -> Deploys \cup {None}]
      /\ \A d \in Deploys : plan[d].app \in Apps
  BY Shapes, PlanType DEF Typed
<1>1. /\ Now.record = record /\ Now.consumer = consumer
      /\ Now'.record = record' /\ Now'.consumer = consumer'
  BY DEF Now
<1> HIDE DEF Now
<1>2. ASSUME UNCHANGED <<plan, stage, puts, record, consumer>>
      PROVE  DeployInv'
  BY <1>1, <1>2 DEF DeployInv, Agrees, PathOf
<1>3. CASE Platform
  <2>1. plan' = plan
    BY <1>3, PlatformNotes DEF Noted
  <2>2. ASSUME NEW d \in Deploys, Upload(d)
        PROVE  DeployInv'
    <3>1. /\ stage' = [stage EXCEPT ![d] = "uploaded"] /\ stage[d] = "new"
          /\ UNCHANGED <<puts, record, consumer>>
          /\ \A e \in Deploys : e # d /\ plan[e].app = plan[d].app
               => stage[e] \notin {"uploaded", "storing"}
      BY <2>2 DEF Upload
    <3>2. \A e \in Deploys : e # d => stage'[e] = stage[e]
      BY <1>0, <3>1
    <3>3. stage'[d] = "uploaded"
      BY <1>0, <3>1
    <3>4. \A a \in Apps : Agrees(Now, a)' <=> Agrees(Now, a)
      BY <1>1, <2>1, <3>1 DEF Agrees, PathOf
    <3>5. DeployInv!1'
      BY <2>1, <3>1, <3>2, <3>3 DEF DeployInv
    <3>6. DeployInv!2'
      BY <2>1, <3>1, <3>2, <3>3 DEF DeployInv
    <3>7. DeployInv!3'
      BY <2>1, <3>1, <3>2, <3>3, <3>4 DEF DeployInv
    <3> QED
      BY <3>5, <3>6, <3>7 DEF DeployInv
  <2>3. ASSUME NEW d \in Deploys, Store(d)
        PROVE  DeployInv'
    BY <1>0, <1>1, <2>1, <2>3 DEF Store, DeployInv, Agrees, PathOf
  <2>4. ASSUME NEW d \in Deploys, Fail(d)
        PROVE  DeployInv'
    BY <1>0, <1>1, <2>1, <2>4 DEF Fail, DeployInv, Agrees, PathOf
  <2>5. ASSUME NEW d \in Deploys, MapQueue(d)
        PROVE  DeployInv'
    <3>1. record[plan[d].app] = d
      BY <2>5 DEF MapQueue, DeployInv
    <3>2. /\ UNCHANGED <<puts, record>> /\ stage[d] = "storing"
          /\ stage'[d] = "done" /\ \A e \in Deploys : e # d => stage'[e] = stage[e]
          /\ \A a \in Apps : a # plan[d].app => consumer'[a] = consumer[a]
          /\ consumer'[plan[d].app] = IF plan[d].path = None THEN None ELSE d
      BY <1>0, <2>5 DEF MapQueue
    <3>3. /\ \A a \in Apps : a # plan[d].app => (Agrees(Now, a)' <=> Agrees(Now, a))
          /\ Agrees(Now, plan[d].app)'
      BY <1>0, <1>1, <2>1, <3>1, <3>2, NoneAssumption DEF Agrees, PathOf
    <3>4. DeployInv!1' /\ DeployInv!2'
      BY <2>1, <3>2 DEF DeployInv
    <3>5. DeployInv!3'
      BY <2>1, <3>2, <3>3 DEF DeployInv
    <3> QED
      BY <3>4, <3>5 DEF DeployInv
  <2>6. ASSUME NEW d \in Deploys, NEW put \in {"record", "token"}, Land(d, put)
        PROVE  DeployInv'
    BY <1>0, <1>1, <2>1, <2>6 DEF Land, DeployInv, Agrees, PathOf
  <2>7. ASSUME NEW a \in Apps, SuspendOrResume(a)
        PROVE  DeployInv'
    BY <1>2, <2>1, <2>7 DEF SuspendOrResume
  <2> QED
    BY <1>3, <2>2, <2>3, <2>4, <2>5, <2>6, <2>7 DEF Platform
<1>4. Platform \/ UNCHANGED <<plan, platform>>
  BY NextCases, CallFrame, DeliveryFrame DEF Typed, vars
<1> QED
  BY <1>2, <1>3, <1>4 DEF platform

\* At first no delivery has begun and the histories agree.
LEMMA InitDeliveries == Init => SteadyInv /\ BatchInv /\ DeployInv
<1> SUFFICES ASSUME Init
             PROVE  SteadyInv /\ BatchInv /\ DeployInv
  OBVIOUS
<1>1. SteadyInv /\ BatchInv
  BY DEF Init, SteadyInv, BatchInv, BatchOf, Active
<1>2. PICK h \in Histories :
        /\ plan = h.plan
        /\ stage = [d \in Deploys |-> IF d \in h.past THEN "done" ELSE "new"]
        /\ record = [a \in Apps |-> Latest(h, a)]
        /\ consumer = [a \in Apps |->
             IF Latest(h, a) # None /\ h.plan[Latest(h, a)].path # None
             THEN Latest(h, a) ELSE None]
  BY Zenon DEF Init
<1>3. \A a \in Apps : Agrees(Now, a)
  BY <1>2 DEF Agrees, Now, PathOf
<1> QED
  BY <1>1, <1>2, <1>3 DEF DeployInv

MessagesInv == CallsInv /\ SteadyInv /\ BatchInv /\ DeployInv

\* All parts hold together.
LEMMA MessagesInvariant == Spec => []MessagesInv
<1>1. Init => MessagesInv
  BY InitType, InitCalls, InitDeliveries DEF MessagesInv, CallsInv, Typed
<1>2. MessagesInv /\ [Next]_vars => MessagesInv'
  BY StepType, OwnStep, SeenStep, CallInvStep, SteadyStep, BatchInvStep, DeployStep
     DEF MessagesInv, CallsInv, Typed
<1> QED
  BY <1>1, <1>2, PTL DEF Spec

(***************************************************************************)
(* Whatever is deployed while messages are delivered, one is taken for     *)
(* delivered only if a consumer answered for it or a limit skipped it, and *)
(* a consumer is missed only where a deploy was or ended between its       *)
(* record and its queue mapping, or no queue was.                          *)
(***************************************************************************)
THEOREM MessagesAreAccountedFor == Spec => []MessagesEndForAReason
<1>1. MessagesInv => MessagesEndForAReason
  BY DEF MessagesInv, BatchInv, BatchOf, DeployInv, MessagesEndForAReason
<1> QED
  BY <1>1, MessagesInvariant, PTL
=============================================================================
