------------------------------- MODULE AppCalls -------------------------------
(***************************************************************************)
(* What the Worker of an app asks of the platform with the tokens of its   *)
(* deployment (api/rpc.ts, api/queues.ts, api/ai.ts): to run another app,  *)
(* to send a message to a queue of one, to run a model; and how a batch of *)
(* messages reaches its consumer (runtime/queueDelivery.ts).               *)
(*                                                                         *)
(* A deploy uploads a script with new tokens, stores the record with their *)
(* hashes and, beside it, who each token belongs to, and last the consumer *)
(* of its queue.  Calls and deliveries read these one by one, and so with  *)
(* parts of two deploys.  The questions are for whom a call then is let    *)
(* through or refused, and what becomes of a message.                      *)
(*                                                                         *)
(* Each app has at most one queue, and one deploy at a time: overlapping   *)
(* ones are the subject of DeployPipeline, and the caches in front of what *)
(* is read, by how much it may be late, that of MetadataCache.             *)
(***************************************************************************)
EXTENDS Naturals, FiniteSets

CONSTANTS
  Apps,
  Owner,       \* Owner[a]: the organization of an app
  None,
  Deploys,     \* deploys, and the token each has generated
  Histories,   \* what they deploy (see Plan) and which of them are past
  Calls,       \* calls, and the messages they send
  Scenarios,   \* what the calls ask for, see Ask
  Batches,     \* deliveries that may run at the same time
  Paths,       \* consumer paths of queues
  MaxRetries,  \* max_retries of a queue's consumer
  MaxSuspensions  \* suspensions and resumptions: a bound

(***************************************************************************)
(* worker: the deploy has a backend; without one it has no tokens.  path:  *)
(* where it consumes its queue; allows: the apps of other owners that may  *)
(* call it.                                                                *)
(***************************************************************************)
Plan == [app : Apps, worker : BOOLEAN, path : Paths \cup {None},
         allows : SUBSET Apps]

(***************************************************************************)
(* by: the deploy whose code calls; claim: the app that the caller headers *)
(* name.                                                                   *)
(***************************************************************************)
Ask == [kind : {"rpc", "queue", "ai", "none"}, by : Deploys,
        claim : Apps \cup {None}, target : Apps]

ASSUME NoneAssumption == None \notin Apps \cup Deploys \cup Paths
ASSUME HistoriesAssumption ==
  \A h \in Histories :
    /\ h \in [plan : [Deploys -> Plan], past : SUBSET Deploys]
    /\ \A d \in Deploys : ~ h.plan[d].worker => h.plan[d].path = None
    /\ \A d, e \in h.past : h.plan[d].app = h.plan[e].app => d = e
ASSUME ScenariosAssumption == Scenarios \subseteq [Calls -> Ask]
ASSUME MaxRetriesAssumption == MaxRetries \in Nat
ASSUME CallsAssumption == Calls \cap Batches = {}

VARIABLES
  plan,       \* plan[d]: what d deploys
  stage,      \* stage[d]: new, uploaded, storing, done or failed
  puts,       \* puts[d]: what d has yet to put, "record" and "token"
  record,     \* record[a]: the deploy whose record is stored
  mapped,     \* the deploys whose tokens are mapped to their app
  consumer,   \* consumer[a]: the deploy whose queue mapping is stored
  suspended,  \* suspended apps
  toggles,    \* how often that has changed
  ask,        \* ask[c]: what c asks for
  pc,         \* pc[c]: what c does next
  who,        \* who[c]: the app it is taken to come from
  took,       \* took[c]: the deploy of the target whose record it has read
  answer,     \* answer[c]: what the caller is told
  message,    \* message[c]: none, queued, flying, acked or dead
  tries,      \* tries[c]: failed deliveries
  batch,      \* batch[b]: its app and messages, and what it has read
  step,       \* step[b]: what it does next
  handled,    \* messages a consumer has answered for with success
  limited,    \* messages skipped because of a usage limit
  seen        \* history: what was stored since a call or batch began

platform == <<stage, puts, record, mapped, consumer, suspended, toggles>>
callVars == <<pc, who, took, answer>>
queueVars == <<message, tries, batch, step, handled, limited>>
vars == <<plan, platform, ask, callVars, queueVars, seen>>

Idle == [app |-> None, messages |-> {}, consumer |-> None, target |-> None]

Now == [record |-> record, mapped |-> mapped, consumer |-> consumer,
        suspended |-> suspended]

PathOf(d) == IF d = None THEN None ELSE plan[d].path

Latest(h, a) ==
  IF \E d \in h.past : h.plan[d].app = a
  THEN CHOOSE d \in h.past : h.plan[d].app = a ELSE None

Init ==
  /\ \E h \in Histories :
       /\ plan = h.plan
       /\ stage = [d \in Deploys |-> IF d \in h.past THEN "done" ELSE "new"]
       /\ record = [a \in Apps |-> Latest(h, a)]
       /\ mapped = {d \in h.past : h.plan[d].worker}
       /\ consumer = [a \in Apps |->
            IF Latest(h, a) # None /\ h.plan[Latest(h, a)].path # None
            THEN Latest(h, a) ELSE None]
  /\ puts = [d \in Deploys |-> {}]
  /\ suspended = {}
  /\ toggles = 0
  /\ ask \in Scenarios
  /\ pc = [c \in Calls |-> "new"]
  /\ who = [c \in Calls |-> None]
  /\ took = [c \in Calls |-> None]
  /\ answer = [c \in Calls |-> "none"]
  /\ message = [c \in Calls |-> "none"]
  /\ tries = [c \in Calls |-> 0]
  /\ batch = [b \in Batches |-> Idle]
  /\ step = [b \in Batches |-> "idle"]
  /\ handled = {}
  /\ limited = {}
  /\ seen = [x \in Calls \cup Batches |-> {}]

-----------------------------------------------------------------------------
(* Deploys *)

Active == {c \in Calls : pc[c] \notin {"new", "ended"}}
          \cup {b \in Batches : step[b] # "idle"}

\* Whatever is under way may have met what is stored from now on.
Noted ==
  /\ seen' = [x \in Calls \cup Batches |->
                IF x \in Active THEN seen[x] \cup {Now'} ELSE seen[x]]
  /\ UNCHANGED <<plan, ask, callVars, queueVars>>

(***************************************************************************)
(* publishIsolateWorker: the script holds new tokens before any record     *)
(* does.  Its code may call from now on.                                   *)
(***************************************************************************)
Upload(d) ==
  /\ stage[d] = "new"
  /\ \A e \in Deploys \ {d} :
       plan[e].app = plan[d].app => stage[e] \notin {"uploaded", "storing"}
  /\ stage' = [stage EXCEPT ![d] = "uploaded"]
  /\ UNCHANGED <<puts, record, mapped, consumer, suspended, toggles>>
  /\ Noted

Store(d) ==
  /\ stage[d] = "uploaded"
  /\ stage' = [stage EXCEPT ![d] = "storing"]
  /\ puts' = [puts EXCEPT ![d] =
       IF plan[d].worker THEN {"record", "token"} ELSE {"record"}]
  /\ UNCHANGED <<record, mapped, consumer, suspended, toggles>>
  /\ Noted

\* storeDeploymentRecord: the puts are awaited together.
Land(d, put) ==
  /\ stage[d] = "storing"
  /\ put \in puts[d]
  /\ puts' = [puts EXCEPT ![d] = @ \ {put}]
  /\ record' = IF put = "record" THEN [record EXCEPT ![plan[d].app] = d]
               ELSE record
  /\ mapped' = IF put = "token" THEN mapped \cup {d} ELSE mapped
  /\ UNCHANGED <<stage, consumer, suspended, toggles>>
  /\ Noted

(***************************************************************************)
(* replaceQueueMappings: the mapping of a queue the app has no longer is   *)
(* deleted, that of the one it has put.                                    *)
(***************************************************************************)
MapQueue(d) ==
  /\ stage[d] = "storing"
  /\ puts[d] = {}
  /\ stage' = [stage EXCEPT ![d] = "done"]
  /\ consumer' = [consumer EXCEPT ![plan[d].app] =
       IF plan[d].path = None THEN None ELSE d]
  /\ UNCHANGED <<puts, record, mapped, suspended, toggles>>
  /\ Noted

\* An await rejects or the isolate dies.
Fail(d) ==
  /\ stage[d] \in {"uploaded", "storing"}
  /\ stage' = [stage EXCEPT ![d] = "failed"]
  /\ UNCHANGED <<puts, record, mapped, consumer, suspended, toggles>>
  /\ Noted

SuspendOrResume(a) ==
  /\ toggles < MaxSuspensions
  /\ toggles' = toggles + 1
  /\ suspended' = IF a \in suspended THEN suspended \ {a}
                  ELSE suspended \cup {a}
  /\ UNCHANGED <<stage, puts, record, mapped, consumer>>
  /\ Noted

-----------------------------------------------------------------------------
(* Calls: handleRpc, handleQueueSend, handleAiRun *)

Goto(c, next) == pc' = [pc EXCEPT ![c] = next]

Reply(c, told) ==
  /\ Goto(c, "ended")
  /\ answer' = [answer EXCEPT ![c] = told]

CallOnly == UNCHANGED <<plan, platform, ask, queueVars>>

Begin(c) ==
  /\ pc[c] = "new"
  /\ ask[c].kind # "none"
  /\ stage[ask[c].by] # "new" /\ plan[ask[c].by].worker
  /\ Goto(c, "caller")
  /\ seen' = [seen EXCEPT ![c] = {Now}]
  /\ CallOnly /\ UNCHANGED <<who, took, answer>>

\* Mutant: the headers are believed before the token's mapping is asked.
ResolveCallerByHeader(c) ==
  /\ pc[c] = "caller"
  /\ LET caller == IF ask[c].claim # None THEN ask[c].claim
                   ELSE IF ask[c].by \in mapped THEN plan[ask[c].by].app
                   ELSE None IN
     IF caller = None THEN Reply(c, "unknown") /\ UNCHANGED who
     ELSE /\ who' = [who EXCEPT ![c] = caller]
          /\ Goto(c, "record") /\ UNCHANGED answer
  /\ CallOnly /\ UNCHANGED <<took, seen>>

(***************************************************************************)
(* resolveCallerFromToken: the app the token is mapped to or, where it is  *)
(* not, the one that the headers name.                                     *)
(***************************************************************************)
ResolveCaller(c) ==
  /\ pc[c] = "caller"
  /\ LET caller == IF ask[c].by \in mapped THEN plan[ask[c].by].app
                   ELSE ask[c].claim IN
     IF caller = None THEN Reply(c, "unknown") /\ UNCHANGED who
     ELSE /\ who' = [who EXCEPT ![c] = caller]
          /\ Goto(c, "record") /\ UNCHANGED answer
  /\ CallOnly /\ UNCHANGED <<took, seen>>

\* Mutant: any hash in the caller's record will do.
CheckTokenIsThere(c) ==
  /\ pc[c] = "record"
  /\ LET d == record[who[c]] IN
     IF d # None /\ plan[d].worker
     THEN Goto(c, IF ask[c].kind = "ai" THEN "caller awake" ELSE "target")
          /\ UNCHANGED answer
     ELSE Reply(c, "unknown")
  /\ CallOnly /\ UNCHANGED <<who, took, seen>>

\* The hash in the caller's record must be that of the token.
CheckToken(c) ==
  /\ pc[c] = "record"
  /\ IF record[who[c]] = ask[c].by
     THEN Goto(c, IF ask[c].kind = "ai" THEN "caller awake" ELSE "target")
          /\ UNCHANGED answer
     ELSE Reply(c, "unknown")
  /\ CallOnly /\ UNCHANGED <<who, took, seen>>

\* isAuthorizedCaller
IsAuthorizedCaller(a, d) ==
  Owner[a] = Owner[plan[d].app] \/ a \in plan[d].allows

(***************************************************************************)
(* The target must be deployed in the caller's environment, with a backend *)
(* to run or a queue to send to, and let the caller in.                    *)
(***************************************************************************)
LoadTarget(c) ==
  /\ pc[c] = "target"
  /\ LET d == record[ask[c].target]
         has == d # None /\ IF ask[c].kind = "rpc" THEN plan[d].worker
                            ELSE plan[d].path # None IN
     IF has /\ IsAuthorizedCaller(who[c], d)
     THEN /\ took' = [took EXCEPT ![c] = d]
          /\ Goto(c, "caller awake") /\ UNCHANGED answer
     ELSE /\ Reply(c, IF has THEN "forbidden" ELSE "not found")
          /\ UNCHANGED took
  /\ CallOnly /\ UNCHANGED <<who, seen>>

\* enforceAppNotSuspended, for the caller and then for the target.
CheckCaller(c) ==
  /\ pc[c] = "caller awake"
  /\ IF who[c] \in suspended THEN Reply(c, "suspended")
     ELSE Goto(c, IF ask[c].kind = "ai" THEN "limit" ELSE "target awake")
          /\ UNCHANGED answer
  /\ CallOnly /\ UNCHANGED <<who, took, seen>>

CheckTarget(c) ==
  /\ pc[c] = "target awake"
  /\ IF ask[c].target \in suspended THEN Reply(c, "suspended")
     ELSE Goto(c, "limit") /\ UNCHANGED answer
  /\ CallOnly /\ UNCHANGED <<who, took, seen>>

\* enforceUsageLimit, whose counters are those of DailyLimits.
CheckLimit(c) ==
  /\ pc[c] = "limit"
  /\ \/ Reply(c, "limited")
     \/ Goto(c, "act") /\ UNCHANGED answer
  /\ CallOnly /\ UNCHANGED <<who, took, seen>>

(***************************************************************************)
(* The target's Worker or the model is run, or the message is sent, whose  *)
(* answer may be lost.  Usage is recorded as far as that succeeds.         *)
(***************************************************************************)
Act(c) ==
  /\ pc[c] = "act"
  /\ \/ ask[c].kind # "queue" /\ Reply(c, "ran") /\ UNCHANGED message
     \/ /\ ask[c].kind = "queue"
        /\ message' = [message EXCEPT ![c] = "queued"]
        /\ \E told \in {"sent", "error"} : Reply(c, told)
     \/ ask[c].kind = "queue" /\ Reply(c, "error") /\ UNCHANGED message
  /\ UNCHANGED <<plan, platform, ask, who, took, tries, batch, step, handled,
                 limited, seen>>

CallStep(c) ==
  \/ ResolveCaller(c) \/ CheckToken(c) \/ LoadTarget(c) \/ CheckCaller(c)
  \/ CheckTarget(c) \/ CheckLimit(c) \/ Act(c)

-----------------------------------------------------------------------------
(* Deliveries: handleQueueBatch *)

DeliveryOnly == UNCHANGED <<plan, platform, ask, callVars>>

Turn(b, next) == step' = [step EXCEPT ![b] = next]

\* The queue hands some of its messages to the platform's Worker.
Start(b, a, batched) ==
  /\ step[b] = "idle"
  /\ batched # {}
  /\ \A c \in batched : message[c] = "queued" /\ ask[c].target = a
  /\ message' = [c \in Calls |-> IF c \in batched THEN "flying" ELSE message[c]]
  /\ batch' = [batch EXCEPT ![b] = [Idle EXCEPT !.app = a, !.messages = batched]]
  /\ Turn(b, "mapping")
  /\ seen' = [seen EXCEPT ![b] = {Now}]
  /\ DeliveryOnly /\ UNCHANGED <<tries, handled, limited>>

\* Mutant: a batch waits for the mapping of its queue.
LoadMappingWaits(b) ==
  /\ step[b] = "mapping"
  /\ consumer[batch[b].app] # None
  /\ batch' = [batch EXCEPT ![b].consumer = consumer[batch[b].app]]
  /\ Turn(b, "record")
  /\ DeliveryOnly /\ UNCHANGED <<message, tries, handled, limited, seen>>

\* Without a mapping the batch is thrown back.
LoadMapping(b) ==
  /\ step[b] = "mapping"
  /\ batch' = [batch EXCEPT ![b].consumer = consumer[batch[b].app]]
  /\ Turn(b, IF consumer[batch[b].app] = None THEN "homeless" ELSE "record")
  /\ DeliveryOnly /\ UNCHANGED <<message, tries, handled, limited, seen>>

\* And without a record that has a backend.
LoadRecord(b) ==
  /\ step[b] = "record"
  /\ LET d == record[batch[b].app] IN
     /\ batch' = [batch EXCEPT ![b].target = d]
     /\ Turn(b, IF d # None /\ plan[d].worker THEN "limit" ELSE "homeless")
  /\ DeliveryOnly /\ UNCHANGED <<message, tries, handled, limited, seen>>

(***************************************************************************)
(* checkBlockedUsageLimit: a blocked batch is neither dispatched nor       *)
(* thrown back.  Whether the app is suspended is not asked.                *)
(***************************************************************************)
CheckDelivery(b) ==
  /\ step[b] = "limit"
  /\ \/ /\ limited' = limited \cup batch[b].messages
        /\ Turn(b, "returned")
     \/ Turn(b, "dispatch") /\ UNCHANGED limited
  /\ DeliveryOnly /\ UNCHANGED <<message, tries, batch, handled, seen>>

\* Mutant: the batch is done with, whatever the consumer answers.
DispatchReturns(b) ==
  /\ step[b] = "dispatch"
  /\ LET found == PathOf(batch[b].consumer) = PathOf(batch[b].target) IN
     \/ /\ found
        /\ handled' = handled \cup batch[b].messages
        /\ Turn(b, "returned")
     \/ Turn(b, "returned") /\ UNCHANGED handled
  /\ DeliveryOnly /\ UNCHANGED <<message, tries, batch, limited, seen>>

(***************************************************************************)
(* The Worker of the record is run at the path of the mapping.  One that   *)
(* it consumes may fail; of an app it is assumed that it does not answer   *)
(* 2xx, which acknowledges the batch, at a path that it does not consume.  *)
(* Anything but success throws the batch back.                             *)
(***************************************************************************)
Dispatch(b) ==
  /\ step[b] = "dispatch"
  /\ LET found == PathOf(batch[b].consumer) = PathOf(batch[b].target) IN
     \/ /\ found
        /\ handled' = handled \cup batch[b].messages
        /\ Turn(b, "returned")
     \/ Turn(b, IF found THEN "failed" ELSE "homeless") /\ UNCHANGED handled
  /\ DeliveryOnly /\ UNCHANGED <<message, tries, batch, limited, seen>>

\* The isolate dies, be it after the consumer has answered.
Die(b) ==
  /\ step[b] \in {"mapping", "record", "limit", "dispatch", "returned"}
  /\ Turn(b, "failed")
  /\ DeliveryOnly
  /\ UNCHANGED <<message, tries, batch, handled, limited, seen>>

Over(b, fate) ==
  /\ message' = [c \in Calls |-> IF c \in batch[b].messages THEN fate[c]
                                 ELSE message[c]]
  /\ batch' = [batch EXCEPT ![b] = Idle]
  /\ Turn(b, "idle")
  /\ seen' = [seen EXCEPT ![b] = {}]
  /\ DeliveryOnly /\ UNCHANGED <<handled, limited>>

\* The queue takes a batch that returns for delivered.
Acknowledge(b) ==
  /\ step[b] = "returned"
  /\ Over(b, [c \in Calls |-> "acked"])
  /\ UNCHANGED tries

(***************************************************************************)
(* It retries the messages of one that does not, and drops those that have *)
(* been retried often enough (queueConsumerSettings, without a dead letter *)
(* queue).                                                                 *)
(***************************************************************************)
Retry(b) ==
  /\ step[b] \in {"homeless", "failed"}
  /\ tries' = [c \in Calls |->
       IF c \in batch[b].messages THEN tries[c] + 1 ELSE tries[c]]
  /\ Over(b, [c \in Calls |-> IF tries[c] = MaxRetries THEN "dead" ELSE "queued"])

BatchStep(b) ==
  \/ LoadMapping(b) \/ LoadRecord(b) \/ CheckDelivery(b) \/ Dispatch(b)
  \/ Acknowledge(b) \/ Retry(b)

-----------------------------------------------------------------------------

Next ==
  \/ \E d \in Deploys :
       \/ Upload(d) \/ Store(d) \/ MapQueue(d) \/ Fail(d)
       \/ \E put \in {"record", "token"} : Land(d, put)
  \/ \E a \in Apps : SuspendOrResume(a)
  \/ \E c \in Calls : Begin(c) \/ CallStep(c)
  \/ \E b \in Batches :
       \/ \E a \in Apps, batched \in SUBSET Calls : Start(b, a, batched)
       \/ BatchStep(b)
       \/ Die(b)

(***************************************************************************)
(* The queue hands out what it has, and a delivery that begins ends, if by *)
(* the death of its isolate.  Nothing is assumed of deploys and calls.     *)
(***************************************************************************)
Fairness ==
  \A b \in Batches :
    /\ WF_vars(BatchStep(b))
    /\ WF_vars(\E a \in Apps, batched \in SUBSET Calls : Start(b, a, batched))

Spec == Init /\ [][Next]_vars /\ Fairness

-----------------------------------------------------------------------------
(* Properties *)

Stored == [record : [Apps -> Deploys \cup {None}], mapped : SUBSET Deploys,
           consumer : [Apps -> Deploys \cup {None}], suspended : SUBSET Apps]

Batch == [app : Apps \cup {None}, messages : SUBSET Calls,
          consumer : Deploys \cup {None}, target : Deploys \cup {None}]

\* Every variable has its type.
TypeOK ==
  /\ plan \in [Deploys -> Plan]
  /\ stage \in [Deploys -> {"new", "uploaded", "storing", "done", "failed"}]
  /\ puts \in [Deploys -> SUBSET {"record", "token"}]
  /\ Now \in Stored
  /\ toggles \in Nat
  /\ ask \in [Calls -> Ask]
  /\ pc \in [Calls -> {"new", "caller", "record", "target", "caller awake",
                      "target awake", "limit", "act", "ended"}]
  /\ who \in [Calls -> Apps \cup {None}]
  /\ took \in [Calls -> Deploys \cup {None}]
  /\ answer \in [Calls -> {"none", "unknown", "forbidden", "not found",
                          "suspended", "limited", "ran", "sent", "error"}]
  /\ message \in [Calls -> {"none", "queued", "flying", "acked", "dead"}]
  /\ tries \in [Calls -> Nat]
  /\ batch \in [Batches -> Batch]
  /\ step \in [Batches -> {"idle", "mapping", "record", "limit", "dispatch",
                          "returned", "homeless", "failed"}]
  /\ handled \subseteq Calls /\ limited \subseteq Calls
  /\ seen \in [Calls \cup Batches -> SUBSET Stored]

(***************************************************************************)
(* A call that is let through comes from the app it is taken to come from, *)
(* whose live deployment, at some time during the call, was the one that   *)
(* calls; its target, if any, was deployed as one that lets that app in;   *)
(* and each was not suspended at some time.                                *)
(***************************************************************************)
LetThroughRightly ==
  \A c \in Calls :
    pc[c] = "act" \/ answer[c] \in {"ran", "sent"} =>
      /\ who[c] = plan[ask[c].by].app
      /\ \E s \in seen[c] : s.record[who[c]] = ask[c].by
      /\ \E s \in seen[c] : who[c] \notin s.suspended
      /\ ask[c].kind # "ai" =>
           /\ IsAuthorizedCaller(who[c], took[c])
           /\ \E s \in seen[c] : s.record[ask[c].target] = took[c]
           /\ \E s \in seen[c] : ask[c].target \notin s.suspended

(***************************************************************************)
(* The credentials of a live deployment hold: a call is refused for them   *)
(* only if at some time since it began its deployment was not the live     *)
(* one, or the put of its token's mapping had not landed and its headers   *)
(* did not name it.  What it claims to be does not matter otherwise.       *)
(***************************************************************************)
RefusalsMeanRedeploy ==
  \A c \in Calls :
    answer[c] = "unknown" =>
      LET a == plan[ask[c].by].app IN
      \E s \in seen[c] : \/ s.record[a] # ask[c].by
                         \/ ask[c].by \notin s.mapped /\ ask[c].claim # a

\* Record and queue mapping are of the same deploy.
Agrees(s, a) ==
  s.consumer[a] = IF PathOf(s.record[a]) = None THEN None ELSE s.record[a]

(***************************************************************************)
(* A message leaves its queue as delivered only if a consumer took it or a *)
(* limit skipped it; and the platform fails to find the consumer of one    *)
(* only if at some time since the delivery began the app had no queue, or  *)
(* a deploy was between its record and its queue mapping or failed there.  *)
(***************************************************************************)
MessagesEndForAReason ==
  /\ \A c \in Calls : message[c] = "acked" => c \in handled \cup limited
  /\ \A b \in Batches :
       step[b] = "homeless" =>
         \E s \in seen[b] : \/ ~ Agrees(s, batch[b].app)
                            \/ PathOf(s.record[batch[b].app]) = None
  /\ \A a \in Apps :
       ~ Agrees(Now, a) =>
         \E d \in Deploys : plan[d].app = a /\ stage[d] \in {"storing", "failed"}

(***************************************************************************)
(* A message that is queued does not stay: it is delivered, skipped or     *)
(* dropped after its retries, whatever is deployed meanwhile.              *)
(***************************************************************************)
EveryMessageSettles ==
  \A c \in Calls : message[c] = "queued" ~> message[c] \in {"acked", "dead"}
=============================================================================
