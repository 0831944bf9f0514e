------------------------ MODULE DeployPipelineProofs ------------------------
(***************************************************************************)
(* Proofs about DeployPipeline for every number of requests, commits,      *)
(* files and mappings: type correctness; the stored record only points at  *)
(* targets that were published, and the script that runs is the recorded   *)
(* one; credits are captured for what went live; a deploy that none        *)
(* overlaps leaves exactly what it was asked for.                          *)
(***************************************************************************)
EXTENDS DeployPipeline, TLAPS

(***************************************************************************)
(* The initial plan of a request is one of the plans.                      *)
(***************************************************************************)
LEMMA AnyPlanType == AnyPlan \in Plan
  BY PlansAssumption DEF AnyPlan

(***************************************************************************)
(* Before the first request everything is empty, and well typed.           *)
(***************************************************************************)
LEMMA InitType == Init => TypeOK
  BY AnyPlanType DEF Init, TypeOK

(***************************************************************************)
(* The script a request uploads has one of the script names.               *)
(***************************************************************************)
LEMMA ScriptNameType ==
  ASSUME TypeOK, NEW d \in Deploys
  PROVE  ScriptName(d) \in ScriptNames
  BY DEF TypeOK, ScriptName, ScriptNames, Plan

(***************************************************************************)
(* Moving a request to one of the labels keeps the type of pc.             *)
(***************************************************************************)
LEMMA GotoType ==
  ASSUME TypeOK, NEW d \in Deploys, NEW l \in {"idle"} \cup Waiting \cup Final,
         Goto(d, l)
  PROVE  pc' \in [Deploys -> {"idle"} \cup Waiting \cup Final]
  BY DEF TypeOK, Goto

(***************************************************************************)
(* A write that lands keeps the types of what is live.                     *)
(***************************************************************************)
LEMMA ApplyType ==
  ASSUME TypeOK, NEW d \in Deploys, NEW w \in Op, Apply(d, w)
  PROVE  /\ record' \in Deploys \cup {NoDeploy}
         /\ stored' \subseteq Deploys
         /\ scriptMap' \in [ScriptNames -> Deploys \cup {NoDeploy}]
         /\ tokens' \subseteq Deploys
         /\ mappings' \subseteq Mappings
<1>1. record' \in Deploys \cup {NoDeploy} /\ stored' \subseteq Deploys
  BY DEF Apply, TypeOK
<1>2. scriptMap' \in [ScriptNames -> Deploys \cup {NoDeploy}]
  BY ScriptNameType DEF Apply, TypeOK
<1>3. tokens' \subseteq Deploys
  BY DEF Apply, TypeOK
<1>4. mappings' \subseteq Mappings
  <2>1. CASE w.op = "put"
    <3>1. w.name \in Mappings
      BY <2>1 DEF Op
    <3> QED
      BY <2>1, <3>1 DEF Apply, TypeOK
  <2>2. CASE w.op # "put"
    BY <2>2 DEF Apply, TypeOK
  <2> QED
    BY <2>1, <2>2
<1> QED
  BY <1>1, <1>2, <1>3, <1>4

(***************************************************************************)
(* Starting a batch of writes keeps the type of inFlight.                  *)
(***************************************************************************)
LEMMA BatchType ==
  /\ \A k \in {"record", "script", "tokens"} : Batch(k, {NoName}) \subseteq Op
  /\ \A k \in {"delete", "put"} : \A names \in SUBSET Mappings :
       Batch(k, names) \subseteq Op
  BY DEF Batch, Op

(***************************************************************************)
(* What a stage of the replacement wants is a set of mappings.             *)
(***************************************************************************)
LEMMA WantedType ==
  ASSUME TypeOK, NEW d \in Deploys
  PROVE  Wanted(d) \subseteq Mappings
<1>1. stage[d] \in 1..3 /\ attached[d] \subseteq Routes
      /\ plan[d].maps \subseteq Mappings
  BY DEF TypeOK, Plan
<1> QED
  BY <1>1 DEF Wanted, Wants, Mappings

(***************************************************************************)
(* Every step of a request keeps the types.                                *)
(***************************************************************************)
LEMMA StepType == TypeOK /\ [Next]_vars => TypeOK'
<1> SUFFICES ASSUME TypeOK, [Next]_vars
             PROVE  TypeOK'
  OBVIOUS
<1>1. CASE UNCHANGED vars
  BY <1>1 DEF vars, published, live, TypeOK
<1>2. ASSUME NEW d \in Deploys, NEW p \in Plans, Begin(d, p)
      PROVE  TypeOK'
  <2>1. pc' \in [Deploys -> {"idle"} \cup Waiting \cup Final]
    BY <1>2, GotoType DEF Begin, Waiting
  <2>2. plan' \in [Deploys -> Plan]
    BY <1>2, PlansAssumption DEF Begin, TypeOK
  <2> QED
    BY <1>2, <2>1, <2>2 DEF Begin, TypeOK, published, live
<1>3. ASSUME NEW d \in Deploys, Step(d)
      PROVE  TypeOK'
  <2>0. \A l : l \in {"idle"} \cup Waiting \cup Final /\ Goto(d, l) =>
          pc' \in [Deploys -> {"idle"} \cup Waiting \cup Final]
    BY GotoType
  <2>1. CASE Reserve(d)
    <3>1. pc' \in [Deploys -> {"idle"} \cup Waiting \cup Final]
      BY <2>0, <2>1 DEF Reserve, Waiting, Final
    <3>2. reservation' \in [Shas -> {"none", "reserved", "captured", "refunded"}]
      BY <2>1 DEF Reserve, TypeOK
    <3> QED
      BY <2>1, <3>1, <3>2 DEF Reserve, TypeOK, published, live
  <2>2. CASE Validate(d)
    <3>1. pc' \in [Deploys -> {"idle"} \cup Waiting \cup Final]
      BY <2>0, <2>2 DEF Validate, Waiting, Final
    <3> QED
      BY <2>2, <3>1 DEF Validate, TypeOK, published, live
  <2>3. CASE PublishWorker(d)
    <3>1. pc' \in [Deploys -> {"idle"} \cup Waiting \cup Final]
      BY <2>0, <2>3 DEF PublishWorker, Waiting, Final
    <3>2. scripts' \in [ScriptNames -> Deploys \cup {NoDeploy}]
      BY <2>3, ScriptNameType DEF PublishWorker, TypeOK
    <3> QED
      BY <2>3, <3>1, <3>2 DEF PublishWorker, TypeOK, live
  <2>4. ASSUME NEW f \in Files, PutAsset(d, f)
        PROVE  TypeOK'
    <3>1. pc' \in [Deploys -> {"idle"} \cup Waiting \cup Final]
      BY <2>0, <2>4 DEF PutAsset, Waiting, Final, TypeOK
    <3>2. assets' \in [Shas -> SUBSET Files] /\ sent' \in [Deploys -> SUBSET Files]
      BY <2>4 DEF PutAsset, TypeOK
    <3> QED
      BY <2>4, <3>1, <3>2 DEF PutAsset, TypeOK, live
  <2>5. CASE PutManifest(d)
    <3>1. pc' \in [Deploys -> {"idle"} \cup Waiting \cup Final]
      BY <2>0, <2>5 DEF PutManifest, Waiting, Final
    <3>2. plan[d].files \subseteq Files
      BY DEF TypeOK, Plan
    <3>3. manifests' \in [Shas -> SUBSET Files]
      BY <2>5, <3>2 DEF PutManifest, TypeOK
    <3> QED
      BY <2>5, <3>1, <3>3 DEF PutManifest, TypeOK, live
  <2>6. ASSUME NEW granted \in SUBSET Routes, PlanDomains(d, granted)
        PROVE  TypeOK'
    <3>1. pc' \in [Deploys -> {"idle"} \cup Waiting \cup Final]
      BY <2>0, <2>6 DEF PlanDomains, Waiting, Final
    <3>2. attached' \in [Deploys -> SUBSET Routes]
      BY <2>6 DEF PlanDomains, TypeOK
    <3> QED
      BY <2>6, <3>1, <3>2 DEF PlanDomains, TypeOK, published, live
  <2>7. CASE Refund(d)
    <3>1. pc' \in [Deploys -> {"idle"} \cup Waiting \cup Final]
      BY <2>0, <2>7 DEF Refund, Waiting, Final
    <3>2. reservation' \in [Shas -> {"none", "reserved", "captured", "refunded"}]
      BY <2>7 DEF Refund, TypeOK
    <3> QED
      BY <2>7, <3>1, <3>2 DEF Refund, TypeOK, published, live
  <2>8. CASE Store(d)
    <3>1. pc' \in [Deploys -> {"idle"} \cup Waiting \cup Final]
      BY <2>0, <2>8 DEF Store, Waiting, Final
    <3>2. inFlight' \in [Deploys -> SUBSET Op]
      BY <2>8, BatchType DEF Store, TypeOK
    <3> QED
      BY <2>8, <3>1, <3>2 DEF Store, TypeOK, published, live
  <2>9. ASSUME NEW w \in inFlight[d], Land(d, w) \/ WriteFails(d, w)
        PROVE  TypeOK'
    <3>1. pc' \in [Deploys -> {"idle"} \cup Waiting \cup Final]
      BY <2>0, <2>9 DEF Land, WriteFails, Waiting, Final, TypeOK
    <3>2. w \in Op
      BY DEF TypeOK
    <3>3. /\ record' \in Deploys \cup {NoDeploy}
          /\ stored' \subseteq Deploys
          /\ scriptMap' \in [ScriptNames -> Deploys \cup {NoDeploy}]
          /\ tokens' \subseteq Deploys
          /\ mappings' \subseteq Mappings
      BY <2>9, <3>2, ApplyType DEF Land, WriteFails, live, TypeOK
    <3>4. inFlight' \in [Deploys -> SUBSET Op]
      BY <2>9 DEF Land, WriteFails, TypeOK
    <3> QED
      BY <2>9, <3>1, <3>3, <3>4 DEF Land, WriteFails, TypeOK, published
  <2>10. CASE ListStale(d) \/ PutWanted(d)
    <3>1. pc' \in [Deploys -> {"idle"} \cup Waiting \cup Final]
      BY <2>0, <2>10 DEF ListStale, PutWanted, Waiting, Final
    <3>2. inFlight' \in [Deploys -> SUBSET Op]
      <4>1. (mappings \cap StageNames[stage[d]] \cap Replaced(d)) \ Wanted(d)
                \in SUBSET Mappings
        BY DEF TypeOK
      <4> QED
        BY <2>10, <4>1, BatchType, WantedType DEF ListStale, PutWanted, TypeOK
    <3> QED
      BY <2>10, <3>1, <3>2
         DEF ListStale, PutWanted, TypeOK, published, live
  <2>11. CASE StageDone(d)
    <3>1. pc' \in [Deploys -> {"idle"} \cup Waiting \cup Final]
      BY <2>0, <2>11 DEF StageDone, Waiting, Final
    <3>2. stage' \in [Deploys -> 1..3]
      BY <2>11 DEF StageDone, TypeOK
    <3> QED
      BY <2>11, <3>1, <3>2 DEF StageDone, TypeOK, published, live
  <2>12. CASE Stored(d) \/ AttachRoutes(d)
    <3>1. pc' \in [Deploys -> {"idle"} \cup Waiting \cup Final]
      BY <2>0, <2>12 DEF Stored, AttachRoutes, Waiting, Final
    <3> QED
      BY <2>12, <3>1 DEF Stored, AttachRoutes, TypeOK, published, live
  <2>13. CASE Capture(d)
    <3>1. pc' \in [Deploys -> {"idle"} \cup Waiting \cup Final]
      BY <2>0, <2>13 DEF Capture, Waiting, Final
    <3>2. reservation' \in [Shas -> {"none", "reserved", "captured", "refunded"}]
      BY <2>13 DEF Capture, TypeOK
    <3> QED
      BY <2>13, <3>1, <3>2 DEF Capture, TypeOK, published, live
  <2>14. CASE Dies(d)
    <3>1. pc' \in [Deploys -> {"idle"} \cup Waiting \cup Final]
      BY <2>0, <2>14 DEF Dies, Waiting, Final
    <3>2. inFlight' \in [Deploys -> SUBSET Op]
      BY <2>14 DEF Dies, TypeOK
    <3> QED
      BY <2>14, <3>1, <3>2 DEF Dies, TypeOK, published, live
  <2> QED
    BY <1>3, <2>1, <2>2, <2>3, <2>4, <2>5, <2>6, <2>7, <2>8, <2>9, <2>10,
       <2>11, <2>12, <2>13, <2>14 DEF Step
<1> QED
  BY <1>1, <1>2, <1>3 DEF Next

(***************************************************************************)
(* The state of the pipeline is always well typed.                         *)
(***************************************************************************)
THEOREM TypeCorrect == Spec => []TypeOK
  BY InitType, StepType, PTL DEF Spec

-----------------------------------------------------------------------------
(***************************************************************************)
(* The order of publication.  Uploaded: the request is past the upload of  *)
(* its script; Reached: past the upload of its manifest, with its record   *)
(* about to be stored, in flight or stored.                                *)
(***************************************************************************)
Reached(d) ==
  \/ pc[d] \in {"domains", "store"}
  \/ \E w \in inFlight[d] : w.op = "record"
  \/ record = d

Uploaded(d) == pc[d] = "assets" \/ Reached(d)

SoleOfCommit(d) ==
  \A e \in Deploys \ {d} : pc[e] # "idle" => plan[e].sha # plan[d].sha

IdleIsBlank ==
  \A d \in Deploys : pc[d] = "idle" => sent[d] = {} /\ inFlight[d] = {}

SentIsThere == \A d \in Deploys : sent[d] \subseteq assets[plan[d].sha]

ManifestIsCovered == \A s \in Shas : manifests[s] \subseteq assets[s]

UploadedHasScript ==
  \A d \in Deploys : Uploaded(d) =>
    /\ pc[d] # "idle"
    /\ plan[d].native => scripts[ScriptName(d)] # NoDeploy
    /\ plan[d].native /\ ~ plan[d].durable /\ SoleOfCommit(d) =>
         scripts[ScriptName(d)] = d

ReachedHasManifest ==
  \A d \in Deploys : Reached(d) /\ plan[d].files # {} =>
    manifests[plan[d].sha] # {}

PublishOrder ==
  /\ IdleIsBlank
  /\ SentIsThere
  /\ ManifestIsCovered
  /\ UploadedHasScript
  /\ ReachedHasManifest

(***************************************************************************)
(* The ordered publication is what the two safety properties need.         *)
(***************************************************************************)
LEMMA OrderSuffices ==
  TypeOK /\ PublishOrder => LiveTargetsPublished /\ RunningScriptIsRecorded
<1> SUFFICES ASSUME TypeOK, PublishOrder, record # NoDeploy
             PROVE  LiveTargetsPublished /\ RunningScriptIsRecorded
  BY DEF LiveTargetsPublished, RunningScriptIsRecorded
<1>1. record \in Deploys /\ plan[record].sha \in Shas
  BY DEF TypeOK, Plan
<1>2. Uploaded(record) /\ Reached(record)
  BY DEF Uploaded, Reached
<1> QED
  BY <1>1, <1>2
     DEF PublishOrder, UploadedHasScript, ReachedHasManifest,
         ManifestIsCovered, LiveTargetsPublished, RunningScriptIsRecorded,
         SoleOfCommit

(***************************************************************************)
(* With no request there is nothing to order.                              *)
(***************************************************************************)
LEMMA InitOrder == Init => PublishOrder
<1> SUFFICES ASSUME Init
             PROVE  PublishOrder
  OBVIOUS
<1>1. \A d \in Deploys : ~ Uploaded(d)
  BY NamesAssumption DEF Init, Uploaded, Reached
<1>2. \A d \in Deploys : plan[d].sha \in Shas
  BY AnyPlanType DEF Init, Plan
<1> QED
  BY <1>1, <1>2
     DEF Init, PublishOrder, IdleIsBlank, SentIsThere, ManifestIsCovered,
         UploadedHasScript, ReachedHasManifest, Uploaded

(***************************************************************************)
(* What one step of request d can do to what has been published, and what  *)
(* it leaves alone of the other requests.                                  *)
(***************************************************************************)
Frame(d) ==
  /\ plan' = plan
  /\ pc[d] # "idle" /\ pc'[d] # "idle"
  /\ \A e \in Deploys \ {d} : /\ pc'[e] = pc[e]
                              /\ sent'[e] = sent[e]
                              /\ inFlight'[e] = inFlight[e]
                              /\ record' = e => record = e

Publishes(d) ==
  /\ \A n \in ScriptNames : scripts'[n] # scripts[n] =>
                                n = ScriptName(d) /\ scripts'[n] = d
  /\ \A s \in Shas : /\ assets[s] \subseteq assets'[s]
                     /\ manifests'[s] = {} => manifests[s] = {}
                     /\ manifests'[s] \subseteq assets'[s]
  /\ sent'[d] \subseteq assets'[plan[d].sha]

Advances(d) ==
  /\ Uploaded(d)' =>
       \/ Uploaded(d)
       \/ ~ plan[d].native
       \/ scripts'[ScriptName(d)] = d
  /\ Reached(d)' =>
       \/ Reached(d)
       \/ plan[d].files = {}
       \/ manifests'[plan[d].sha] # {}

Effect(d) == Frame(d) /\ Publishes(d) /\ Advances(d)

(***************************************************************************)
(* Every step of a request has that effect; the uploads are where it says  *)
(* something.                                                              *)
(***************************************************************************)
LEMMA StepEffect ==
  ASSUME TypeOK, PublishOrder, NEW d \in Deploys, Step(d)
  PROVE  Effect(d)
<1> USE DEF Goto
<1>0. /\ plan[d].sha \in Shas /\ ScriptName(d) \in ScriptNames
      /\ d # NoDeploy
  BY ScriptNameType, NamesAssumption DEF TypeOK, Plan
<1>a. ASSUME UNCHANGED <<plan, published, live, sent, inFlight>>,
             pc[d] # "idle",
             NEW l, Goto(d, l), l \notin {"idle", "assets", "domains", "store"}
      PROVE  Effect(d)
  BY <1>0, <1>a
     DEF Effect, Frame, Publishes, Advances, Uploaded, Reached, TypeOK,
         published, live, PublishOrder, ManifestIsCovered, SentIsThere
<1>1. CASE Reserve(d) \/ Refund(d) \/ Stored(d) \/ StageDone(d)
           \/ AttachRoutes(d) \/ Capture(d)
  <2>1. UNCHANGED <<plan, published, live, sent, inFlight>> /\ pc[d] # "idle"
    BY <1>1 DEF Reserve, Refund, Stored, StageDone, AttachRoutes, Capture
  <2>2. \/ Goto(d, "validate") \/ Goto(d, "rejected") \/ Goto(d, "failed")
        \/ Goto(d, "list") \/ Goto(d, "attach") \/ Goto(d, "capture")
        \/ Goto(d, "refund") \/ Goto(d, "succeeded")
    BY <1>1 DEF Reserve, Refund, Stored, StageDone, AttachRoutes, Capture
  <2> QED
    BY <2>1, <2>2, <1>a
<1>2. CASE Validate(d)
  <2>1. UNCHANGED <<plan, published, live, sent, inFlight>> /\ pc[d] # "idle"
    BY <1>2 DEF Validate
  <2>2. CASE plan[d].native \/ ~ Deployable(d)
    BY <1>2, <1>a, <2>1, <2>2 DEF Validate
  <2>3. CASE Deployable(d) /\ ~ plan[d].native
    BY <1>0, <1>2, <2>1, <2>3
       DEF Validate, Effect, Frame, Publishes, Advances, Uploaded, Reached, TypeOK, published, live,
           PublishOrder, ManifestIsCovered, SentIsThere
  <2> QED
    BY <2>2, <2>3
<1>3. CASE PublishWorker(d)
  <2>1. \A n \in ScriptNames : scripts'[n] # scripts[n] =>
                                n = ScriptName(d) /\ scripts'[n] = d
    BY <1>3 DEF PublishWorker, TypeOK
  <2>2. Uploaded(d)' => Uploaded(d) \/ scripts'[ScriptName(d)] = d
    BY <1>0, <1>3 DEF PublishWorker, Uploaded, Reached, TypeOK, live
  <2>3. Reached(d)' => Reached(d)
    BY <1>0, <1>3 DEF PublishWorker, Reached, TypeOK, live
  <2> QED
    BY <1>0, <1>3, <2>1, <2>2, <2>3
       DEF PublishWorker, Effect, Frame, Publishes, Advances, TypeOK, live, PublishOrder,
           ManifestIsCovered, SentIsThere
<1>4. ASSUME NEW f \in Files, PutAsset(d, f)
      PROVE  Effect(d)
  <2>1. \A s \in Shas : assets[s] \subseteq assets'[s]
    BY <1>4 DEF PutAsset, TypeOK
  <2>2. sent'[d] \subseteq assets'[plan[d].sha]
    BY <1>0, <1>4 DEF PutAsset, TypeOK, PublishOrder, SentIsThere
  <2>3. \A s \in Shas : manifests'[s] \subseteq assets'[s]
    BY <1>4, <2>1 DEF PutAsset, PublishOrder, ManifestIsCovered
  <2>4. (Uploaded(d)' => Uploaded(d)) /\ (Reached(d)' => Reached(d))
    BY <1>0, <1>4 DEF PutAsset, Uploaded, Reached, TypeOK, live
  <2>5. pc[d] # "idle" /\ pc'[d] # "idle"
    BY <1>4 DEF PutAsset, TypeOK
  <2> QED
    BY <1>4, <2>1, <2>2, <2>3, <2>4, <2>5 DEF PutAsset, Effect, Frame, Publishes, Advances, TypeOK, live
<1>5. CASE PutManifest(d)
  <2>1. plan[d].files \subseteq assets[plan[d].sha]
        \/ UNCHANGED manifests
    BY <1>5 DEF PutManifest, PublishOrder, SentIsThere
  <2>2. \A s \in Shas : /\ manifests'[s] \subseteq assets'[s]
                        /\ manifests'[s] = {} => manifests[s] = {}
    BY <1>0, <1>5, <2>1
       DEF PutManifest, TypeOK, PublishOrder, ManifestIsCovered
  <2>3. Uploaded(d)' => Uploaded(d)
    BY <1>0, <1>5 DEF PutManifest, Uploaded, Reached, TypeOK, live
  <2>4. Reached(d)' => \/ Reached(d)
                       \/ plan[d].files = {}
                       \/ manifests'[plan[d].sha] # {}
    BY <1>0, <1>5 DEF PutManifest, Reached, TypeOK, live
  <2> QED
    BY <1>0, <1>5, <2>2, <2>3, <2>4
       DEF PutManifest, Effect, Frame, Publishes, Advances, TypeOK, live, PublishOrder, SentIsThere
<1>6. ASSUME NEW granted \in SUBSET Routes, PlanDomains(d, granted)
      PROVE  Effect(d)
  <2>1. UNCHANGED <<plan, published, live, sent, inFlight>> /\ pc[d] # "idle"
    BY <1>6 DEF PlanDomains
  <2>2. pc[d] = "domains" /\ (Goto(d, "store") \/ Goto(d, "refund"))
    BY <1>6 DEF PlanDomains
  <2> QED
    BY <1>0, <2>1, <2>2
       DEF Effect, Frame, Publishes, Advances, Uploaded, Reached, TypeOK, published, live, PublishOrder,
           ManifestIsCovered, SentIsThere
<1>7. CASE Store(d)
  <2>1. pc[d] = "store" /\ Goto(d, "storing") /\ Reached(d) /\ Uploaded(d)
    BY <1>7 DEF Store, Reached, Uploaded
  <2> QED
    BY <1>0, <1>7, <2>1
       DEF Store, Effect, Frame, Publishes, Advances, TypeOK, published, live, PublishOrder,
           ManifestIsCovered, SentIsThere
<1>8. ASSUME NEW w \in inFlight[d], Land(d, w) \/ WriteFails(d, w)
      PROVE  Effect(d)
  <2>1. pc[d] # "idle" /\ pc'[d] # "idle"
    BY <1>8 DEF Land, WriteFails, TypeOK, PublishOrder, IdleIsBlank
  <2>2. record' = record \/ (record' = d /\ w.op = "record")
    BY <1>8 DEF Land, WriteFails, Apply, live
  <2>3. inFlight'[d] \subseteq inFlight[d]
    BY <1>8 DEF Land, WriteFails, TypeOK
  <2>4. pc'[d] = pc[d] \/ pc'[d] = "failed"
    BY <1>8 DEF Land, WriteFails, TypeOK
  <2>5. (Reached(d)' => Reached(d)) /\ (Uploaded(d)' => Uploaded(d))
    BY <2>2, <2>3, <2>4 DEF Reached, Uploaded
  <2>6. /\ UNCHANGED <<plan, published, sent>>
        /\ \A e \in Deploys \ {d} : pc'[e] = pc[e] /\ inFlight'[e] = inFlight[e]
    BY <1>8 DEF Land, WriteFails, TypeOK
  <2> QED
    BY <1>0, <2>1, <2>2, <2>5, <2>6
       DEF Effect, Frame, Publishes, Advances, TypeOK, published, PublishOrder, ManifestIsCovered,
           SentIsThere
<1>9. CASE ListStale(d) \/ PutWanted(d) \/ Dies(d)
  <2>1. pc[d] # "idle"
    BY <1>9 DEF ListStale, PutWanted, Dies, Active, PublishOrder, IdleIsBlank
  <2>2. \A w \in inFlight'[d] : w.op = "record" => w \in inFlight[d]
    <3>1. \A k, names : \A w \in Batch(k, names) : w.op = k
      BY DEF Batch
    <3>2. CASE ListStale(d)
      BY <3>1, <3>2 DEF ListStale, TypeOK
    <3>3. CASE PutWanted(d)
      BY <3>1, <3>3 DEF PutWanted, TypeOK
    <3>4. CASE Dies(d)
      BY <3>4 DEF Dies, TypeOK
    <3> QED
      BY <1>9, <3>2, <3>3, <3>4
  <2>3. pc'[d] \in {"deleting", "failed", "putting"}
    BY <1>9 DEF ListStale, PutWanted, Dies, TypeOK
  <2>4. /\ UNCHANGED <<plan, published, live, sent>>
        /\ \A e \in Deploys \ {d} : pc'[e] = pc[e] /\ inFlight'[e] = inFlight[e]
    BY <1>9 DEF ListStale, PutWanted, Dies, TypeOK
  <2>5. (Reached(d)' => Reached(d)) /\ (Uploaded(d)' => Uploaded(d))
    BY <2>2, <2>3, <2>4 DEF Reached, Uploaded, live
  <2> QED
    BY <1>0, <2>1, <2>3, <2>4, <2>5
       DEF Effect, Frame, Publishes, Advances, TypeOK, published, live, PublishOrder, ManifestIsCovered,
           SentIsThere
<1> QED
  BY <1>1, <1>2, <1>3, <1>4, <1>5, <1>6, <1>7, <1>8, <1>9 DEF Step

(***************************************************************************)
(* A step with that effect keeps the order of publication.                 *)
(***************************************************************************)
LEMMA EffectKeepsOrder ==
  ASSUME TypeOK, PublishOrder, NEW d \in Deploys, Effect(d)
  PROVE  PublishOrder'
<1>0. /\ \A e \in Deploys : plan[e].sha \in Shas /\ ScriptName(e) \in ScriptNames
      /\ \A e \in Deploys : ScriptName(e)' = ScriptName(e)
      /\ d # NoDeploy
  BY ScriptNameType, NamesAssumption
     DEF TypeOK, Plan, Effect, Frame, ScriptName
<1>a. Frame(d) /\ Publishes(d) /\ Advances(d)
  BY DEF Effect
<1>1. IdleIsBlank'
  BY <1>a DEF Frame, IdleIsBlank, PublishOrder
<1>2. SentIsThere'
  BY <1>0, <1>a DEF Frame, Publishes, SentIsThere, PublishOrder
<1>3. ManifestIsCovered'
  BY <1>a DEF Publishes, ManifestIsCovered
<1>4. \A e \in Deploys \ {d} : (Uploaded(e)' => Uploaded(e))
                             /\ (Reached(e)' => Reached(e))
  BY <1>a DEF Frame, Uploaded, Reached
<1>5. \A e \in Deploys : SoleOfCommit(e)' => SoleOfCommit(e)
  BY <1>a DEF Frame, SoleOfCommit
<1>6. UploadedHasScript'
  <2> SUFFICES ASSUME NEW e \in Deploys, Uploaded(e)'
               PROVE  /\ pc'[e] # "idle"
                      /\ plan[e].native => scripts'[ScriptName(e)] # NoDeploy
                      /\ plan[e].native /\ ~ plan[e].durable /\ SoleOfCommit(e)' =>
                           scripts'[ScriptName(e)] = e
    BY <1>0, <1>a DEF UploadedHasScript, Frame
  <2>1. CASE e = d
    BY <1>0, <1>5, <1>a, <2>1
       DEF Frame, Publishes, Advances, PublishOrder, UploadedHasScript
  <2>2. CASE e # d
    <3>1. Uploaded(e)
      BY <1>4, <2>2
    <3>2. /\ pc'[e] # "idle"
          /\ plan[e].native => scripts'[ScriptName(e)] # NoDeploy
      BY <1>0, <1>a, <2>2, <3>1
         DEF Frame, Publishes, PublishOrder, UploadedHasScript
    <3>3. ASSUME ~ plan[e].durable, SoleOfCommit(e)'
          PROVE  scripts'[ScriptName(e)] = scripts[ScriptName(e)]
      <4>1. plan[d].sha # plan[e].sha
        BY <1>a, <2>2, <3>3 DEF SoleOfCommit, Frame
      <4>2. ScriptName(d) # ScriptName(e)
        BY <1>0, <3>3, <4>1, NamesAssumption DEF ScriptName
      <4> QED
        BY <1>0, <1>a, <4>2 DEF Publishes
    <3> QED
      BY <1>5, <3>1, <3>2, <3>3 DEF PublishOrder, UploadedHasScript
  <2> QED
    BY <2>1, <2>2
<1>7. ReachedHasManifest'
  <2> SUFFICES ASSUME NEW e \in Deploys, Reached(e)', plan[e].files # {}
               PROVE  manifests'[plan[e].sha] # {}
    BY <1>a DEF ReachedHasManifest, Frame
  <2>1. Reached(e) \/ manifests'[plan[e].sha] # {}
    BY <1>4, <1>a DEF Advances
  <2> QED
    BY <1>0, <1>a, <2>1 DEF Publishes, PublishOrder, ReachedHasManifest
<1> QED
  BY <1>1, <1>2, <1>3, <1>6, <1>7 DEF PublishOrder

(***************************************************************************)
(* A new request has published nothing, and only takes the claim of being  *)
(* the sole request of its commit away from others.                        *)
(***************************************************************************)
LEMMA BeginKeepsOrder ==
  ASSUME TypeOK, PublishOrder, NEW d \in Deploys, NEW p \in Plans, Begin(d, p)
  PROVE  PublishOrder'
<1>0. /\ pc[d] = "idle" /\ sent[d] = {} /\ inFlight[d] = {} /\ ~ Uploaded(d)
      /\ UNCHANGED <<sent, inFlight, published, live>>
      /\ pc' = [pc EXCEPT ![d] = "reserve"] /\ plan' = [plan EXCEPT ![d] = p]
  BY DEF Begin, Goto, PublishOrder, IdleIsBlank, UploadedHasScript
<1>1. ~ Uploaded(d)'
  BY <1>0 DEF Uploaded, Reached, TypeOK, live
<1>2. \A e \in Deploys \ {d} : /\ plan'[e] = plan[e] /\ pc'[e] = pc[e]
                              /\ ScriptName(e)' = ScriptName(e)
                              /\ (Uploaded(e)' => Uploaded(e))
                              /\ (Reached(e)' => Reached(e))
                              /\ (SoleOfCommit(e)' => SoleOfCommit(e))
  <2>1. \A e \in Deploys \ {d} : plan'[e] = plan[e] /\ pc'[e] = pc[e]
    BY <1>0 DEF TypeOK
  <2>2. \A e \in Deploys \ {d} : /\ ScriptName(e)' = ScriptName(e)
                                /\ (Uploaded(e)' => Uploaded(e))
                                /\ (Reached(e)' => Reached(e))
    BY <1>0, <2>1 DEF ScriptName, Uploaded, Reached, live
  <2>3. \A e \in Deploys \ {d} : SoleOfCommit(e)' => SoleOfCommit(e)
    BY <1>0, <2>1 DEF SoleOfCommit
  <2> QED
    BY <2>1, <2>2, <2>3
<1>3. IdleIsBlank' /\ ManifestIsCovered'
  BY <1>0 DEF IdleIsBlank, ManifestIsCovered, PublishOrder, published, TypeOK
<1>4. SentIsThere'
  BY <1>0, <1>2 DEF SentIsThere, PublishOrder, published
<1>5. UploadedHasScript'
  BY <1>0, <1>1, <1>2 DEF UploadedHasScript, PublishOrder, published
<1>6. ReachedHasManifest'
  BY <1>0, <1>1, <1>2 DEF ReachedHasManifest, PublishOrder, published, Uploaded
<1> QED
  BY <1>3, <1>4, <1>5, <1>6 DEF PublishOrder

(***************************************************************************)
(* Every step keeps the order of publication.                              *)
(***************************************************************************)
LEMMA StepOrder == TypeOK /\ PublishOrder /\ [Next]_vars => PublishOrder'
<1>1. ASSUME UNCHANGED vars, PublishOrder
      PROVE  PublishOrder'
  BY <1>1
     DEF vars, published, live, PublishOrder, IdleIsBlank, SentIsThere,
         ManifestIsCovered, UploadedHasScript, ReachedHasManifest, Uploaded,
         Reached, SoleOfCommit, ScriptName
<1> QED
  BY <1>1, StepEffect, EffectKeepsOrder, BeginKeepsOrder DEF Next

(***************************************************************************)
(* What the stored deployment record points at has been published.         *)
(***************************************************************************)
THEOREM RecordIsPublished == Spec => []LiveTargetsPublished
  BY InitType, StepType, InitOrder, StepOrder, OrderSuffices, PTL DEF Spec

(***************************************************************************)
(* Requests for other commits leave the live commit's script alone.        *)
(***************************************************************************)
THEOREM ScriptIsRecorded == Spec => []RunningScriptIsRecorded
  BY InitType, StepType, InitOrder, StepOrder, OrderSuffices, PTL DEF Spec

-----------------------------------------------------------------------------
(***************************************************************************)
(* Charging.  A request is past the storing of its record only when it was *)
(* stored; credits are captured there and never given back.                *)
(***************************************************************************)
PastStoring == {"list", "deleting", "putting", "attach", "capture"}

StoredOf(d) ==
  /\ pc[d] = "idle" => d \notin stored
  /\ pc[d] = "storing" => \/ d \in stored
                          \/ \E w \in inFlight[d] : w.op = "record"
  /\ pc[d] \in PastStoring => d \in stored

ChargeInv == (\A d \in Deploys : StoredOf(d)) /\ ChargedIffDeployed

(***************************************************************************)
(* What has been stored or captured stays so.                              *)
(***************************************************************************)
LEMMA ChargesStay ==
  ASSUME TypeOK, NEW d \in Deploys, Step(d)
  PROVE  /\ stored \subseteq stored' /\ stored' \subseteq stored \cup {d}
         /\ \A s \in Shas : /\ reservation[s] = "captured"
                                 => reservation'[s] = "captured"
                            /\ reservation'[s] = "captured"
                                 => reservation[s] = "captured" \/ Capture(d)
         /\ pc'[d] = "succeeded" /\ pc[d] # "succeeded" => Capture(d)
<1>1. pc = [e \in Deploys |-> pc[e]]
      /\ reservation = [s \in Shas |-> reservation[s]]
      /\ plan[d].sha \in Shas
  BY DEF TypeOK, Plan
<1>2. CASE Reserve(d) \/ Refund(d)
  BY <1>1, <1>2 DEF Reserve, Refund, live, Goto
<1>3. CASE Capture(d)
  BY <1>1, <1>3 DEF Capture, live
<1>4. CASE \E w \in inFlight[d] : Land(d, w) \/ WriteFails(d, w)
  BY <1>1, <1>4 DEF Land, WriteFails, Apply, live, Goto
<1>5. CASE \/ Validate(d) \/ PublishWorker(d) \/ \E f \in Files : PutAsset(d, f)
           \/ PutManifest(d) \/ \E granted \in SUBSET Routes : PlanDomains(d, granted)
           \/ Store(d) \/ Stored(d)
  BY <1>1, <1>5 DEF Validate, PublishWorker, PutAsset, PutManifest, PlanDomains,
                    Store, Stored, live, Goto
<1>6. CASE \/ ListStale(d) \/ PutWanted(d) \/ StageDone(d) \/ AttachRoutes(d)
           \/ Dies(d)
  BY <1>1, <1>6 DEF ListStale, PutWanted, StageDone, AttachRoutes, Dies, live, Goto
<1> QED
  BY <1>2, <1>3, <1>4, <1>5, <1>6 DEF Step

\* A request's own step keeps that its record is stored beyond storing.
LEMMA StoredOfStep ==
  ASSUME TypeOK, PublishOrder, NEW d \in Deploys, StoredOf(d), Step(d)
  PROVE  StoredOf(d)'
<1>1. /\ pc = [e \in Deploys |-> pc[e]] /\ inFlight = [e \in Deploys |-> inFlight[e]]
      /\ pc'[d] # "idle" /\ stored \subseteq stored'
  BY StepEffect, ChargesStay DEF TypeOK, Effect, Frame
<1>2. CASE \/ Reserve(d) \/ Validate(d) \/ PublishWorker(d)
           \/ \E f \in Files : PutAsset(d, f)
           \/ PutManifest(d) \/ \E granted \in SUBSET Routes : PlanDomains(d, granted)
           \/ Refund(d) \/ Capture(d) \/ Dies(d)
  <2>1. \/ pc'[d] \notin {"storing"} \cup PastStoring
        \/ pc'[d] = pc[d] /\ pc[d] = "assets"
    BY <1>1, <1>2 DEF Reserve, Validate, PublishWorker, PutAsset, PutManifest,
         PlanDomains, Refund, Capture, Dies, Goto, PastStoring
  <2> QED
    BY <1>1, <2>1 DEF StoredOf, PastStoring
<1>3. CASE Store(d)
  <2>1. [op |-> "record", name |-> NoName] \in inFlight'[d]
    BY <1>1, <1>3 DEF Store, Batch
  <2>2. pc'[d] = "storing"
    BY <1>1, <1>3 DEF Store, Goto
  <2> QED
    BY <1>1, <2>1, <2>2 DEF StoredOf, PastStoring
<1>4. ASSUME NEW w \in inFlight[d], Land(d, w)
      PROVE  StoredOf(d)'
  <2>1. pc' = pc /\ inFlight'[d] = inFlight[d] \ {w}
    BY <1>1, <1>4 DEF Land
  <2>2. w.op = "record" => d \in stored'
    BY <1>4 DEF Land, Apply
  <2> QED
    BY <1>1, <2>1, <2>2 DEF StoredOf
<1>5. CASE \E w \in inFlight[d] : WriteFails(d, w)
  <2>1. pc'[d] = "failed"
    BY <1>1, <1>5 DEF WriteFails, Goto
  <2> QED
    BY <2>1 DEF StoredOf, PastStoring
<1>6. CASE Stored(d)
  BY <1>1, <1>6 DEF Stored, StoredOf, Goto
<1>7. CASE ListStale(d) \/ PutWanted(d) \/ StageDone(d) \/ AttachRoutes(d)
  <2>1. pc[d] \in PastStoring /\ pc'[d] # "storing"
    BY <1>1, <1>7 DEF ListStale, PutWanted, StageDone, AttachRoutes, Goto, PastStoring
  <2> QED
    BY <1>1, <2>1 DEF StoredOf
<1> QED
  BY <1>2, <1>3, <1>4, <1>5, <1>6, <1>7 DEF Step

\* Every step keeps captures within what was stored.
LEMMA ChargeStep ==
  ASSUME TypeOK, PublishOrder, ChargeInv, [Next]_vars
  PROVE  ChargeInv'
<1>1. ASSUME UNCHANGED vars
      PROVE  ChargeInv'
  BY <1>1 DEF vars, live, ChargeInv, StoredOf, ChargedIffDeployed
<1>2. ASSUME NEW d \in Deploys, NEW p \in Plans, Begin(d, p)
      PROVE  ChargeInv'
  <2>1. /\ pc[d] = "idle" /\ UNCHANGED <<inFlight, stored, reservation>>
        /\ pc'[d] = "reserve"
        /\ \A e \in Deploys \ {d} : pc'[e] = pc[e] /\ plan'[e] = plan[e]
    BY <1>2 DEF Begin, Goto, TypeOK, live
  <2>2. d \notin stored
    BY <2>1 DEF ChargeInv, StoredOf
  <2>3. ChargedIffDeployed'
    BY <2>1, <2>2 DEF ChargeInv, ChargedIffDeployed, TypeOK
  <2> QED
    BY <2>1, <2>3 DEF ChargeInv, StoredOf, PastStoring
<1>3. ASSUME NEW d \in Deploys, Step(d)
      PROVE  ChargeInv'
  <2>1. Frame(d) /\ StoredOf(d)'
    BY <1>3, StepEffect, StoredOfStep DEF Effect, ChargeInv
  <2>2. /\ stored \subseteq stored' /\ stored' \subseteq stored \cup {d}
        /\ \A s \in Shas : /\ reservation[s] = "captured"
                                => reservation'[s] = "captured"
                           /\ reservation'[s] = "captured"
                                => reservation[s] = "captured" \/ Capture(d)
        /\ pc'[d] = "succeeded" /\ pc[d] # "succeeded" => Capture(d)
    BY <1>3, ChargesStay
  <2>3. \A e \in Deploys \ {d} : StoredOf(e)'
    BY <2>1, <2>2 DEF Frame, ChargeInv, StoredOf
  <2>4. /\ \A e \in Deploys : plan[e].sha \in Shas
        /\ reservation = [s \in Shas |-> reservation[s]]
        /\ pc = [e \in Deploys |-> pc[e]]
    BY DEF TypeOK, Plan
  <2>5. Capture(d) =>
          /\ d \in stored
          /\ pc'[d] = "succeeded" => reservation'[plan[d].sha] = "captured"
          /\ \A s \in Shas : s # plan[d].sha => reservation'[s] = reservation[s]
    BY <2>4 DEF Capture, Goto, ChargeInv, StoredOf, PastStoring
  <2>6. \A s \in Shas : reservation'[s] = "captured" =>
          \E e \in stored' : plan[e].sha = s
    BY <2>2, <2>5 DEF ChargeInv, ChargedIffDeployed
  <2>7. \A e \in Deploys : pc'[e] = "succeeded" =>
          reservation'[plan[e].sha] = "captured"
    BY <2>1, <2>2, <2>4, <2>5 DEF Frame, ChargeInv, ChargedIffDeployed
  <2>8. ChargedIffDeployed'
    BY <2>1, <2>6, <2>7 DEF ChargedIffDeployed, Frame
  <2> QED
    BY <2>1, <2>3, <2>8 DEF ChargeInv
<1> QED
  BY <1>1, <1>2, <1>3 DEF Next

(***************************************************************************)
(* A credit is captured only for a commit whose record was stored, and     *)
(* success is reported only for a captured one, for any number of requests *)
(* that share reservations.                                                *)
(***************************************************************************)
THEOREM ChargesAreDeployed == Spec => []ChargedIffDeployed
<1>1. Init => ChargeInv
  BY DEF Init, ChargeInv, StoredOf, PastStoring, ChargedIffDeployed
<1>2. ChargeInv => ChargedIffDeployed
  BY DEF ChargeInv
<1> QED
  BY <1>1, <1>2, InitType, StepType, InitOrder, StepOrder, ChargeStep, PTL DEF Spec

-----------------------------------------------------------------------------
(***************************************************************************)
(* A deploy that nothing overlaps.  What stage i is to leave of the        *)
(* mappings of its kind, and what all of them are to leave.                *)
(***************************************************************************)
Intended(d, i) == IF i = 1 THEN attached[d] ELSE plan[d].maps \cap StageNames[i]

AllIntended(d) == attached[d] \cup Wants(d, Queues \cup Schedules)

(***************************************************************************)
(* A request's own: nothing is in flight between its batches, and it goes  *)
(* through the stages once.                                                *)
(***************************************************************************)
Early == {"idle", "reserve", "validate", "publish", "assets", "domains", "store"}

OwnOrder(d) ==
  /\ plan[d] \in Plans
  /\ attached[d] \subseteq Wants(d, Routes)
  /\ pc[d] = "idle" => attached[d] = {}
  /\ pc[d] \in Early \cup {"list", "attach", "capture", "succeeded"} => inFlight[d] = {}
  /\ pc[d] \in Early \cup {"storing"} => stage[d] = 1

(***************************************************************************)
(* How far the request has come to leave what was asked of it: its script  *)
(* is uploaded; its entries are stored or being stored; the stages that    *)
(* are done have left what is intended, and the one that it is in still    *)
(* deletes or puts what is missing.                                        *)
(***************************************************************************)
Flies(d, kind, n) == \E w \in inFlight[d] : w.op = kind /\ w.name = n

ScriptIsUp(d) ==
  /\ pc[d] \in {"assets", "domains", "store", "storing", "list", "deleting", "putting",
                "attach", "capture", "succeeded"}
  /\ plan[d].native
  => scripts[ScriptName(d)] = d

EntriesAreStored(d) ==
  pc[d] \in {"storing", "list", "deleting", "putting", "attach", "capture", "succeeded"} =>
    /\ record = d \/ Flies(d, "record", NoName)
    /\ plan[d].native =>
         /\ scriptMap[ScriptName(d)] = d \/ Flies(d, "script", NoName)
         /\ d \in tokens \/ Flies(d, "tokens", NoName)

Done(d, i) ==
  \/ pc[d] \in {"list", "deleting", "putting"} /\ i < stage[d]
  \/ pc[d] \in {"attach", "capture", "succeeded"}

DoneIsKept(d) ==
  \A i \in 1..3 : Done(d, i) =>
    /\ mappings \cap StageNames[i] \cap Replaced(d) \subseteq AllIntended(d)
    /\ Intended(d, i) \subseteq mappings

FlightIsMeant(d) ==
  LET i == stage[d] IN
  \A w \in inFlight[d] :
    /\ pc[d] = "storing" => w.op \in {"record", "script", "tokens"}
    /\ pc[d] = "deleting" =>
         w.op = "delete" /\ w.name \in StageNames[i] /\ w.name \notin Intended(d, i)
    /\ pc[d] = "putting" => w.op = "put" /\ w.name \in Intended(d, i)

StageIsKept(d) ==
  LET i == stage[d] IN
  /\ pc[d] \in {"deleting", "putting"} =>
       \A m \in mappings : m \in StageNames[i] /\ m \in Replaced(d) =>
         \/ m \in AllIntended(d)
         \/ pc[d] = "deleting" /\ Flies(d, "delete", m)
  /\ pc[d] = "putting" =>
       \A m \in Intended(d, i) : m \in mappings \/ Flies(d, "put", m)

AsAsked(d) ==
  ScriptIsUp(d) /\ EntriesAreStored(d) /\ DoneIsKept(d) /\ FlightIsMeant(d) /\ StageIsKept(d)

OthersAreQuiet(d) == \A e \in Deploys \ {d} : ~ Active(e)

SettledInv ==
  \A d \in Deploys :
    /\ OwnOrder(d)
    /\ alone[d] /\ pc[d] # "idle" => OthersAreQuiet(d) /\ AsAsked(d)

(***************************************************************************)
(* The stages replace what the plan declares and was granted, and nothing  *)
(* that a later stage lists is deleted when an earlier one left it.        *)
(***************************************************************************)
LEMMA AboutStages ==
  ASSUME TypeOK, NEW d \in Deploys, OwnOrder(d)
  PROVE  /\ stage[d] \in 1..3 /\ Wanted(d) = Intended(d, stage[d])
         /\ \A i \in 1..3 : /\ Intended(d, i) \subseteq AllIntended(d)
                            /\ Intended(d, i) \subseteq StageNames[i]
                            /\ StageNames[i] \subseteq Mappings
         /\ AllIntended(d) \subseteq Replaced(d)
         /\ \A i \in 1..3, j \in 2..3 :
              Intended(d, i) \cap StageNames[j] \subseteq Intended(d, j)
         /\ \A m \in Mappings : \E i \in 1..3 : m \in StageNames[i]
<1>1. /\ StageNames[1] = Routes /\ StageNames[2] = Queues /\ StageNames[3] = Schedules
      /\ \A i \in 1..3 : i = 1 \/ i = 2 \/ i = 3
  BY DEF StageNames
<1>2. stage[d] \in 1..3 /\ attached[d] \subseteq plan[d].maps \cap Routes
  BY DEF TypeOK, OwnOrder, Wants
<1>3. plan[d].maps \cap Routes \subseteq plan[d].pruned
  BY BranchAssumption DEF OwnOrder
<1>4. /\ Intended(d, 1) = attached[d]
      /\ Intended(d, 2) = plan[d].maps \cap Queues
      /\ Intended(d, 3) = plan[d].maps \cap Schedules
      /\ AllIntended(d) = attached[d] \cup (plan[d].maps \cap (Queues \cup Schedules))
  BY <1>1 DEF Intended, AllIntended, Wants
<1>5. Wanted(d) = Intended(d, stage[d])
  BY <1>1, <1>2, <1>4 DEF Wanted, Wants
<1>6. \A i \in 1..3 : /\ Intended(d, i) \subseteq AllIntended(d)
                      /\ Intended(d, i) \subseteq StageNames[i]
                      /\ StageNames[i] \subseteq Mappings
  BY <1>1, <1>2, <1>4 DEF Mappings
<1>7. AllIntended(d) \subseteq Replaced(d)
  BY <1>2, <1>3, <1>4 DEF Replaced
<1>8. \A i \in 1..3, j \in 2..3 :
        Intended(d, i) \cap StageNames[j] \subseteq Intended(d, j)
  BY <1>1, <1>2, <1>4
<1>9. \A m \in Mappings : \E i \in 1..3 : m \in StageNames[i]
  BY <1>1 DEF Mappings
<1> QED
  BY <1>2, <1>5, <1>6, <1>7, <1>8, <1>9

(***************************************************************************)
(* A request that takes a step is active, and the step is its own.         *)
(***************************************************************************)
LEMMA StepIsActive ==
  ASSUME NEW d \in Deploys, Step(d)
  PROVE  Active(d)
  BY DEF Step, Active, Final, Reserve, Validate, PublishWorker, PutAsset, PutManifest,
     PlanDomains, Refund, Store, Land, WriteFails, Stored, ListStale, PutWanted, StageDone,
     AttachRoutes, Capture, Dies

OthersKeep(d) ==
  /\ UNCHANGED <<plan, alone>>
  /\ \A e \in Deploys \ {d} : /\ pc'[e] = pc[e] /\ inFlight'[e] = inFlight[e]
                              /\ attached'[e] = attached[e] /\ stage'[e] = stage[e]

\* What is another request's stays as it is.
LEMMA StepIsOwn ==
  ASSUME TypeOK, NEW d \in Deploys, Step(d)
  PROVE  OthersKeep(d)
<1> USE DEF OthersKeep, TypeOK, Goto, live, published
<1>1. CASE Reserve(d) \/ Validate(d) \/ PublishWorker(d) \/ PutManifest(d) \/ Refund(d)
  BY <1>1 DEF Reserve, Validate, PublishWorker, PutManifest, Refund
<1>2. CASE \E f \in Files : PutAsset(d, f)
  BY <1>2 DEF PutAsset
<1>3. CASE \E granted \in SUBSET Routes : PlanDomains(d, granted)
  BY <1>3 DEF PlanDomains
<1>4. CASE \E w \in inFlight[d] : Land(d, w) \/ WriteFails(d, w)
  BY <1>4 DEF Land, WriteFails
<1>5. CASE Store(d) \/ ListStale(d) \/ PutWanted(d)
  BY <1>5 DEF Store, ListStale, PutWanted
<1>6. CASE Stored(d) \/ StageDone(d) \/ AttachRoutes(d) \/ Capture(d)
  BY <1>6 DEF Stored, StageDone, AttachRoutes, Capture
<1>7. CASE Dies(d)
  BY <1>7 DEF Dies
<1> QED
  BY <1>1, <1>2, <1>3, <1>4, <1>5, <1>6, <1>7 DEF Step

(***************************************************************************)
(* What the steps of a request make of its own part of the state.          *)
(***************************************************************************)
Keeps(d) ==
  UNCHANGED <<stage[d], inFlight[d], scripts, record, scriptMap, tokens, mappings>>

Settles(d) == pc'[d] \in {"reserve", "validate", "publish", "refund", "failed", "rejected"}

Uploads(d) ==
  /\ Keeps(d)
  /\ \/ pc[d] = "validate" /\ pc'[d] = "assets" /\ ~ plan[d].native
     \/ pc[d] = "assets" /\ pc'[d] \in {"assets", "domains"}
  /\ attached'[d] = attached[d]

Starts(d) ==
  /\ UNCHANGED <<stage[d], attached[d], record, tokens, mappings, scripts, scriptMap>>
  /\ \/ /\ pc[d] = "store" /\ pc'[d] = "storing"
        /\ inFlight'[d] = Batch("record", {NoName}) \cup
             IF plan[d].native
             THEN Batch("script", {NoName}) \cup Batch("tokens", {NoName})
             ELSE {}
     \/ /\ pc[d] = "list" /\ pc'[d] = "deleting"
        /\ inFlight'[d] = Batch("delete",
             (mappings \cap StageNames[stage[d]] \cap Replaced(d)) \ Wanted(d))
     \/ /\ pc[d] = "deleting" /\ pc'[d] = "putting" /\ inFlight[d] = {}
        /\ inFlight'[d] = Batch("put", Wanted(d))

Lands(d, w) ==
  /\ w \in inFlight[d] /\ Apply(d, w) /\ pc'[d] = pc[d]
  /\ inFlight'[d] = inFlight[d] \ {w}
  /\ UNCHANGED <<stage[d], attached[d], scripts>>

Moves(d) ==
  /\ UNCHANGED <<attached[d], inFlight[d], scripts, live>>
  /\ \/ pc[d] = "storing" /\ inFlight[d] = {} /\ pc'[d] = "list" /\ stage'[d] = stage[d]
     \/ /\ pc[d] = "putting" /\ inFlight[d] = {}
        /\ \/ stage[d] < 3 /\ pc'[d] = "list" /\ stage'[d] = stage[d] + 1
           \/ stage[d] = 3 /\ pc'[d] = "attach" /\ stage'[d] = stage[d]
     \/ pc[d] = "attach" /\ pc'[d] = "capture" /\ stage'[d] = stage[d]
     \/ pc[d] = "capture" /\ pc'[d] = "succeeded" /\ stage'[d] = stage[d]

OwnEffect(d) ==
  \/ Settles(d)
  \/ pc[d] = "publish" /\ pc'[d] = "assets" /\ scripts'[ScriptName(d)] = d
  \/ Uploads(d)
  \/ pc[d] = "domains" /\ pc'[d] = "store" /\ Keeps(d)
  \/ Starts(d)
  \/ \E w \in inFlight[d] : Lands(d, w)
  \/ Moves(d)

\* Every action of a request has one of these effects.
LEMMA StepHasOwnEffect ==
  ASSUME TypeOK, NEW d \in Deploys, Step(d)
  PROVE  OwnEffect(d)
<1>0. \A l : Goto(d, l) => pc'[d] = l
  BY DEF TypeOK, Goto
<1>a. stage[d] \in 1..3
  BY DEF TypeOK
<1> DEFINE Goal == OwnEffect(d)
<1>1. ASSUME Reserve(d) \/ Refund(d) \/ Dies(d) PROVE Goal
  BY <1>0, <1>1 DEF Reserve, Refund, Dies, OwnEffect, Settles
<1>2. ASSUME Validate(d) PROVE Goal
  BY <1>0, <1>2 DEF Validate, OwnEffect, Settles, Uploads, Keeps, published, live
<1>3. ASSUME PublishWorker(d) PROVE Goal
  BY <1>0, <1>3, ScriptNameType DEF PublishWorker, OwnEffect, Settles, TypeOK
<1>4. ASSUME NEW f \in Files, PutAsset(d, f) PROVE Goal
  BY <1>0, <1>4 DEF PutAsset, OwnEffect, Settles, Uploads, Keeps, live
<1>5. ASSUME PutManifest(d) PROVE Goal
  BY <1>0, <1>5 DEF PutManifest, OwnEffect, Settles, Uploads, Keeps, live
<1>6. ASSUME NEW granted \in SUBSET Routes, PlanDomains(d, granted) PROVE Goal
  BY <1>0, <1>6 DEF PlanDomains, OwnEffect, Settles, Keeps, live, published
<1>7. ASSUME Store(d) \/ ListStale(d) \/ PutWanted(d) PROVE Goal
  <2> HIDE DEF Goal
  <2>1. Settles(d) \/ Starts(d)
    BY <1>0, <1>7 DEF Store, ListStale, PutWanted, Settles, Starts, live, published, TypeOK
  <2> QED
    BY <2>1 DEF Goal, OwnEffect
<1>8. ASSUME NEW w \in inFlight[d], Land(d, w) \/ WriteFails(d, w) PROVE Goal
  <2> HIDE DEF Goal
  <2>1. Settles(d) \/ Lands(d, w)
    BY <1>0, <1>8 DEF Land, WriteFails, Settles, Lands, published, TypeOK
  <2> QED
    BY <2>1 DEF Goal, OwnEffect
<1>9. ASSUME Stored(d) \/ StageDone(d) \/ AttachRoutes(d) \/ Capture(d) PROVE Goal
  <2> HIDE DEF Goal
  <2>1. Settles(d) \/ Moves(d)
    BY <1>0, <1>9, <1>a DEF Stored, StageDone, AttachRoutes, Capture, Settles, Moves, live,
       published, TypeOK
  <2> QED
    BY <2>1 DEF Goal, OwnEffect
<1> HIDE DEF Goal
<1>10. Goal
  BY <1>1, <1>2, <1>3, <1>4, <1>5, <1>6, <1>7, <1>8, <1>9, Zenon DEF Step
<1> QED
  BY <1>10 DEF Goal

(***************************************************************************)
(* A step of a request keeps its own order.                                *)
(***************************************************************************)
LEMMA StepOwnOrder ==
  ASSUME TypeOK, NEW d \in Deploys, Step(d), OwnOrder(d)
  PROVE  OwnOrder(d)'
<1>0. \A l : Goto(d, l) => pc'[d] = l
  BY DEF TypeOK, Goto
<1>b. plan' = plan
  BY StepIsOwn DEF OthersKeep
<1> USE DEF Early
<1>1. CASE \/ Reserve(d) \/ Validate(d) \/ PublishWorker(d) \/ PutManifest(d) \/ Refund(d)
  <2>1. /\ UNCHANGED <<attached, stage, inFlight>>
        /\ pc[d] \in {"reserve", "validate", "publish", "assets"} \/ pc'[d] = "failed"
        /\ pc'[d] \in {"validate", "rejected", "publish", "assets", "refund", "domains",
                       "failed"}
    BY <1>0, <1>1 DEF Reserve, Validate, PublishWorker, PutManifest, Refund
  <2> QED
    BY <1>b, <2>1 DEF OwnOrder, Wants
<1>2. ASSUME NEW f \in Files, PutAsset(d, f) PROVE OwnOrder(d)'
  <2>1. /\ UNCHANGED <<attached, stage, inFlight>>
        /\ pc[d] = "assets" /\ pc'[d] \in {"assets", "refund"}
    BY <1>0, <1>2 DEF PutAsset
  <2> QED
    BY <1>b, <2>1 DEF OwnOrder, Wants
<1>3. ASSUME NEW granted \in SUBSET Routes, PlanDomains(d, granted) PROVE OwnOrder(d)'
  <2>1. /\ UNCHANGED <<stage, inFlight>>
        /\ attached'[d] \subseteq Wants(d, Routes)
        /\ pc[d] = "domains" /\ pc'[d] \in {"store", "refund"}
    BY <1>0, <1>3 DEF PlanDomains, TypeOK, OwnOrder
  <2> QED
    BY <1>b, <2>1 DEF OwnOrder, Wants
<1>4. ASSUME NEW w \in inFlight[d], Land(d, w) \/ WriteFails(d, w) PROVE OwnOrder(d)'
  <2>1. /\ UNCHANGED <<attached, stage>>
        /\ pc'[d] = pc[d] \/ pc'[d] = "failed"
        /\ inFlight[d] # {}
    BY <1>0, <1>4 DEF Land, WriteFails
  <2> QED
    BY <1>b, <2>1 DEF OwnOrder, Wants
<1>5. CASE Store(d) \/ ListStale(d) \/ PutWanted(d)
  <2>1. /\ UNCHANGED <<attached, stage>>
        /\ \/ pc[d] = "store" /\ pc'[d] = "storing"
           \/ pc'[d] \in {"deleting", "putting", "failed"}
    BY <1>0, <1>5 DEF Store, ListStale, PutWanted
  <2> QED
    BY <1>b, <2>1 DEF OwnOrder, Wants
<1>6. CASE Stored(d) \/ StageDone(d) \/ AttachRoutes(d) \/ Capture(d)
  <2>1. /\ UNCHANGED <<attached, inFlight>>
        /\ \/ inFlight[d] = {} /\ pc'[d] \in {"list", "attach"}
           \/ /\ pc[d] \in {"attach", "capture"}
              /\ pc'[d] \in {"capture", "refund", "succeeded", "failed"}
    BY <1>0, <1>6 DEF Stored, StageDone, AttachRoutes, Capture
  <2> QED
    BY <1>b, <2>1 DEF OwnOrder, Wants
<1>7. CASE Dies(d)
  <2>1. UNCHANGED <<attached, stage>> /\ pc'[d] = "failed"
    BY <1>0, <1>7 DEF Dies
  <2> QED
    BY <1>b, <2>1 DEF OwnOrder, Wants
<1> QED
  BY <1>1, <1>2, <1>3, <1>4, <1>5, <1>6, <1>7 DEF Step

\* What a batch that starts sends.
LEMMA BatchHas ==
  \A kind, names : /\ \A w \in Batch(kind, names) : w.op = kind /\ w.name \in names
                   /\ \A n \in names : \E w \in Batch(kind, names) : w.op = kind /\ w.name = n
<1> SUFFICES ASSUME NEW kind, NEW names
             PROVE  /\ \A w \in Batch(kind, names) : w.op = kind /\ w.name \in names
                    /\ \A n \in names : \E w \in Batch(kind, names) : w.op = kind /\ w.name = n
  OBVIOUS
<1>1. ASSUME NEW n \in names
      PROVE  [op |-> kind, name |-> n] \in Batch(kind, names)
  BY DEF Batch
<1> QED
  BY <1>1 DEF Batch

(***************************************************************************)
(* A batch that starts is of what is missing.                              *)
(***************************************************************************)
LEMMA StartsAsAsked ==
  ASSUME TypeOK, NEW d \in Deploys, OwnOrder(d), AsAsked(d), plan' = plan, Starts(d)
  PROVE  AsAsked(d)'
<1>0. ScriptName(d)' = ScriptName(d) /\ Replaced(d)' = Replaced(d)
  BY DEF ScriptName, Replaced
<1>1. /\ UNCHANGED <<stage[d], attached[d], record, tokens, mappings, scripts, scriptMap>>
      /\ Wanted(d) = Intended(d, stage[d]) /\ stage[d] \in 1..3
      /\ \A i : Intended(d, i)' = Intended(d, i)
      /\ AllIntended(d)' = AllIntended(d)
  <2>1. UNCHANGED <<stage[d], attached[d], record, tokens, mappings, scripts, scriptMap>>
    BY DEF Starts
  <2>2. Wanted(d) = Intended(d, stage[d]) /\ stage[d] \in 1..3
    BY AboutStages
  <2> QED
    BY <2>1, <2>2 DEF Intended, AllIntended, Wants
<1>2. Intended(d, stage[d]) \subseteq AllIntended(d)
  BY <1>1, AboutStages
<1>3. ScriptIsUp(d)'
  BY <1>0, <1>1 DEF Starts, AsAsked, ScriptIsUp
<1>4. CASE pc[d] = "store"
  <2>1. /\ pc'[d] = "storing"
        /\ inFlight'[d] = Batch("record", {NoName}) \cup
             IF plan[d].native
             THEN Batch("script", {NoName}) \cup Batch("tokens", {NoName})
             ELSE {}
    BY <1>4 DEF Starts
  <2>2. /\ Flies(d, "record", NoName)'
        /\ plan[d].native => Flies(d, "script", NoName)' /\ Flies(d, "tokens", NoName)'
    BY <2>1, BatchHas DEF Flies
  <2>3. \A w \in inFlight'[d] : w.op \in {"record", "script", "tokens"}
    BY <2>1, BatchHas
  <2>4. EntriesAreStored(d)'
    BY <2>1, <2>2 DEF EntriesAreStored
  <2> QED
    BY <1>3, <2>1, <2>3, <2>4
       DEF AsAsked, DoneIsKept, Done, FlightIsMeant, StageIsKept
<1>5. CASE pc[d] # "store"
  <2>1. \/ /\ pc[d] = "list" /\ pc'[d] = "deleting"
           /\ inFlight'[d] = Batch("delete",
                (mappings \cap StageNames[stage[d]] \cap Replaced(d)) \ Wanted(d))
        \/ /\ pc[d] = "deleting" /\ pc'[d] = "putting" /\ inFlight[d] = {}
           /\ inFlight'[d] = Batch("put", Wanted(d))
    BY <1>5 DEF Starts
  <2>2. inFlight[d] = {}
    BY <2>1 DEF OwnOrder
  <2>3. EntriesAreStored(d)'
    BY <1>0, <1>1, <2>1, <2>2 DEF AsAsked, EntriesAreStored, Flies
  <2>4. DoneIsKept(d)'
    BY <1>0, <1>1, <2>1 DEF AsAsked, DoneIsKept, Done
  <2>5. FlightIsMeant(d)' /\ StageIsKept(d)'
    <3>1. CASE pc[d] = "list"
      <4> DEFINE stale == (mappings \cap StageNames[stage[d]] \cap Replaced(d)) \ Wanted(d)
      <4>1. pc'[d] = "deleting" /\ inFlight'[d] = Batch("delete", stale)
        BY <2>1, <3>1
      <4>2. /\ \A w \in inFlight'[d] : w.op = "delete" /\ w.name \in stale
            /\ \A n \in stale : Flies(d, "delete", n)'
        BY <4>1, BatchHas DEF Flies
      <4>3. FlightIsMeant(d)'
        BY <1>1, <4>1, <4>2 DEF FlightIsMeant
      <4>4. StageIsKept(d)'
        BY <1>0, <1>1, <1>2, <4>1, <4>2 DEF StageIsKept
      <4> QED
        BY <4>3, <4>4
    <3>2. CASE pc[d] = "deleting"
      <4>1. /\ pc'[d] = "putting" /\ inFlight[d] = {}
            /\ inFlight'[d] = Batch("put", Intended(d, stage[d]))
        BY <1>1, <2>1, <3>2
      <4>2. /\ \A w \in inFlight'[d] : w.op = "put" /\ w.name \in Intended(d, stage[d])
            /\ \A n \in Intended(d, stage[d]) : Flies(d, "put", n)'
        BY <4>1, BatchHas DEF Flies
      <4>3. FlightIsMeant(d)'
        BY <1>1, <4>1, <4>2 DEF FlightIsMeant
      <4>4. \A m \in mappings : m \in StageNames[stage[d]] /\ m \in Replaced(d) =>
              m \in AllIntended(d)
        BY <3>2, <4>1 DEF AsAsked, StageIsKept, Flies
      <4>5. StageIsKept(d)'
        BY <1>0, <1>1, <4>1, <4>2, <4>4 DEF StageIsKept
      <4> QED
        BY <4>3, <4>5
    <3> QED
      BY <2>1, <3>1, <3>2
  <2> QED
    BY <1>3, <2>3, <2>4, <2>5 DEF AsAsked
<1> QED
  BY <1>4, <1>5

(***************************************************************************)
(* A write that lands does what it was sent for.                           *)
(***************************************************************************)
LEMMA LandsAsAsked ==
  ASSUME TypeOK, NEW d \in Deploys, OwnOrder(d), AsAsked(d), plan' = plan,
         NEW w \in inFlight[d], Lands(d, w)
  PROVE  AsAsked(d)'
<1> DEFINE i == stage[d]
<1>0. ScriptName(d)' = ScriptName(d) /\ Replaced(d)' = Replaced(d)
  BY DEF ScriptName, Replaced
<1>1. /\ pc'[d] = pc[d] /\ stage'[d] = stage[d] /\ attached'[d] = attached[d]
      /\ scripts' = scripts
      /\ inFlight'[d] = inFlight[d] \ {w}
      /\ Apply(d, w) /\ w \in Op
      /\ \A j : Intended(d, j)' = Intended(d, j)
      /\ AllIntended(d)' = AllIntended(d)
  BY DEF Lands, Intended, AllIntended, Wants, TypeOK
<1>2. /\ i \in 1..3
      /\ \A j \in 1..3 : Intended(d, j) \subseteq AllIntended(d)
      /\ \A k \in 1..3, j \in 2..3 :
           Intended(d, k) \cap StageNames[j] \subseteq Intended(d, j)
  BY AboutStages
<1>3. \A kind, n : Flies(d, kind, n) =>
        Flies(d, kind, n)' \/ (w.op = kind /\ w.name = n)
  BY <1>1 DEF Flies
<1>4. ScriptIsUp(d)'
  BY <1>0, <1>1 DEF AsAsked, ScriptIsUp
<1>5. EntriesAreStored(d)'
  <2>1. /\ record = d \/ w.op = "record" => record' = d
        /\ d \in tokens \/ w.op = "tokens" => d \in tokens'
        /\ scriptMap[ScriptName(d)] = d \/ w.op = "script" => scriptMap'[ScriptName(d)] = d
    BY <1>1, ScriptNameType DEF Apply, TypeOK
  <2> QED
    BY <1>0, <1>1, <1>3, <2>1 DEF AsAsked, EntriesAreStored
<1>6. /\ w.op = "put" => mappings' = mappings \cup {w.name}
      /\ w.op = "delete" => mappings' = mappings \ {w.name}
      /\ w.op \notin {"put", "delete"} => mappings' = mappings
  BY <1>1 DEF Apply
<1>7. /\ pc[d] = "storing" => w.op \in {"record", "script", "tokens"}
      /\ pc[d] = "deleting" =>
           w.op = "delete" /\ w.name \in StageNames[i] /\ w.name \notin Intended(d, i)
      /\ pc[d] = "putting" => w.op = "put" /\ w.name \in Intended(d, i)
      /\ pc[d] \notin Early \cup {"list", "attach", "capture", "succeeded"}
  BY DEF AsAsked, FlightIsMeant, OwnOrder
<1>8. DoneIsKept(d)'
  <2>1. ASSUME NEW j \in 1..3, Done(d, j)
        PROVE  /\ mappings' \cap StageNames[j] \cap Replaced(d) \subseteq AllIntended(d)
               /\ Intended(d, j) \subseteq mappings'
    <3>1. /\ mappings \cap StageNames[j] \cap Replaced(d) \subseteq AllIntended(d)
          /\ Intended(d, j) \subseteq mappings
      BY <2>1 DEF AsAsked, DoneIsKept
    <3>2. pc[d] \in {"deleting", "putting"} /\ j < i
      BY <1>7, <2>1 DEF Done
    <3>3. CASE pc[d] = "deleting"
      <4>1. i \in 2..3
        BY <1>2, <3>2
      <4>2. w.name \notin Intended(d, j)
        BY <1>2, <1>7, <3>3, <4>1
      <4>3. mappings' = mappings \ {w.name}
        BY <1>6, <1>7, <3>3
      <4> QED
        BY <3>1, <4>2, <4>3
    <3>4. CASE pc[d] = "putting"
      <4>1. mappings' = mappings \cup {w.name} /\ w.name \in AllIntended(d)
        BY <1>2, <1>6, <1>7, <3>4
      <4> QED
        BY <3>1, <4>1
    <3> QED
      BY <3>2, <3>3, <3>4
  <2>2. \A j : Done(d, j)' <=> Done(d, j)
    BY <1>1 DEF Done
  <2> QED
    BY <1>0, <1>1, <2>1, <2>2 DEF DoneIsKept
<1>9. FlightIsMeant(d)'
  BY <1>1 DEF AsAsked, FlightIsMeant
<1>10. StageIsKept(d)'
  <2>1. CASE pc[d] = "deleting"
    <3>1. mappings' = mappings \ {w.name}
      BY <1>6, <1>7, <2>1
    <3>2. ASSUME NEW m \in mappings', m \in StageNames[i], m \in Replaced(d)
          PROVE  m \in AllIntended(d) \/ Flies(d, "delete", m)'
      <4>1. m \in AllIntended(d) \/ Flies(d, "delete", m)
        BY <2>1, <3>1, <3>2 DEF AsAsked, StageIsKept
      <4> QED
        BY <1>3, <3>1, <4>1
    <3> QED
      BY <1>0, <1>1, <2>1, <3>2 DEF StageIsKept
  <2>2. CASE pc[d] = "putting"
    <3>1. mappings' = mappings \cup {w.name} /\ w.name \in AllIntended(d)
      BY <1>2, <1>6, <1>7, <2>2
    <3>2. \A m \in mappings' : m \in StageNames[i] /\ m \in Replaced(d) => m \in AllIntended(d)
      BY <2>2, <3>1 DEF AsAsked, StageIsKept
    <3>3. \A m \in Intended(d, i) : m \in mappings' \/ Flies(d, "put", m)'
      BY <1>3, <2>2, <3>1 DEF AsAsked, StageIsKept
    <3> QED
      BY <1>0, <1>1, <2>2, <3>2, <3>3 DEF StageIsKept
  <2>3. CASE pc[d] \notin {"deleting", "putting"}
    BY <1>1, <2>3 DEF StageIsKept
  <2> QED
    BY <2>1, <2>2, <2>3
<1> QED
  BY <1>4, <1>5, <1>8, <1>9, <1>10 DEF AsAsked

(***************************************************************************)
(* A request that moves on has landed its batch: the stage that it leaves  *)
(* is done.                                                                *)
(***************************************************************************)
LEMMA MovesAsAsked ==
  ASSUME TypeOK, NEW d \in Deploys, OwnOrder(d), AsAsked(d), plan' = plan, Moves(d)
  PROVE  AsAsked(d)'
<1>0. ScriptName(d)' = ScriptName(d) /\ Replaced(d)' = Replaced(d)
  BY DEF ScriptName, Replaced
<1>1. /\ UNCHANGED <<attached[d], inFlight[d], scripts, record, scriptMap, tokens, mappings>>
      /\ \A j : Intended(d, j)' = Intended(d, j)
      /\ AllIntended(d)' = AllIntended(d)
      /\ \A kind, n : Flies(d, kind, n)' <=> Flies(d, kind, n)
  BY DEF Moves, live, Intended, AllIntended, Wants, Flies
<1>2. /\ pc[d] \in {"storing", "putting", "attach", "capture"}
      /\ pc'[d] \in {"list", "attach", "capture", "succeeded"}
  BY DEF Moves
<1>3. ScriptIsUp(d)' /\ EntriesAreStored(d)'
  BY <1>0, <1>1, <1>2 DEF AsAsked, ScriptIsUp, EntriesAreStored
<1>4. FlightIsMeant(d)' /\ StageIsKept(d)'
  BY <1>2 DEF FlightIsMeant, StageIsKept
<1>5. stage[d] \in 1..3
  BY DEF TypeOK
<1>6. ASSUME NEW j \in 1..3, Done(d, j)'
      PROVE  Done(d, j) \/ (pc[d] = "putting" /\ inFlight[d] = {} /\ j = stage[d])
  <2>1. CASE pc[d] = "storing"
    BY <1>5, <1>6, <2>1 DEF Moves, Done, OwnOrder
  <2>2. CASE pc[d] = "putting" /\ stage[d] < 3
    BY <1>5, <1>6, <2>2 DEF Moves, Done
  <2>3. CASE pc[d] = "putting" /\ stage[d] = 3
    BY <1>5, <1>6, <2>3 DEF Moves, Done
  <2>4. CASE pc[d] \in {"attach", "capture"}
    BY <2>4 DEF Done
  <2> QED
    BY <1>2, <1>5, <2>1, <2>2, <2>3, <2>4
<1>7. ASSUME pc[d] = "putting", inFlight[d] = {}
      PROVE  /\ mappings \cap StageNames[stage[d]] \cap Replaced(d) \subseteq AllIntended(d)
             /\ Intended(d, stage[d]) \subseteq mappings
  BY <1>7 DEF AsAsked, StageIsKept, Flies
<1>8. DoneIsKept(d)'
  <2>1. ASSUME NEW j \in 1..3, Done(d, j)'
        PROVE  /\ mappings \cap StageNames[j] \cap Replaced(d) \subseteq AllIntended(d)
               /\ Intended(d, j) \subseteq mappings
    BY <1>6, <1>7, <2>1 DEF AsAsked, DoneIsKept
  <2> QED
    BY <1>0, <1>1, <2>1 DEF DoneIsKept
<1> QED
  BY <1>3, <1>4, <1>8 DEF AsAsked

(***************************************************************************)
(* Whatever its own step does, the request has done what was asked so far. *)
(***************************************************************************)
LEMMA StepAsAsked ==
  ASSUME TypeOK, NEW d \in Deploys, Step(d), OwnOrder(d), AsAsked(d)
  PROVE  AsAsked(d)'
<1>1. plan' = plan /\ ScriptName(d)' = ScriptName(d)
  BY StepIsOwn DEF OthersKeep, ScriptName
<1>2. ASSUME pc'[d] \in Early \cup {"refund", "failed", "rejected"}, ScriptIsUp(d)'
      PROVE  AsAsked(d)'
  BY <1>2 DEF AsAsked, EntriesAreStored, DoneIsKept, Done, FlightIsMeant, StageIsKept, Early
<1> DEFINE Goal == AsAsked(d)'
<1>3. ASSUME Settles(d) PROVE Goal
  BY <1>2, <1>3 DEF Settles, ScriptIsUp, Early
<1>4. ASSUME pc[d] = "publish", pc'[d] = "assets", scripts'[ScriptName(d)] = d PROVE Goal
  BY <1>1, <1>2, <1>4 DEF ScriptIsUp, Early
<1>5. ASSUME Uploads(d) PROVE Goal
  BY <1>1, <1>2, <1>5 DEF Uploads, Keeps, AsAsked, ScriptIsUp, Early
<1>6. ASSUME pc[d] = "domains", pc'[d] = "store", Keeps(d) PROVE Goal
  BY <1>1, <1>2, <1>6 DEF Keeps, AsAsked, ScriptIsUp, Early
<1>7. ASSUME Starts(d) PROVE Goal
  BY <1>1, <1>7, StartsAsAsked
<1>8. ASSUME NEW w \in inFlight[d], Lands(d, w) PROVE Goal
  BY <1>1, <1>8, LandsAsAsked
<1>9. ASSUME Moves(d) PROVE Goal
  BY <1>1, <1>9, MovesAsAsked
<1> HIDE DEF Goal
<1>10. OwnEffect(d)
  BY StepHasOwnEffect
<1>11. Goal
  BY <1>3, <1>4, <1>5, <1>6, <1>7, <1>8, <1>9, <1>10, Zenon DEF OwnEffect
<1> QED
  BY <1>11 DEF Goal

(***************************************************************************)
(* A request begins among quiet ones, or is not alone.                     *)
(***************************************************************************)
LEMMA BeginSettled ==
  ASSUME TypeOK, SettledInv, NEW d \in Deploys, NEW p \in Plans, Begin(d, p)
  PROVE  SettledInv'
<1>1. /\ pc[d] = "idle" /\ pc'[d] = "reserve" /\ plan'[d] = p
      /\ UNCHANGED <<attached, stage, inFlight>>
      /\ \A e \in Deploys \ {d} : pc'[e] = pc[e] /\ plan'[e] = plan[e]
      /\ \A e \in Deploys : alone'[e] => e = d /\ OthersAreQuiet(d)
  BY DEF Begin, Goto, TypeOK, OthersAreQuiet
<1>2. ASSUME NEW e \in Deploys \ {d}
      PROVE  OwnOrder(e)'
  BY <1>1 DEF SettledInv, OwnOrder, Wants
<1>3. OwnOrder(d)'
  <2>1. attached[d] = {} /\ inFlight[d] = {} /\ stage[d] = 1
    BY <1>1 DEF SettledInv, OwnOrder, Early
  <2> QED
    BY <1>1, <2>1 DEF OwnOrder
<1>4. OthersAreQuiet(d) => OthersAreQuiet(d)'
  BY <1>1 DEF OthersAreQuiet, Active
<1>5. AsAsked(d)'
  BY <1>1 DEF AsAsked, ScriptIsUp, EntriesAreStored, DoneIsKept, Done, FlightIsMeant,
     StageIsKept
<1>6. ASSUME NEW e \in Deploys, alone'[e]
      PROVE  OthersAreQuiet(e)' /\ AsAsked(e)'
  BY <1>1, <1>4, <1>5, <1>6
<1> QED
  BY <1>2, <1>3, <1>6 DEF SettledInv

(***************************************************************************)
(* While a request is alone only it takes steps.                           *)
(***************************************************************************)
LEMMA StepSettled ==
  ASSUME TypeOK, SettledInv, NEW d \in Deploys, Step(d)
  PROVE  SettledInv'
<1>1. OthersKeep(d) /\ Active(d)
  BY StepIsOwn, StepIsActive
<1>2. OwnOrder(d)'
  BY StepOwnOrder DEF SettledInv
<1>3. ASSUME NEW e \in Deploys \ {d}
      PROVE  /\ OwnOrder(e)'
             /\ ~ (alone'[e] /\ pc'[e] # "idle")
  <2>1. /\ pc'[e] = pc[e] /\ inFlight'[e] = inFlight[e] /\ attached'[e] = attached[e]
        /\ stage'[e] = stage[e] /\ plan' = plan /\ alone' = alone
    BY <1>1 DEF OthersKeep
  <2>2. OwnOrder(e)'
    BY <2>1 DEF SettledInv, OwnOrder, Wants
  <2>3. ~ OthersAreQuiet(e)
    BY <1>1 DEF OthersAreQuiet
  <2> QED
    BY <2>1, <2>2, <2>3 DEF SettledInv
<1>4. ASSUME alone'[d]
      PROVE  OthersAreQuiet(d)' /\ AsAsked(d)'
  <2>1. alone[d] /\ pc[d] # "idle"
    <3>1. alone[d]
      BY <1>1, <1>4 DEF OthersKeep
    <3>2. OwnOrder(d)
      BY DEF SettledInv
    <3>3. pc[d] # "idle"
      BY <1>1, <3>2 DEF Active, OwnOrder, Early
    <3> QED
      BY <3>1, <3>3
  <2>2. OthersAreQuiet(d) /\ AsAsked(d) /\ OwnOrder(d)
    BY <2>1 DEF SettledInv
  <2>3. OthersAreQuiet(d)'
    BY <1>1, <2>2 DEF OthersAreQuiet, OthersKeep, Active
  <2> QED
    BY <2>2, <2>3, StepAsAsked
<1> QED
  BY <1>2, <1>3, <1>4 DEF SettledInv

\* Before the first request nothing is in flight.
LEMMA InitSettled == Init => SettledInv
<1>1. AnyPlan \in Plans
  BY PlansAssumption DEF AnyPlan
<1> QED
  BY <1>1 DEF Init, SettledInv, OwnOrder, Wants, Early

\* Every step keeps the order and what the lone request has done.
LEMMA NextSettled == TypeOK /\ SettledInv /\ [Next]_vars => SettledInv'
<1> SUFFICES ASSUME TypeOK, SettledInv, [Next]_vars PROVE SettledInv'
  OBVIOUS
<1>1. CASE UNCHANGED vars
  <2>1. UNCHANGED <<pc, plan, attached, stage, inFlight, scripts, record, scriptMap, tokens,
                    mappings, alone>>
    BY <1>1 DEF vars, live, published
  <2>2. ASSUME NEW d \in Deploys
        PROVE  /\ OwnOrder(d)' <=> OwnOrder(d)
               /\ OthersAreQuiet(d)' <=> OthersAreQuiet(d)
               /\ ScriptIsUp(d)' <=> ScriptIsUp(d)
               /\ EntriesAreStored(d)' <=> EntriesAreStored(d)
               /\ FlightIsMeant(d)' <=> FlightIsMeant(d)
               /\ DoneIsKept(d)' <=> DoneIsKept(d)
               /\ StageIsKept(d)' <=> StageIsKept(d)
    <3> USE <2>1 DEF Wants, Flies, Intended, AllIntended, Replaced
    <3>1. OwnOrder(d)' <=> OwnOrder(d)
      BY DEF OwnOrder
    <3>2. OthersAreQuiet(d)' <=> OthersAreQuiet(d)
      BY DEF OthersAreQuiet, Active
    <3>3. ScriptIsUp(d)' <=> ScriptIsUp(d)
      BY DEF ScriptIsUp, ScriptName
    <3>4. EntriesAreStored(d)' <=> EntriesAreStored(d)
      BY DEF EntriesAreStored, ScriptName
    <3>5. FlightIsMeant(d)' <=> FlightIsMeant(d)
      BY DEF FlightIsMeant
    <3>6. DoneIsKept(d)' <=> DoneIsKept(d)
      BY DEF DoneIsKept, Done
    <3>7. StageIsKept(d)' <=> StageIsKept(d)
      BY DEF StageIsKept
    <3> QED
      BY <3>1, <3>2, <3>3, <3>4, <3>5, <3>6, <3>7
  <2> QED
    BY <2>1, <2>2 DEF SettledInv, AsAsked
<1>2. CASE Next
  BY <1>2, BeginSettled, StepSettled, Zenon DEF Next
<1> QED
  BY <1>1, <1>2

(***************************************************************************)
(* A request that succeeds and that nothing overlapped or followed has     *)
(* left exactly what it was asked for.                                     *)
(***************************************************************************)
LEMMA SettledIsExact == TypeOK /\ SettledInv => SettledDeployIsExact
<1> SUFFICES ASSUME TypeOK, SettledInv, NEW d \in Deploys, pc[d] = "succeeded", alone[d]
             PROVE  /\ record = d
                    /\ plan[d].native => /\ scripts[ScriptName(d)] = d
                                         /\ scriptMap[ScriptName(d)] = d
                                         /\ d \in tokens
                    /\ mappings \cap Replaced(d) = AllIntended(d)
  BY DEF SettledDeployIsExact, AllIntended
<1>1. OwnOrder(d) /\ AsAsked(d) /\ inFlight[d] = {}
  BY DEF SettledInv, OwnOrder
<1>2. /\ record = d
      /\ plan[d].native => /\ scripts[ScriptName(d)] = d
                           /\ scriptMap[ScriptName(d)] = d
                           /\ d \in tokens
  BY <1>1 DEF AsAsked, ScriptIsUp, EntriesAreStored, Flies
<1>3. \A i \in 1..3 :
        /\ mappings \cap StageNames[i] \cap Replaced(d) \subseteq AllIntended(d)
        /\ Intended(d, i) \subseteq mappings
  BY <1>1 DEF AsAsked, DoneIsKept, Done
<1>4. /\ AllIntended(d) \subseteq Replaced(d)
      /\ \A m \in Mappings : \E i \in 1..3 : m \in StageNames[i]
  BY <1>1, AboutStages
<1>5. AllIntended(d) \subseteq mappings
  <2>1. /\ Intended(d, 1) = attached[d]
        /\ Intended(d, 2) = plan[d].maps \cap Queues
        /\ Intended(d, 3) = plan[d].maps \cap Schedules
    BY DEF Intended, StageNames
  <2> QED
    BY <1>3, <2>1 DEF AllIntended, Wants
<1>6. mappings \cap Replaced(d) \subseteq AllIntended(d)
  BY <1>3, <1>4 DEF TypeOK
<1> QED
  BY <1>2, <1>4, <1>5, <1>6

(***************************************************************************)
(* For any number of requests and plans: a success that no other request   *)
(* overlapped or followed leaves its record, its script with its tokens,   *)
(* its mappings, and none besides of those that its branch replaces,       *)
(* whatever failed and dead requests before it had left.                   *)
(***************************************************************************)
THEOREM SettledDeploysAreExact == Spec => []SettledDeployIsExact
  BY InitType, StepType, InitSettled, NextSettled, SettledIsExact, PTL DEF Spec
=============================================================================
