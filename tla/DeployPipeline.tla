--------------------------- MODULE DeployPipeline ---------------------------
(***************************************************************************)
(* Deploy requests of one app in one environment (handleDeployRequest of   *)
(* api/deploy.ts): reserve a credit, check the plan, upload the Worker,    *)
(* upload assets and manifest, claim hostnames, store the deployment       *)
(* record with its look-up entries, replace the app's mappings, attach     *)
(* routes, capture the credit.                                             *)
(*                                                                         *)
(* Nothing serialises two requests of an app and nothing is transactional: *)
(* every await is a step, writes awaited together land in any order, a     *)
(* failed one leaves the others to land after the response, and the        *)
(* isolate may die anywhere.  Checks that change no state (the bearer      *)
(* token, limits, suspensions) are taken to have passed; the usage rollups *)
(* and the caches in front of KV are other modules.  Billing is enabled.   *)
(***************************************************************************)
EXTENDS Integers, FiniteSets

CONSTANTS
  Deploys,     \* deploy requests
  Plans,       \* what a request's archive, manifest and headers ask for
  Shas,        \* commits
  Files,       \* static assets
  Routes, Queues, Schedules,  \* custom hostnames, queue and cron entries
  StableName,  \* the script name of an app with Durable Objects
  NoDeploy, NoName

Mappings == Routes \cup Queues \cup Schedules
StageNames == <<Routes, Queues, Schedules>>
ScriptNames == Shas \cup {StableName}

(***************************************************************************)
(* native: the archive has a Worker, durable: with Durable Objects; files: *)
(* its site; maps: the mappings it declares; pruned: the hostnames its     *)
(* branch replaces, all for the main branch and those prefixed with its    *)
(* name for another; fits: within the deploy limits.                       *)
(***************************************************************************)
Plan == [sha : Shas, native : BOOLEAN, durable : BOOLEAN,
         files : SUBSET Files, maps : SUBSET Mappings, pruned : SUBSET Routes,
         defaultDomain : BOOLEAN, fits : BOOLEAN]

ASSUME PlansAssumption == Plans # {} /\ Plans \subseteq Plan
ASSUME BranchAssumption ==
  \A p \in Plans : p.maps \cap Routes \subseteq p.pruned
ASSUME NamesAssumption == /\ StableName \notin Shas
                          /\ NoDeploy \notin Deploys
                          /\ NoName \notin Mappings

VARIABLES
  pc,           \* pc[d]: the await request d is suspended in
  plan,         \* plan[d]: its plan, fixed when it begins
  sent,         \* sent[d]: assets it has uploaded
  attached,     \* attached[d]: hostnames its plan was granted
  stage,        \* stage[d]: which kind of mapping it is replacing
  inFlight,     \* inFlight[d]: its KV writes that have not landed
  scripts,      \* scripts[n]: whose upload script n is (and whose tokens it has)
  assets,       \* assets[s]: objects under the asset prefix of commit s
  manifests,    \* manifests[s]: files of the manifest of commit s
  record,       \* whose deployment record is stored
  scriptMap,    \* scriptMap[n]: whose worker-script mapping is stored
  tokens,       \* requests whose binding token mappings are stored
  mappings,     \* hostname, queue and schedule mappings of the app
  reservation,  \* reservation[s]: the account service's reservation for s
  alone,        \* history: no other request ran beside or after d
  stored        \* history: requests whose record was ever stored

published == <<scripts, assets, manifests>>
live == <<record, scriptMap, tokens, mappings, stored>>
vars == <<pc, plan, sent, attached, stage, inFlight, published, live,
          reservation, alone>>

Op == [op : {"record", "script", "tokens"}, name : {NoName}]
        \cup [op : {"delete", "put"}, name : Mappings]

Final == {"succeeded", "failed", "rejected"}
Active(d) == pc[d] \notin Final \cup {"idle"} \/ inFlight[d] # {}

AnyPlan == CHOOSE p \in Plans : TRUE

Init ==
  /\ pc = [d \in Deploys |-> "idle"]
  /\ plan = [d \in Deploys |-> AnyPlan]
  /\ sent = [d \in Deploys |-> {}]
  /\ attached = [d \in Deploys |-> {}]
  /\ stage = [d \in Deploys |-> 1]
  /\ inFlight = [d \in Deploys |-> {}]
  /\ scripts = [n \in ScriptNames |-> NoDeploy]
  /\ assets = [s \in Shas |-> {}]
  /\ manifests = [s \in Shas |-> {}]
  /\ record = NoDeploy
  /\ scriptMap = [n \in ScriptNames |-> NoDeploy]
  /\ tokens = {}
  /\ mappings = {}
  /\ reservation = [s \in Shas |-> "none"]
  /\ alone = [d \in Deploys |-> TRUE]
  /\ stored = {}

-----------------------------------------------------------------------------

Goto(d, label) == pc' = [pc EXCEPT ![d] = label]

Begin(d, p) ==
  /\ pc[d] = "idle"
  /\ Goto(d, "reserve")
  /\ plan' = [plan EXCEPT ![d] = p]
  /\ alone' = [e \in Deploys |->
                 e = d /\ \A f \in Deploys \ {d} : ~ Active(f)]
  /\ UNCHANGED <<sent, attached, stage, inFlight, published, live,
                 reservation>>

(***************************************************************************)
(* reserveBillingCredits is idempotent by commit: a reservation that       *)
(* exists is returned whatever its status, a refunded one perhaps          *)
(* reopened.  A refusal or a lost answer ends the request.                 *)
(***************************************************************************)
Reserve(d) ==
  LET s == plan[d].sha IN
  /\ pc[d] = "reserve"
  /\ \/ /\ Goto(d, "validate")
        /\ \/ reservation' = [reservation EXCEPT ![s] =
                IF @ = "captured" THEN @ ELSE "reserved"]
           \/ reservation[s] # "none" /\ UNCHANGED reservation
     \/ /\ Goto(d, "rejected")
        /\ \/ UNCHANGED reservation
           \/ /\ reservation[s] = "none"
              /\ reservation' = [reservation EXCEPT ![s] = "reserved"]
  /\ UNCHANGED <<plan, sent, attached, stage, inFlight, published, live,
                 alone>>

Wants(d, names) == plan[d].maps \cap names

Deployable(d) ==
  LET p == plan[d] IN
  /\ p.fits
  /\ p.native \/ p.files # {}
  /\ p.defaultDomain \/ Wants(d, Routes) # {}
  /\ ~ p.native => ~ p.durable /\ Wants(d, Queues \cup Schedules) = {}

(***************************************************************************)
(* The checks between the reservation and the first upload answer 400 and  *)
(* leave the reservation as it is.                                         *)
(***************************************************************************)
Validate(d) ==
  /\ pc[d] = "validate"
  /\ Goto(d, IF ~ Deployable(d) THEN "rejected"
             ELSE IF plan[d].native THEN "publish" ELSE "assets")
  /\ UNCHANGED <<plan, sent, attached, stage, inFlight, published, live,
                 reservation, alone>>

\* Mutant: one script name for every upload of the app.
ScriptNameStable(d) == StableName

ScriptName(d) == IF plan[d].durable THEN StableName ELSE plan[d].sha

(***************************************************************************)
(* publishIsolateWorker puts the script with fresh tokens in its bindings. *)
(* It fails before or after the upload takes effect; what precedes it      *)
(* (provisioning) fails before, storing the class records after.           *)
(***************************************************************************)
PublishWorker(d) ==
  /\ pc[d] = "publish"
  /\ \/ /\ scripts' = [scripts EXCEPT ![ScriptName(d)] = d]
        /\ Goto(d, "assets") \/ Goto(d, "refund")
     \/ UNCHANGED scripts /\ Goto(d, "refund")
  /\ UNCHANGED <<plan, sent, attached, stage, inFlight, assets, manifests,
                 live, reservation, alone>>

(***************************************************************************)
(* publishStaticSite: every asset in turn, then the manifest.              *)
(***************************************************************************)
PutAsset(d, f) ==
  LET s == plan[d].sha IN
  /\ pc[d] = "assets"
  /\ f \in plan[d].files \ sent[d]
  /\ \/ /\ assets' = [assets EXCEPT ![s] = @ \cup {f}]
        /\ sent' = [sent EXCEPT ![d] = @ \cup {f}]
        /\ UNCHANGED pc
     \/ UNCHANGED <<assets, sent>> /\ Goto(d, "refund")
  /\ UNCHANGED <<plan, attached, stage, inFlight, scripts, manifests, live,
                 reservation, alone>>

\* Mutant: the uploads of the assets are not awaited.
PutManifestUnawaited(d) ==
  /\ pc[d] = "assets"
  /\ manifests' = IF plan[d].files = {} THEN manifests
                  ELSE [manifests EXCEPT ![plan[d].sha] = plan[d].files]
  /\ Goto(d, "domains")
  /\ UNCHANGED <<plan, sent, attached, stage, inFlight, scripts, assets,
                 live, reservation, alone>>

PutManifest(d) ==
  /\ pc[d] = "assets"
  /\ sent[d] = plan[d].files
  /\ \/ /\ manifests' = IF plan[d].files = {} THEN manifests
                        ELSE [manifests EXCEPT ![plan[d].sha] = plan[d].files]
        /\ Goto(d, "domains")
     \/ /\ plan[d].files # {}
        /\ UNCHANGED manifests /\ Goto(d, "refund")
  /\ UNCHANGED <<plan, sent, attached, stage, inFlight, scripts, assets,
                 live, reservation, alone>>

(***************************************************************************)
(* planCustomDomainClaims grants some of the hostnames, or throws.  A      *)
(* plan without the default domain and with none granted is refunded.      *)
(***************************************************************************)
PlanDomains(d, granted) ==
  /\ pc[d] = "domains"
  /\ granted \subseteq Wants(d, Routes)
  /\ \/ /\ attached' = [attached EXCEPT ![d] = granted]
        /\ Goto(d, IF plan[d].defaultDomain \/ granted # {}
                   THEN "store" ELSE "refund")
     \/ /\ Wants(d, Routes) # {}
        /\ UNCHANGED attached /\ Goto(d, "refund")
  /\ UNCHANGED <<plan, sent, stage, inFlight, published, live, reservation,
                 alone>>

(***************************************************************************)
(* refundBillingReservation: its failure is swallowed, or ends the request *)
(* all the same.  The account service refunds what is merely reserved.     *)
(***************************************************************************)
Refund(d) ==
  LET s == plan[d].sha IN
  /\ pc[d] = "refund"
  /\ \/ /\ reservation[s] = "reserved"
        /\ reservation' = [reservation EXCEPT ![s] = "refunded"]
     \/ UNCHANGED reservation
  /\ Goto(d, "failed")
  /\ UNCHANGED <<plan, sent, attached, stage, inFlight, published, live,
                 alone>>

-----------------------------------------------------------------------------
(* Writes awaited together *)

Batch(kind, names) == [op : {kind}, name : names]

(***************************************************************************)
(* storeDeploymentRecord starts the puts of the record, the script mapping *)
(* and the token mappings at once.                                         *)
(***************************************************************************)
Store(d) ==
  /\ pc[d] = "store"
  /\ inFlight' = [inFlight EXCEPT ![d] =
       Batch("record", {NoName}) \cup
       IF plan[d].native
       THEN Batch("script", {NoName}) \cup Batch("tokens", {NoName})
       ELSE {}]
  /\ Goto(d, "storing")
  /\ UNCHANGED <<plan, sent, attached, stage, published, live, reservation,
                 alone>>

Apply(d, w) ==
  /\ record' = IF w.op = "record" THEN d ELSE record
  /\ stored' = IF w.op = "record" THEN stored \cup {d} ELSE stored
  /\ scriptMap' = IF w.op = "script"
                  THEN [scriptMap EXCEPT ![ScriptName(d)] = d] ELSE scriptMap
  /\ tokens' = IF w.op = "tokens" THEN tokens \cup {d} ELSE tokens
  /\ mappings' = IF w.op = "put" THEN mappings \cup {w.name}
                 ELSE IF w.op = "delete" THEN mappings \ {w.name}
                 ELSE mappings

(***************************************************************************)
(* A write takes effect, also after its request has failed.                *)
(***************************************************************************)
Land(d, w) ==
  /\ w \in inFlight[d]
  /\ Apply(d, w)
  /\ inFlight' = [inFlight EXCEPT ![d] = @ \ {w}]
  /\ UNCHANGED <<pc, plan, sent, attached, stage, published, reservation,
                 alone>>

(***************************************************************************)
(* A write rejects, perhaps after it took effect, and with it the          *)
(* Promise.all: the request answers 500 and does not refund.               *)
(***************************************************************************)
WriteFails(d, w) ==
  /\ w \in inFlight[d]
  /\ Apply(d, w) \/ UNCHANGED live
  /\ inFlight' = [inFlight EXCEPT ![d] = @ \ {w}]
  /\ Goto(d, "failed")
  /\ UNCHANGED <<plan, sent, attached, stage, published, reservation, alone>>

Stored(d) ==
  /\ pc[d] = "storing"
  /\ inFlight[d] = {}
  /\ Goto(d, "list")
  /\ UNCHANGED <<plan, sent, attached, stage, inFlight, published, live,
                 reservation, alone>>

-----------------------------------------------------------------------------
(* replaceCustomDomainMappings, replaceQueueMappings and                   *)
(* replaceScheduleMappings, one stage each                                 *)

Replaced(d) == plan[d].pruned \cup Queues \cup Schedules

Wanted(d) == CASE stage[d] = 1 -> attached[d]
               [] stage[d] = 2 -> Wants(d, Queues)
               [] stage[d] = 3 -> Wants(d, Schedules)

\* Mutant: the mappings of the previous deployment are kept.
ListStaleNone(d) ==
  /\ pc[d] = "list"
  /\ Goto(d, "deleting")
  /\ UNCHANGED <<plan, sent, attached, stage, inFlight, published, live,
                 reservation, alone>>

(***************************************************************************)
(* The stage lists the app's mappings of its kind and deletes those of the *)
(* branch that are not wanted, each by its own call.                       *)
(***************************************************************************)
ListStale(d) ==
  /\ pc[d] = "list"
  /\ \/ /\ inFlight' = [inFlight EXCEPT ![d] =
             Batch("delete", (mappings \cap StageNames[stage[d]] \cap Replaced(d))
                               \ Wanted(d))]
        /\ Goto(d, "deleting")
     \/ UNCHANGED inFlight /\ Goto(d, "failed")
  /\ UNCHANGED <<plan, sent, attached, stage, published, live, reservation,
                 alone>>

PutWanted(d) ==
  /\ pc[d] = "deleting"
  /\ inFlight[d] = {}
  /\ inFlight' = [inFlight EXCEPT ![d] = Batch("put", Wanted(d))]
  /\ Goto(d, "putting")
  /\ UNCHANGED <<plan, sent, attached, stage, published, live, reservation,
                 alone>>

StageDone(d) ==
  /\ pc[d] = "putting"
  /\ inFlight[d] = {}
  /\ IF stage[d] < 3
     THEN /\ stage' = [stage EXCEPT ![d] = @ + 1]
          /\ Goto(d, "list")
     ELSE /\ UNCHANGED stage
          /\ Goto(d, "attach")
  /\ UNCHANGED <<plan, sent, attached, inFlight, published, live,
                 reservation, alone>>

(***************************************************************************)
(* attachCustomDomainRoutes throws: the credit is refunded although the    *)
(* record is live.                                                         *)
(***************************************************************************)
AttachRoutes(d) ==
  /\ pc[d] = "attach"
  /\ \/ Goto(d, "capture")
     \/ attached[d] # {} /\ Goto(d, "refund")
  /\ UNCHANGED <<plan, sent, attached, stage, inFlight, published, live,
                 reservation, alone>>

\* Mutant: the response does not depend on the capture.
CaptureUnchecked(d) ==
  /\ pc[d] = "capture"
  /\ Goto(d, "succeeded")
  /\ \/ reservation' = [reservation EXCEPT ![plan[d].sha] = "captured"]
     \/ UNCHANGED reservation
  /\ UNCHANGED <<plan, sent, attached, stage, inFlight, published, live,
                 alone>>

(***************************************************************************)
(* captureBillingReservation: a refunded reservation is not captured, and  *)
(* an error is a 500 although the deployment is live.                      *)
(***************************************************************************)
Capture(d) ==
  LET s == plan[d].sha IN
  /\ pc[d] = "capture"
  /\ \/ /\ reservation[s] \in {"reserved", "captured"}
        /\ reservation' = [reservation EXCEPT ![s] = "captured"]
        /\ Goto(d, "succeeded") \/ Goto(d, "failed")
     \/ UNCHANGED reservation /\ Goto(d, "failed")
  /\ UNCHANGED <<plan, sent, attached, stage, inFlight, published, live,
                 alone>>

(***************************************************************************)
(* The isolate dies.  Writes that were sent may still land.                *)
(***************************************************************************)
Dies(d) ==
  /\ Active(d)
  /\ Goto(d, "failed")
  /\ \/ inFlight' = [inFlight EXCEPT ![d] = {}]
     \/ UNCHANGED inFlight
  /\ UNCHANGED <<plan, sent, attached, stage, published, live, reservation,
                 alone>>

Step(d) ==
  \/ Reserve(d)
  \/ Validate(d)
  \/ PublishWorker(d)
  \/ \E f \in Files : PutAsset(d, f)
  \/ PutManifest(d)
  \/ \E granted \in SUBSET Routes : PlanDomains(d, granted)
  \/ Refund(d)
  \/ Store(d)
  \/ \E w \in inFlight[d] : Land(d, w) \/ WriteFails(d, w)
  \/ Stored(d)
  \/ ListStale(d)
  \/ PutWanted(d)
  \/ StageDone(d)
  \/ AttachRoutes(d)
  \/ Capture(d)
  \/ Dies(d)

Next == \E d \in Deploys : Step(d) \/ \E p \in Plans : Begin(d, p)

Spec == Init /\ [][Next]_vars

-----------------------------------------------------------------------------
(* Properties *)

Waiting == {"reserve", "validate", "publish", "assets", "domains", "refund",
            "store", "storing", "list", "deleting", "putting", "attach",
            "capture"}

TypeOK ==
  /\ pc \in [Deploys -> {"idle"} \cup Waiting \cup Final]
  /\ plan \in [Deploys -> Plan]
  /\ sent \in [Deploys -> SUBSET Files]
  /\ attached \in [Deploys -> SUBSET Routes]
  /\ stage \in [Deploys -> 1..3]
  /\ inFlight \in [Deploys -> SUBSET Op]
  /\ scripts \in [ScriptNames -> Deploys \cup {NoDeploy}]
  /\ assets \in [Shas -> SUBSET Files]
  /\ manifests \in [Shas -> SUBSET Files]
  /\ record \in Deploys \cup {NoDeploy}
  /\ scriptMap \in [ScriptNames -> Deploys \cup {NoDeploy}]
  /\ tokens \subseteq Deploys
  /\ mappings \subseteq Mappings
  /\ reservation \in [Shas -> {"none", "reserved", "captured", "refunded"}]
  /\ alone \in [Deploys -> BOOLEAN]
  /\ stored \subseteq Deploys

(***************************************************************************)
(* What the stored record points at was uploaded before it: its script,    *)
(* its manifest and every asset of the manifest exist, whatever other      *)
(* requests, failures and crashes did meanwhile.                           *)
(***************************************************************************)
LiveTargetsPublished ==
  record # NoDeploy =>
    LET p == plan[record] IN
    /\ p.native => scripts[ScriptName(record)] # NoDeploy
    /\ p.files # {} => /\ manifests[p.sha] # {}
                       /\ manifests[p.sha] \subseteq assets[p.sha]

(***************************************************************************)
(* A script named after its commit is not touched by requests for other    *)
(* commits: while no other request deploys the live commit, the script     *)
(* that runs is the upload whose token hashes the live record holds.       *)
(***************************************************************************)
RunningScriptIsRecorded ==
  /\ record # NoDeploy
  /\ plan[record].native /\ ~ plan[record].durable
  /\ \A e \in Deploys \ {record} :
       pc[e] # "idle" => plan[e].sha # plan[record].sha
  => scripts[ScriptName(record)] = record

(***************************************************************************)
(* A successful deploy that no other request overlapped or followed leaves *)
(* exactly what it asked for, whatever failed and dead requests before it  *)
(* had left behind: its record, its script with its tokens, its mappings   *)
(* and no others that its branch replaces.                                 *)
(***************************************************************************)
SettledDeployIsExact ==
  \A d \in Deploys : pc[d] = "succeeded" /\ alone[d] =>
    /\ record = d
    /\ plan[d].native => /\ scripts[ScriptName(d)] = d
                         /\ scriptMap[ScriptName(d)] = d
                         /\ d \in tokens
    /\ mappings \cap Replaced(d) =
         attached[d] \cup Wants(d, Queues \cup Schedules)

(***************************************************************************)
(* A credit is captured only for a commit that went live, and a success is *)
(* reported only for a captured one, although retries of a commit share    *)
(* one reservation.                                                        *)
(***************************************************************************)
ChargedIffDeployed ==
  /\ \A s \in Shas : reservation[s] = "captured" =>
       \E d \in stored : plan[d].sha = s
  /\ \A d \in Deploys : pc[d] = "succeeded" =>
       reservation[plan[d].sha] = "captured"
=============================================================================
