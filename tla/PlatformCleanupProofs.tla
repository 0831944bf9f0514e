------------------------ MODULE PlatformCleanupProofs ------------------------
(***************************************************************************)
(* Proofs about the deploys of an app and the cleanup beside them, for any *)
(* deploys, plans, commits, resources, migrations and classes.             *)
(***************************************************************************)
EXTENDS PlatformCleanup, SequenceTheorems, TLAPS

-----------------------------------------------------------------------------
(* Types *)

\* What the plan of a deploy is made of.
LEMMA PlanType ==
  ASSUME AppTypeOK, NEW d \in Deploys
  PROVE  /\ plan[d].commit \in Commits /\ plan[d].uses \in Seq(Resources)
         /\ plan[d].files \in SUBSET Files /\ plan[d].classes \in SUBSET Classes
         /\ ScriptName(d) \in Names
  BY PlansAssumption DEF AppTypeOK, Plan, ScriptName, Names

\* What the pasts leave is well typed.
LEMMA InitType == Init => TypeOK
<1>1. ASSUME Init
      PROVE  /\ first.scripts \in [Names -> Script]
             /\ first.scriptKeys \in [Names -> Ages]
             /\ first.sites \in SUBSET Commits
             /\ first.siteKeys \in [Commits -> Ages]
             /\ first.swept \subseteq Names
             /\ first.classRecords \in SUBSET Classes /\ first.record \in Current
  BY <1>1, PastsAssumption DEF Init, AppInit, Past
<1>2. <<>> \in Seq(Resources) /\ <<>> \in Seq([file : Files, by : Deploys])
  OBVIOUS
<1> QED
  BY <1>1, <1>2 DEF Init, AppInit, TypeOK, AppTypeOK, Over, Kinds

(***************************************************************************)
(* Resources are taken from the front of what is left.                     *)
(***************************************************************************)
LEMMA RestType ==
  ASSUME NEW s \in Seq(Resources), s # <<>>
  PROVE  Head(s) \in Resources /\ Tail(s) \in Seq(Resources)
  OBVIOUS

(***************************************************************************)
(* A resource is left while it is provisioned.                             *)
(***************************************************************************)
Provisioning == {"find", "create", "record", "consumers", "consume", "select",
                 "execute", "insert"}
RestInv == \A d \in Deploys : pc[d] \in Provisioning => rest[d] # <<>>

Calls == Over \cup Provisioning \cup
           {"load", "tag", "upload", "classes", "assets", "manifest", "store"}

(***************************************************************************)
(* What provisioning changes.                                              *)
(***************************************************************************)
LEMMA ProvisionedType ==
  ASSUME AppTypeOK, NEW d \in Deploys, rest[d] # <<>>, Provisioned(d)
  PROVE  /\ rest' \in [Deploys -> Seq(Resources)]
         /\ files' \in [Deploys -> SUBSET Files]
         /\ pc' \in [Deploys -> Calls]
         /\ pc'[d] \notin Provisioning
         /\ \A e \in Deploys : e # d => pc'[e] = pc[e] /\ rest'[e] = rest[e]
  BY RestType DEF AppTypeOK, Provisioned, Goto, Calls, Over, Provisioning

\* A deploy that goes on to its next resource keeps the types.
LEMMA ReadyType ==
  ASSUME AppTypeOK, NEW d \in Deploys, rest[d] # <<>>, Ready(d)
  PROVE  /\ rest' \in [Deploys -> Seq(Resources)]
         /\ files' \in [Deploys -> SUBSET Files]
         /\ pc' \in [Deploys -> Calls]
         /\ pc'[d] \in Provisioning => rest'[d] # <<>>
         /\ \A e \in Deploys : e # d => pc'[e] = pc[e] /\ rest'[e] = rest[e]
<1>1. CASE Provisioned(d)
  BY <1>1, ProvisionedType
<1>2. CASE ~ Provisioned(d)
  <2>1. plan[d].files \in SUBSET Files
    BY PlanType
  <2>2. \/ pc' = [pc EXCEPT ![d] = "select"] /\ rest' = rest
             /\ files' = [files EXCEPT ![d] = plan[d].files]
        \/ pc' = [pc EXCEPT ![d] = "consumers"] /\ rest' = rest /\ files' = files
    BY <1>2 DEF Ready, Goto
  <2>3. pc \in [Deploys -> Calls]
    BY DEF AppTypeOK, Calls, Over, Provisioning
  <2> QED
    BY <2>1, <2>2, <2>3 DEF AppTypeOK, Calls, Provisioning
<1> QED
  BY <1>1, <1>2

\* The steps about resources keep the types.
LEMMA ResourceType ==
  ASSUME AppTypeOK, RestInv, NEW d \in Deploys,
         \/ Begin(d) \/ LoadRecord(d) \/ Find(d) \/ Create(d) \/ Record(d)
         \/ SeekConsumer(d) \/ AddConsumer(d)
  PROVE  (AppTypeOK /\ RestInv)'
<1> USE DEF local, cloud, database, live, history
<1>1. CASE Begin(d)
  <2>1. met' \subseteq SUBSET Deploys
    BY <1>1 DEF Begin, AppTypeOK
  <2> QED
    BY <1>1, <2>1, PlanType
       DEF Begin, Goto, AppTypeOK, RestInv, Provisioning, Over
<1>2. CASE LoadRecord(d)
  <2>1. CASE Ready(d)
    BY <1>2, <2>1, ReadyType DEF LoadRecord, AppTypeOK, RestInv, Calls, Provisioning
  <2>2. CASE ~ Ready(d)
    BY <1>2, <2>2 DEF LoadRecord, Goto, AppTypeOK, RestInv, Provisioning, Over
  <2> QED
    BY <2>1, <2>2
<1>3. CASE Find(d)
  BY <1>3 DEF Find, Goto, AppTypeOK, RestInv, Provisioning, Over
<1>4. CASE Create(d)
  <2>1. Head(rest[d]) \in Resources
    BY <1>4, RestType DEF Create, AppTypeOK, RestInv, Provisioning
  <2> QED
    BY <1>4, <2>1 DEF Create, Goto, AppTypeOK, RestInv, Provisioning, Over
<1>5. CASE Record(d)
  <2>1. rest[d] # <<>> /\ Head(rest[d]) \in Resources
    BY <1>5, RestType DEF Record, AppTypeOK, RestInv, Provisioning
  <2> QED
    BY <1>5, <2>1, ReadyType DEF Record, AppTypeOK, RestInv, Calls, Provisioning
<1>6. CASE SeekConsumer(d)
  <2>1. rest[d] # <<>>
    BY <1>6 DEF SeekConsumer, RestInv, Provisioning
  <2>2. CASE Provisioned(d)
    BY <1>6, <2>1, <2>2, ProvisionedType
       DEF SeekConsumer, AppTypeOK, RestInv, Calls, Provisioning
  <2>3. CASE ~ Provisioned(d)
    BY <1>6, <2>1, <2>3
       DEF SeekConsumer, Goto, AppTypeOK, RestInv, Provisioning, Over
  <2> QED
    BY <2>2, <2>3
<1>7. CASE AddConsumer(d)
  <2>1. rest[d] # <<>> /\ Head(rest[d]) \in Resources
    BY <1>7, RestType DEF AddConsumer, AppTypeOK, RestInv, Provisioning
  <2> QED
    BY <1>7, <2>1, ProvisionedType
       DEF AddConsumer, AppTypeOK, RestInv, Calls, Provisioning
<1> QED
  BY <1>1, <1>2, <1>3, <1>4, <1>5, <1>6, <1>7

\* Executing a migration takes its file from those to do.
LEMMA FilesShrink ==
  ASSUME AppTypeOK, NEW d \in Deploys,
         \/ files' = files
         \/ \E m \in files[d] : files' = [files EXCEPT ![d] = @ \ {m}]
  PROVE  files' \in [Deploys -> SUBSET Files]
<1>1. files \in [Deploys -> SUBSET Files]
  BY DEF AppTypeOK
<1> QED
  BY <1>1

\* The steps about migrations keep the types.
LEMMA MigrationType ==
  ASSUME AppTypeOK, RestInv, NEW d \in Deploys,
         Select(d) \/ Execute(d) \/ Insert(d)
  PROVE  (AppTypeOK /\ RestInv)'
<1> USE DEF local, cloud, database, live, history
<1>1. CASE Select(d)
  <2>1. rest[d] # <<>>
    BY <1>1 DEF Select, RestInv, Provisioning
  <2>2. CASE Provisioned(d)
    BY <1>1, <2>1, <2>2, ProvisionedType
       DEF Select, AppTypeOK, RestInv, Calls, Provisioning
  <2>3. CASE ~ Provisioned(d)
    <3>1. /\ pc' \in {pc, [pc EXCEPT ![d] = "execute"]} /\ rest' = rest
          /\ \/ files' = files
             \/ \E m \in files[d] : files' = [files EXCEPT ![d] = @ \ {m}]
      BY <1>1, <2>3 DEF Select, Goto
    <3>2. files' \in [Deploys -> SUBSET Files]
      BY <3>1, FilesShrink
    <3> QED
      BY <1>1, <2>1, <3>1, <3>2 DEF Select, AppTypeOK, RestInv, Provisioning, Over
  <2> QED
    BY <2>2, <2>3
<1>2. CASE Execute(d)
  <2>1. PICK m \in files[d] :
          applied' \in {applied, Append(applied, [file |-> m, by |-> d])}
    BY <1>2 DEF Execute
  <2>2. [file |-> m, by |-> d] \in [file : Files, by : Deploys]
        /\ applied \in Seq([file : Files, by : Deploys])
    BY DEF AppTypeOK
  <2>3. Append(applied, [file |-> m, by |-> d]) \in Seq([file : Files, by : Deploys])
    BY <2>2, AppendProperties
  <2>4. applied' \in Seq([file : Files, by : Deploys])
    BY <2>1, <2>2, <2>3
  <2> QED
    BY <1>2, <2>4 DEF Execute, Goto, AppTypeOK, RestInv, Provisioning, Over
<1>3. CASE Insert(d)
  <2>1. pc' \in {[pc EXCEPT ![d] = "select"], [pc EXCEPT ![d] = "refused"]}
    BY <1>3 DEF Insert, Goto
  <2>2. rest[d] # <<>>
    BY <1>3 DEF Insert, RestInv, Provisioning
  <2>3. files' \in [Deploys -> SUBSET Files]
    BY <1>3, FilesShrink DEF Insert
  <2>4. PICK m \in files[d] : journal' \in {journal, journal \cup {m}}
    BY <1>3 DEF Insert
  <2>5. journal' \subseteq Files
    BY <2>4 DEF AppTypeOK
  <2> QED
    BY <1>3, <2>1, <2>2, <2>3, <2>5 DEF Insert, AppTypeOK, RestInv, Provisioning, Over
<1> QED
  BY <1>1, <1>2, <1>3

\* What is uploaded is a script.
LEMMA UploadedType ==
  ASSUME AppTypeOK, NEW d \in Deploys
  PROVE  Uploaded(d) \in Script
<1>1. scripts[ScriptName(d)] \in Script
  BY PlanType DEF AppTypeOK
<1>2. Creates(d) \in SUBSET Classes
  BY PlanType DEF Creates, AppTypeOK
<1> QED
  BY <1>1, <1>2, PlanType DEF Uploaded, Script

\* The steps about scripts, sites and records keep the types.
LEMMA PublishType ==
  ASSUME AppTypeOK, RestInv, NEW d \in Deploys,
         \/ LoadClasses(d) \/ ReadTag(d) \/ Upload(d)
         \/ \E c \in Classes : RecordClass(d, c)
         \/ Publish(d) \/ PutAssets(d) \/ PutManifest(d)
         \/ StoreRecord(d) \/ StoreScript(d) \/ Finish(d) \/ Stop(d)
  PROVE  (AppTypeOK /\ RestInv)'
<1>a. /\ scripts \in [Names -> Script] /\ fresh \in [Deploys -> SUBSET Classes]
      /\ puts \in [Deploys -> SUBSET {"record", "script"}]
  BY DEF AppTypeOK
<1>b. Upload(d) => /\ scripts' \in [Names -> Script]
                   /\ fresh' \in [Deploys -> SUBSET Classes]
                   /\ pc' \in {[pc EXCEPT ![d] = "classes"],
                               [pc EXCEPT ![d] = "refused"]}
  <2>1. \/ ~ Upload(d)
        \/ /\ scripts' = [scripts EXCEPT ![ScriptName(d)] = Uploaded(d)]
           /\ fresh' = [fresh EXCEPT ![d] = plan[d].classes]
           /\ pc' = [pc EXCEPT ![d] = "classes"]
        \/ /\ UNCHANGED <<scripts, fresh>>
           /\ pc' = [pc EXCEPT ![d] = "refused"]
    BY DEF Upload, Goto
  <2> QED
    BY <1>a, <2>1, UploadedType, PlanType
<1>c. Publish(d) => /\ puts' \in [Deploys -> SUBSET {"record", "script"}]
                    /\ pc' \in {[pc EXCEPT ![d] = "assets"],
                                [pc EXCEPT ![d] = "store"]}
  <2>1. \/ ~ Publish(d)
        \/ puts' = puts /\ pc' = [pc EXCEPT ![d] = "assets"]
        \/ /\ puts' = [puts EXCEPT ![d] = {"record", "script"}]
           /\ pc' = [pc EXCEPT ![d] = "store"]
    BY DEF Publish, Goto
  <2> QED
    BY <1>a, <2>1
<1> USE PlanType DEF local, cloud, database, live, history, Goto, AppTypeOK,
                     RestInv, Provisioning, Over
<1>1. CASE LoadClasses(d)
  BY <1>1 DEF LoadClasses
<1>2. CASE ReadTag(d)
  <2>1. scripts[StableName].tag \in SUBSET Classes
    BY DEF Names, Script
  <2> QED
    BY <1>2, <2>1 DEF ReadTag
<1>3. CASE Upload(d)
  BY <1>3, <1>b DEF Upload
<1>4. CASE \E c \in Classes : RecordClass(d, c)
  BY <1>4 DEF RecordClass
<1>5. CASE Publish(d)
  <2>1. UNCHANGED <<plan, rest, files, fresh, seen, cloud, database,
                    classRecords, live, history>>
    BY <1>5 DEF Publish
  <2>2. pc' \in [Deploys -> Calls]
    BY <1>5, <1>c DEF Calls
  <2>3. RestInv'
    BY <1>5, <1>c, <2>1
  <2> QED
    BY <1>5, <1>c, <2>1, <2>2, <2>3 DEF Calls
<1>6. CASE PutAssets(d)
  BY <1>6 DEF PutAssets
<1>7. CASE PutManifest(d)
  BY <1>7 DEF PutManifest, Ages
<1>8. CASE StoreRecord(d)
  BY <1>8 DEF StoreRecord, Current
<1>9. CASE StoreScript(d)
  BY <1>9 DEF StoreScript, Ages
<1>10. CASE Finish(d)
  BY <1>10 DEF Finish
<1>11. CASE Stop(d)
  BY <1>11 DEF Stop
<1> QED
  BY <1>1, <1>2, <1>3, <1>4, <1>5, <1>6, <1>7, <1>8, <1>9, <1>10, <1>11

(***************************************************************************)
(* What the cleanup leaves alone: of the deploys' state it deletes scripts *)
(* and sites and their entries only.                                       *)
(***************************************************************************)
SweepDeletes ==
  /\ UNCHANGED <<pc, local, cloud, database, classRecords, record, history>>
  /\ \/ scripts' = scripts
     \/ \E n : scripts' = [scripts EXCEPT ![n] = NoScript]
  /\ sites' \subseteq sites
  /\ \/ scriptKeys' = scriptKeys
     \/ \E n : scriptKeys' = [scriptKeys EXCEPT ![n] = "none"]
  /\ \/ siteKeys' = siteKeys
     \/ \E n : siteKeys' = [siteKeys EXCEPT ![n] = "none"]

\* A step of the cleanup deletes, or leaves the app alone.
LEMMA SweepStep ==
  ASSUME Sweep
  PROVE  SweepDeletes
<1> USE DEF appVars, live, SweepDeletes
<1>1. CASE GetLock \/ PutLock
  BY <1>1 DEF GetLock, PutLock
<1>2. CASE \E k \in Kinds : \/ ReadRefs(k) \/ ListEntries(k) \/ DeleteFails(k)
                           \/ \E n \in Names : Judge(k, n)
  BY <1>2 DEF ReadRefs, ListEntries, DeleteFails, Judge
<1>3. CASE \E k \in Kinds : DeleteEntry(k)
  BY <1>3 DEF DeleteEntry
<1>4. CASE DeleteScript \/ DeleteAssets
  BY <1>4 DEF DeleteScript, DeleteAssets
<1> QED
  BY <1>1, <1>2, <1>3, <1>4 DEF Sweep

\* The cleanup keeps the types of the app's state.
LEMMA SweepAppType ==
  ASSUME AppTypeOK, RestInv, SweepDeletes
  PROVE  (AppTypeOK /\ RestInv)'
<1>1. NoScript \in Script /\ "none" \in Ages
  BY DEF NoScript, Script, Ages
<1>2. /\ scripts' \in [Names -> Script] /\ scriptKeys' \in [Names -> Ages]
      /\ sites' \subseteq Commits /\ siteKeys' \in [Commits -> Ages]
  <2>1. /\ scripts \in [Names -> Script] /\ scriptKeys \in [Names -> Ages]
        /\ sites \subseteq Commits /\ siteKeys \in [Commits -> Ages]
    BY DEF AppTypeOK
  <2>2. scripts' \in [Names -> Script]
    BY <1>1, <2>1 DEF SweepDeletes
  <2>3. scriptKeys' \in [Names -> Ages]
    BY <1>1, <2>1 DEF SweepDeletes
  <2>4. siteKeys' \in [Commits -> Ages]
    BY <1>1, <2>1 DEF SweepDeletes
  <2> QED
    BY <2>1, <2>2, <2>3, <2>4 DEF SweepDeletes
<1>3. UNCHANGED <<pc, local, cloud, database, classRecords, record, history>>
  BY DEF SweepDeletes
<1> QED
  BY <1>2, <1>3 DEF AppTypeOK, RestInv, local, cloud, database, history

\* What is being deleted has a name.
SweepTypeOK ==
  /\ lock \in BOOLEAN
  /\ sweep \in {"idle", "locking", "sweeping", "skipped"}
  /\ step \in [Kinds -> {"refs", "list", "each", "delete", "forget", "over"}]
  /\ refs \in [Kinds -> SUBSET Names]
  /\ left \in [Kinds -> SUBSET Names]
  /\ doomed \in [Kinds -> Names \cup {None}]
  /\ crossed \subseteq Deploys /\ swept \subseteq Names
  /\ \A k \in Kinds : step[k] \in {"delete", "forget"} => doomed[k] \in Names

\* It keeps those of its own.
LEMMA SweepType ==
  ASSUME AppTypeOK, SweepTypeOK, Sweep
  PROVE  SweepTypeOK'
<1> USE DEF SweepTypeOK, Does
<1>1. CASE GetLock \/ PutLock
  BY <1>1 DEF GetLock, PutLock
<1>2. ASSUME NEW k \in Kinds, ReadRefs(k) \/ ListEntries(k)
      PROVE  SweepTypeOK'
  <2>1. Target(k) \in SUBSET Names /\ Entries(k) \in SUBSET Names
    BY DEF Target, Entries, AppTypeOK, Current, Names
  <2> QED
    BY <1>2, <2>1 DEF ReadRefs, ListEntries
<1>3. ASSUME NEW k \in Kinds, DeleteFails(k) \/ DeleteEntry(k)
      PROVE  SweepTypeOK'
  BY <1>3 DEF DeleteFails, DeleteEntry
<1>4. ASSUME NEW k \in Kinds, NEW n \in Names, Judge(k, n)
      PROVE  SweepTypeOK'
  BY <1>4 DEF Judge
<1>5. CASE DeleteScript \/ DeleteAssets
  BY <1>5 DEF DeleteScript, DeleteAssets, Kinds
<1> QED
  BY <1>1, <1>2, <1>3, <1>4, <1>5 DEF Sweep

\* Every step keeps the types.
LEMMA TypeStep ==
  ASSUME TypeOK, SweepTypeOK, RestInv, [Next]_vars
  PROVE  (TypeOK /\ SweepTypeOK /\ RestInv)'
<1> DEFINE Typed == AppTypeOK /\ SweepTypeOK /\ RestInv
<1>1. ASSUME NEW d \in Deploys, Deploy(d),
             crossed' = IF sweep = "sweeping" THEN crossed \cup {d} ELSE crossed,
             UNCHANGED <<lock, sweep, step, refs, left, doomed, swept>>
      PROVE  Typed'
  <2>1. (AppTypeOK /\ RestInv)'
    BY <1>1, ResourceType, MigrationType, PublishType DEF Deploy, TypeOK
  <2> QED
    BY <1>1, <2>1 DEF SweepTypeOK
<1>2. ASSUME Sweep
      PROVE  Typed'
  <2>1. AppTypeOK
    BY DEF TypeOK
  <2> QED
    BY <1>2, <2>1, SweepStep, SweepAppType, SweepType
<1>3. ASSUME UNCHANGED vars
      PROVE  Typed'
  BY <1>3 DEF vars, appVars, sweepVars, local, cloud, database, live, history,
              TypeOK, AppTypeOK, SweepTypeOK, RestInv
<1>4. Typed'
  <2> HIDE DEF Typed
  <2> QED
    BY <1>1, <1>2, <1>3 DEF Next
<1> QED
  BY <1>4 DEF TypeOK, SweepTypeOK

\* The types are an invariant.
LEMMA TypeInv == Spec => [](TypeOK /\ SweepTypeOK /\ RestInv)
<1>1. Init => SweepTypeOK /\ RestInv
  BY InitType DEF Init, AppInit, TypeOK, SweepTypeOK, RestInv, Provisioning
<1>2. Init => TypeOK /\ SweepTypeOK /\ RestInv
  BY <1>1, InitType
<1>3. TypeOK /\ SweepTypeOK /\ RestInv /\ [Next]_vars
        => (TypeOK /\ SweepTypeOK /\ RestInv)'
  BY TypeStep
<1> QED
  BY <1>2, <1>3, PTL DEF Spec

(***************************************************************************)
(* Every variable has its type, for any app and any past of it.            *)
(***************************************************************************)
THEOREM TypeCorrect == Spec => []TypeOK
  BY TypeInv, PTL

-----------------------------------------------------------------------------
(* Migrations *)

\* A database among the resources that are left.
HasDatabase(d) == \E i \in 1..Len(rest[d]) : rest[d][i] \in Databases

Migrating == {"select", "execute", "insert"}
Looking == {"load"} \cup Provisioning

(***************************************************************************)
(* A deploy has looked at a migration only once it was executed; past its  *)
(* databases, all of its own are.                                          *)
(***************************************************************************)
MigrationOf(d) ==
  /\ files[d] \subseteq plan[d].files
  /\ pc[d] \in Migrating => plan[d].files \ files[d] \subseteq Applied
  /\ pc[d] = "insert" => \A m \in files[d] : Due(d, m) => m \in Applied
  /\ pc[d] \in Looking => HasDatabase(d) \/ plan[d].files \subseteq Applied
  /\ pc[d] \in {"tag", "upload"} => plan[d].files \subseteq Applied
  /\ pc[d] \in {"consumers", "consume"} => Head(rest[d]) \in Queues

MigrationInv ==
  /\ journal \subseteq Applied
  /\ \A d \in Deploys : MigrationOf(d)

Typed == TypeOK /\ RestInv

\* One migration is due at a time.
LEMMA DueIsOne ==
  ASSUME Typed, NEW d \in Deploys, NEW m, NEW n, Due(d, m), Due(d, n)
  PROVE  m = n /\ m \in Files
<1>1. files[d] \in SUBSET Nat /\ files[d] \in SUBSET Files
  BY FilesAssumption DEF Typed, TypeOK, AppTypeOK
<1>2. m \in Nat /\ n \in Nat /\ m <= n /\ n <= m
  BY <1>1 DEF Due
<1> QED
  BY <1>1, <1>2 DEF Due

\* A database that is not the first of what is left is among the rest.
LEMMA RestOfDatabases ==
  ASSUME NEW s \in Seq(Resources), s # <<>>, Head(s) \notin Databases,
         \E i \in 1..Len(s) : s[i] \in Databases
  PROVE  \E i \in 1..Len(Tail(s)) : Tail(s)[i] \in Databases
<1>1. PICK i \in 1..Len(s) : s[i] \in Databases
  OBVIOUS
<1>2. i # 1
  BY <1>1
<1>3. i - 1 \in 1..Len(Tail(s)) /\ Tail(s)[i - 1] = s[i]
  BY <1>1, <1>2
<1> QED
  BY <1>1, <1>3

(***************************************************************************)
(* What a step of one deploy leaves alone, and what only grows.            *)
(***************************************************************************)
Others(d) ==
  /\ plan' = plan /\ met \subseteq met' /\ torn \subseteq torn'
  /\ \A e \in Deploys :
       e # d => pc'[e] = pc[e] /\ rest'[e] = rest[e] /\ files'[e] = files[e]

\* A step of a deploy leaves the others where they are.
LEMMA OthersStay ==
  ASSUME Typed, NEW d \in Deploys, Deploy(d)
  PROVE  Others(d)
<1>1. /\ pc = [e \in Deploys |-> pc[e]] /\ rest = [e \in Deploys |-> rest[e]]
      /\ files = [e \in Deploys |-> files[e]]
  BY DEF Typed, TypeOK, AppTypeOK
<1> USE DEF local, database, history, Others, Goto
<1>2. CASE \/ Begin(d) \/ Find(d) \/ Create(d) \/ LoadClasses(d) \/ ReadTag(d)
           \/ Upload(d) \/ Publish(d) \/ PutAssets(d) \/ PutManifest(d)
           \/ StoreRecord(d) \/ StoreScript(d) \/ Finish(d) \/ Stop(d)
           \/ \E c \in Classes : RecordClass(d, c)
  BY <1>1, <1>2 DEF Begin, Find, Create, LoadClasses, ReadTag, Upload, Publish,
       PutAssets, PutManifest, StoreRecord, StoreScript, Finish, Stop, RecordClass
<1>3. CASE \/ LoadRecord(d) \/ Record(d) \/ SeekConsumer(d) \/ AddConsumer(d)
  BY <1>1, <1>3 DEF LoadRecord, Record, SeekConsumer, AddConsumer, Ready,
                    Provisioned
<1>4. CASE Select(d) \/ Execute(d) \/ Insert(d)
  BY <1>1, <1>4 DEF Select, Execute, Insert, Provisioned
<1> QED
  BY <1>2, <1>3, <1>4 DEF Deploy

\* Only executing, inserting and uploading change journal, schema and scripts.
LEMMA DatabaseStays ==
  ASSUME NEW d \in Deploys, Deploy(d)
  PROVE  /\ applied' = applied \/ Execute(d)
         /\ journal' = journal \/ Insert(d)
         /\ \/ \A n \in Names : scripts'[n] = scripts[n]
            \/ Upload(d)
<1> USE DEF database, live
<1>1. CASE \/ Begin(d) \/ Find(d) \/ Create(d) \/ LoadClasses(d) \/ ReadTag(d)
           \/ Upload(d) \/ Publish(d) \/ PutAssets(d) \/ PutManifest(d)
           \/ StoreRecord(d) \/ StoreScript(d) \/ Finish(d) \/ Stop(d)
           \/ \E c \in Classes : RecordClass(d, c)
  BY <1>1 DEF Begin, Find, Create, LoadClasses, ReadTag, Upload, Publish,
       PutAssets, PutManifest, StoreRecord, StoreScript, Finish, Stop, RecordClass
<1>2. CASE \/ LoadRecord(d) \/ Record(d) \/ SeekConsumer(d) \/ AddConsumer(d)
           \/ Select(d) \/ Execute(d) \/ Insert(d)
  BY <1>2 DEF LoadRecord, Record, SeekConsumer, AddConsumer, Select, Execute,
              Insert
<1> QED
  BY <1>1, <1>2 DEF Deploy

(***************************************************************************)
(* Execute in terms of the set of executed migrations.                     *)
(***************************************************************************)
LEMMA Executed ==
  ASSUME Typed, NEW d \in Deploys, Execute(d)
  PROVE  \E m \in files[d] :
           /\ Due(d, m)
           /\ \/ /\ applied' = Append(applied, [file |-> m, by |-> d])
                 /\ Applied' = Applied \cup {m}
                 /\ pc'[d] = "insert"
              \/ /\ m \in Applied /\ applied' = applied /\ Applied' = Applied
                 /\ pc'[d] = "refused"
<1>1. PICK m \in files[d] :
        /\ Due(d, m)
        /\ \/ /\ applied' = Append(applied, [file |-> m, by |-> d])
              /\ Goto(d, "insert")
           \/ m \in Applied /\ Goto(d, "refused") /\ UNCHANGED applied
  BY DEF Execute
<1>2. pc = [e \in Deploys |-> pc[e]]
      /\ applied \in Seq([file : Files, by : Deploys])
  BY DEF Typed, TypeOK, AppTypeOK
<1>3. CASE applied' = Append(applied, [file |-> m, by |-> d])
  <2>1. /\ Len(applied') = Len(applied) + 1
        /\ applied'[Len(applied) + 1] = [file |-> m, by |-> d]
        /\ \A i \in 1..Len(applied) : applied'[i] = applied[i]
    BY <1>2, <1>3
  <2>2. Applied' = Applied \cup {m}
    BY <1>2, <2>1 DEF Applied
  <2> QED
    BY <1>1, <1>2, <1>3, <2>2 DEF Goto
<1>4. CASE m \in Applied /\ Goto(d, "refused") /\ UNCHANGED applied
  <2>1. Applied' = Applied
    BY <1>4 DEF Applied
  <2> QED
    BY <1>1, <1>2, <1>4, <2>1 DEF Goto
<1> QED
  BY <1>1, <1>3, <1>4

\* What was executed stays executed.
LEMMA AppliedGrows ==
  ASSUME Typed, NEW d \in Deploys, Deploy(d)
  PROVE  Applied \subseteq Applied'
<1>1. CASE applied' = applied
  BY <1>1 DEF Applied
<1>2. CASE Execute(d)
  BY <1>2, Executed
<1> QED
  BY <1>1, <1>2, DatabaseStays

\* What a deploy knows of its migrations outlives the steps of others.
LEMMA MigrationOfOthers ==
  ASSUME Typed, MigrationInv, NEW d \in Deploys, Deploy(d),
         NEW e \in Deploys, e # d
  PROVE  MigrationOf(e)'
<1>1. MigrationOf(e) /\ Applied \subseteq Applied'
  BY AppliedGrows DEF MigrationInv
<1>2. /\ pc'[e] = pc[e] /\ rest'[e] = rest[e] /\ files'[e] = files[e]
      /\ plan' = plan
  BY OthersStay DEF Others
<1> QED
  BY <1>1, <1>2 DEF MigrationOf, HasDatabase, Due

\* The resource in hand is one of the app.
LEMMA HeadOfResources ==
  ASSUME Typed, NEW d \in Deploys, rest[d] # <<>>
  PROVE  /\ rest[d] \in Seq(Resources)
         /\ Head(rest[d]) \in Databases => HasDatabase(d)
         /\ Head(rest[d]) \notin Databases /\ HasDatabase(d)
              => \E i \in 1..Len(Tail(rest[d])) : Tail(rest[d])[i] \in Databases
<1>1. rest[d] \in Seq(Resources)
  BY DEF Typed, TypeOK, AppTypeOK
<1>2. 1 \in 1..Len(rest[d]) /\ Head(rest[d]) = rest[d][1]
  BY <1>1
<1> QED
  BY <1>1, <1>2, RestOfDatabases DEF HasDatabase

(***************************************************************************)
(* A resource that is done is not a database, or its migrations are.       *)
(***************************************************************************)
LEMMA ProvisionedKeeps ==
  ASSUME Typed, NEW d \in Deploys, MigrationOf(d), pc[d] \in Looking,
         rest[d] # <<>>, Provisioned(d), plan' = plan, Applied' = Applied,
         Head(rest[d]) \notin Databases \/ plan[d].files \subseteq Applied
  PROVE  MigrationOf(d)'
<1>1. /\ pc'[d] = "load" /\ rest'[d] = Tail(rest[d]) /\ files' = files
  BY DEF Provisioned, Goto, Typed, TypeOK, AppTypeOK
<1>2. HasDatabase(d)' \/ plan[d].files \subseteq Applied
  BY <1>1, HeadOfResources DEF MigrationOf, HasDatabase
<1> QED
  BY <1>1, <1>2 DEF MigrationOf, Migrating, Looking, Provisioning

\* Going on to the next resource keeps what is known of migrations.
LEMMA ReadyKeeps ==
  ASSUME Typed, NEW d \in Deploys, MigrationOf(d), pc[d] \in Looking,
         rest[d] # <<>>, Ready(d), plan' = plan, Applied' = Applied
  PROVE  MigrationOf(d)'
<1>1. pc \in [Deploys -> Calls] /\ files \in [Deploys -> SUBSET Files]
  BY DEF Typed, TypeOK, AppTypeOK, Calls, Over, Provisioning
<1>2. CASE Head(rest[d]) \in Databases /\ ~ Provisioned(d)
  <2>1. pc'[d] = "select" /\ rest' = rest /\ files'[d] = plan[d].files
    BY <1>1, <1>2, ResourcesAssumption DEF Ready, Goto
  <2>2. HasDatabase(d)'
    BY <1>2, <2>1, HeadOfResources DEF HasDatabase
  <2> QED
    BY <2>1, <2>2 DEF MigrationOf, Migrating
<1>3. CASE Head(rest[d]) \in Queues /\ ~ Provisioned(d)
  <2>1. pc'[d] = "consumers" /\ rest' = rest /\ files' = files
    BY <1>1, <1>3, ResourcesAssumption DEF Ready, Goto
  <2> QED
    BY <1>3, <2>1 DEF MigrationOf, Migrating, HasDatabase
<1>4. CASE Provisioned(d) /\ Head(rest[d]) \notin Databases
  BY <1>4, ProvisionedKeeps
<1>5. \/ Head(rest[d]) \in Databases /\ ~ Provisioned(d)
      \/ Head(rest[d]) \in Queues /\ ~ Provisioned(d)
      \/ Provisioned(d) /\ Head(rest[d]) \notin Databases
  <2>1. Ready(d) => \/ Head(rest[d]) \in Databases /\ pc'[d] = "select"
                    \/ Head(rest[d]) \in Queues /\ pc'[d] = "consumers"
                    \/ Provisioned(d) /\ Head(rest[d]) \notin Databases
    BY <1>1 DEF Ready, Goto
  <2>2. Provisioned(d) => pc'[d] = "load"
    BY <1>1 DEF Provisioned, Goto
  <2> QED
    BY <2>1, <2>2
<1> QED
  BY <1>2, <1>3, <1>4, <1>5

(***************************************************************************)
(* The deploy that takes a step keeps its part of the invariant.           *)
(***************************************************************************)
LEMMA ResourcesKeep ==
  ASSUME Typed, MigrationInv, NEW d \in Deploys,
         \/ LoadRecord(d) \/ Find(d) \/ Create(d) \/ Record(d)
         \/ SeekConsumer(d) \/ AddConsumer(d)
  PROVE  MigrationOf(d)'
<1>1. MigrationOf(d) /\ pc \in [Deploys -> Calls]
  BY DEF MigrationInv, Typed, TypeOK, AppTypeOK, Calls, Over, Provisioning
<1>2. plan' = plan /\ Applied' = Applied
  <2>1. UNCHANGED <<plan, applied>>
    BY DEF LoadRecord, Find, Create, Record, SeekConsumer, AddConsumer, local,
           database
  <2> QED
    BY <2>1 DEF Applied
<1>3. CASE LoadRecord(d)
  <2>1. CASE Ready(d)
    BY <1>1, <1>2, <1>3, <2>1, ReadyKeeps DEF LoadRecord, Looking
  <2>2. CASE ~ Ready(d)
    <3>1. pc[d] = "load" /\ pc'[d] = "find" /\ rest' = rest /\ files' = files
      BY <1>1, <1>3, <2>2 DEF LoadRecord, Goto
    <3> QED
      BY <1>1, <1>2, <3>1
         DEF MigrationOf, Migrating, Looking, Provisioning, HasDatabase
  <2> QED
    BY <2>1, <2>2
<1>4. CASE Find(d) \/ Create(d)
  <2>1. /\ pc[d] \in {"find", "create"} /\ rest' = rest /\ files' = files
        /\ pc'[d] \in {"create", "record", "refused"}
    BY <1>1, <1>4 DEF Find, Create, Goto, local
  <2> QED
    BY <1>1, <1>2, <2>1
       DEF MigrationOf, Migrating, Looking, Provisioning, HasDatabase
<1>5. CASE Record(d)
  <2>1. rest[d] # <<>> /\ pc[d] \in Looking
    BY <1>5 DEF Record, Typed, RestInv, Looking, Provisioning
  <2> QED
    BY <1>1, <1>2, <1>5, <2>1, ReadyKeeps DEF Record
<1>6. CASE SeekConsumer(d) \/ AddConsumer(d)
  <2>1. rest[d] # <<>> /\ pc[d] \in Looking /\ Head(rest[d]) \in Queues
    BY <1>1, <1>6 DEF SeekConsumer, AddConsumer, Typed, RestInv, Looking,
                      Provisioning, MigrationOf
  <2>2. CASE Provisioned(d)
    BY <1>1, <1>2, <2>1, <2>2, ResourcesAssumption, ProvisionedKeeps
  <2>3. CASE ~ Provisioned(d)
    <3>1. pc'[d] = "consume" /\ rest' = rest /\ files' = files
      BY <1>1, <1>6, <2>3 DEF SeekConsumer, AddConsumer, Goto
    <3> QED
      BY <1>1, <1>2, <2>1, <3>1
         DEF MigrationOf, Migrating, Looking, Provisioning, HasDatabase
  <2> QED
    BY <2>2, <2>3
<1> QED
  BY <1>3, <1>4, <1>5, <1>6

\* A file that the journal has was executed.
LEMMA SelectKeeps ==
  ASSUME Typed, MigrationInv, NEW d \in Deploys, Select(d)
  PROVE  MigrationOf(d)'
<1>1. /\ MigrationOf(d) /\ journal \subseteq Applied
      /\ pc[d] = "select" /\ rest[d] # <<>> /\ pc[d] \in Looking
  BY DEF MigrationInv, Select, Typed, RestInv, Looking, Provisioning
<1>2. plan' = plan /\ Applied' = Applied
  BY DEF Select, Applied, database
<1>3. /\ pc = [e \in Deploys |-> pc[e]]
      /\ files = [e \in Deploys |-> files[e]]
  BY DEF Typed, TypeOK, AppTypeOK
<1>4. CASE Provisioned(d) /\ files[d] = {}
  <2>1. plan[d].files \subseteq Applied
    BY <1>1, <1>4 DEF MigrationOf, Migrating
  <2> QED
    BY <1>1, <1>2, <1>4, <2>1, ProvisionedKeeps
<1>5. ASSUME NEW m \in journal, files' = [files EXCEPT ![d] = @ \ {m}],
             UNCHANGED <<pc, rest>>
      PROVE  MigrationOf(d)'
  <2>1. files'[d] = files[d] \ {m}
    BY <1>3, <1>5
  <2> QED
    BY <1>1, <1>2, <1>5, <2>1 DEF MigrationOf, Migrating, HasDatabase
<1>6. CASE Goto(d, "execute") /\ UNCHANGED <<rest, files>>
  <2>1. pc'[d] = "execute"
    BY <1>3, <1>6 DEF Goto
  <2> QED
    BY <1>1, <1>2, <1>6, <2>1
       DEF MigrationOf, Migrating, Looking, Provisioning, HasDatabase
<1> QED
  BY <1>4, <1>5, <1>6 DEF Select

\* A migration that was executed is applied.
LEMMA ExecuteKeeps ==
  ASSUME Typed, MigrationInv, NEW d \in Deploys, Execute(d)
  PROVE  MigrationOf(d)'
<1>1. MigrationOf(d) /\ pc[d] = "execute" /\ UNCHANGED <<plan, rest, files>>
  BY DEF MigrationInv, Execute, local
<1>2. PICK m \in files[d] :
        /\ Due(d, m)
        /\ \/ Applied' = Applied \cup {m} /\ pc'[d] = "insert"
           \/ Applied' = Applied /\ pc'[d] = "refused"
  BY Executed
<1>3. \A n \in files[d] : Due(d, n) => n = m
  BY <1>2, DueIsOne
<1> QED
  BY <1>1, <1>2, <1>3
     DEF MigrationOf, Migrating, Looking, Provisioning, HasDatabase, Due

\* A row is of a migration that was executed.
LEMMA InsertKeeps ==
  ASSUME Typed, MigrationInv, NEW d \in Deploys, Insert(d)
  PROVE  MigrationOf(d)' /\ journal' \subseteq Applied /\ Applied' = Applied
<1>1. /\ MigrationOf(d) /\ pc[d] = "insert" /\ UNCHANGED <<plan, rest, applied>>
      /\ journal \subseteq Applied
  BY DEF MigrationInv, Insert
<1>2. /\ pc = [e \in Deploys |-> pc[e]]
      /\ files = [e \in Deploys |-> files[e]]
  BY DEF Typed, TypeOK, AppTypeOK
<1>3. PICK m \in files[d] :
        /\ Due(d, m)
        /\ \/ /\ journal' = journal \cup {m} /\ pc'[d] = "select"
              /\ files'[d] = files[d] \ {m}
           \/ UNCHANGED <<journal, files>> /\ pc'[d] = "refused"
  BY <1>2 DEF Insert, Goto
<1>4. m \in Applied /\ Applied' = Applied
  BY <1>1, <1>3 DEF MigrationOf, Applied
<1> QED
  BY <1>1, <1>3, <1>4
     DEF MigrationOf, Migrating, Looking, Provisioning, HasDatabase

\* Past its databases a deploy has all its migrations.
LEMMA PublishKeeps ==
  ASSUME Typed, MigrationInv, NEW d \in Deploys,
         \/ Begin(d) \/ LoadClasses(d) \/ ReadTag(d) \/ Upload(d)
         \/ \E c \in Classes : RecordClass(d, c)
         \/ Publish(d) \/ PutAssets(d) \/ PutManifest(d)
         \/ StoreRecord(d) \/ StoreScript(d) \/ Finish(d) \/ Stop(d)
  PROVE  MigrationOf(d)'
<1>1. MigrationOf(d) /\ pc = [e \in Deploys |-> pc[e]]
  BY DEF MigrationInv, Typed, TypeOK, AppTypeOK
<1>2. plan' = plan /\ files' = files /\ Applied' = Applied
  <2>1. UNCHANGED <<plan, files, applied>>
    BY DEF Begin, LoadClasses, ReadTag, Upload, RecordClass, Publish, PutAssets,
           PutManifest, StoreRecord, StoreScript, Finish, Stop, local, database
  <2> QED
    BY <2>1 DEF Applied
<1>3. CASE Begin(d)
  <2>1. pc'[d] = "load" /\ rest'[d] = plan[d].uses
    BY <1>1, <1>3 DEF Begin, Goto, Typed, TypeOK, AppTypeOK
  <2>2. plan[d].files # {} => HasDatabase(d)'
    BY <1>2, <2>1, PlansAssumption
       DEF HasDatabase, Typed, TypeOK, AppTypeOK
  <2> QED
    BY <1>1, <1>2, <2>1, <2>2 DEF MigrationOf, Migrating
<1>4. CASE LoadClasses(d)
  <2>1. plan[d].files \subseteq Applied
    BY <1>1, <1>4 DEF LoadClasses, MigrationOf, HasDatabase, Looking
  <2>2. pc'[d] \in {"upload", "tag"}
    BY <1>1, <1>4 DEF LoadClasses, Goto
  <2> QED
    BY <1>1, <1>2, <2>1, <2>2 DEF MigrationOf, Migrating, Looking, Provisioning
<1>5. CASE ReadTag(d)
  <2>1. pc[d] = "tag" /\ pc'[d] = "upload"
    BY <1>1, <1>5 DEF ReadTag, Goto
  <2> QED
    BY <1>1, <1>2, <2>1 DEF MigrationOf, Migrating, Looking, Provisioning
<1>6. CASE StoreRecord(d) \/ StoreScript(d) \/ \E c \in Classes : RecordClass(d, c)
  <2>1. UNCHANGED <<pc, rest>>
    BY <1>6 DEF StoreRecord, StoreScript, RecordClass
  <2> QED
    BY <1>1, <1>2, <2>1 DEF MigrationOf, HasDatabase, Due
<1>7. CASE \/ Upload(d) \/ Publish(d) \/ PutAssets(d) \/ PutManifest(d)
           \/ Finish(d) \/ Stop(d)
  <2>1. pc'[d] \in {"classes", "refused", "assets", "store", "manifest", "done",
                    "failed"}
    BY <1>1, <1>7
       DEF Upload, Publish, PutAssets, PutManifest, Finish, Stop, Goto
  <2> QED
    BY <1>1, <1>2, <2>1 DEF MigrationOf, Migrating, Looking, Provisioning
<1> QED
  BY <1>3, <1>4, <1>5, <1>6, <1>7

\* Every step keeps what deploys know of their migrations.
LEMMA MigrationStep ==
  ASSUME Typed, MigrationInv, [Next]_vars
  PROVE  MigrationInv'
<1>1. ASSUME NEW d \in Deploys, Deploy(d)
      PROVE  MigrationInv'
  <2>1. MigrationOf(d)'
    BY <1>1, ResourcesKeep, SelectKeeps, ExecuteKeeps, InsertKeeps, PublishKeeps
       DEF Deploy
  <2>2. \A e \in Deploys : e # d => MigrationOf(e)'
    BY <1>1, MigrationOfOthers
  <2>3. journal' \subseteq Applied'
    <3>1. CASE Insert(d)
      BY <3>1, InsertKeeps
    <3>2. CASE journal' = journal
      BY <1>1, <3>2, AppliedGrows DEF MigrationInv
    <3> QED
      BY <1>1, <3>1, <3>2, DatabaseStays
  <2> QED
    BY <2>1, <2>2, <2>3 DEF MigrationInv
<1>2. ASSUME UNCHANGED <<pc, local, database>>
      PROVE  MigrationInv'
  BY <1>2 DEF MigrationInv, MigrationOf, HasDatabase, Due, Applied, local, database
<1> QED
  BY <1>1, <1>2, SweepStep DEF Next, SweepDeletes, vars, appVars

\* An upload comes after the migrations of its code.
LEMMA SchemaStep ==
  ASSUME Typed, MigrationInv, SchemaBeforeCode, [Next]_vars
  PROVE  SchemaBeforeCode'
<1>1. scripts \in [Names -> Script]
  BY DEF Typed, TypeOK, AppTypeOK
<1>2. ASSUME NEW d \in Deploys, Deploy(d)
      PROVE  SchemaBeforeCode'
  <2>1. Applied \subseteq Applied'
    BY <1>2, AppliedGrows
  <2>2. CASE \A n \in Names : scripts'[n] = scripts[n]
    BY <2>1, <2>2 DEF SchemaBeforeCode
  <2>3. CASE Upload(d)
    <3>1. scripts' = scripts \/ scripts' = [scripts EXCEPT ![ScriptName(d)] = Uploaded(d)]
      BY <2>3 DEF Upload
    <3>2. Uploaded(d).files \subseteq Applied
      BY <2>3 DEF Upload, Uploaded, MigrationInv, MigrationOf
    <3>3. \A n \in Names : scripts'[n] = scripts[n] \/ scripts'[n] = Uploaded(d)
      BY <1>1, <3>1
    <3> QED
      BY <2>1, <3>2, <3>3 DEF SchemaBeforeCode
  <2> QED
    BY <1>2, <2>2, <2>3, DatabaseStays
<1>3. CASE Sweep
  <2>1. Applied' = Applied
    BY <1>3, SweepStep DEF SweepDeletes, database, Applied
  <2>2. \A n \in Names : scripts'[n] = scripts[n] \/ scripts'[n] = NoScript
    BY <1>1, <1>3, SweepStep DEF SweepDeletes
  <2> QED
    BY <2>1, <2>2 DEF SchemaBeforeCode, NoScript
<1>4. CASE UNCHANGED vars
  BY <1>4 DEF vars, appVars, live, database, SchemaBeforeCode, Applied
<1> QED
  BY <1>2, <1>3, <1>4 DEF Next

(***************************************************************************)
(* What an execution appends comes after everything that sorts before it.  *)
(***************************************************************************)
LEMMA OrderStep ==
  ASSUME Typed, MigrationInv, AppliedInOrder, [Next]_vars
  PROVE  AppliedInOrder'
<1>1. applied \in Seq([file : Files, by : Deploys])
  BY DEF Typed, TypeOK, AppTypeOK
<1>2. ASSUME UNCHANGED <<plan, applied>>
      PROVE  AppliedInOrder'
  BY <1>2 DEF AppliedInOrder
<1>3. ASSUME NEW d \in Deploys, Execute(d)
      PROVE  AppliedInOrder'
  <2>1. PICK m \in files[d] :
          /\ Due(d, m)
          /\ \/ applied' = Append(applied, [file |-> m, by |-> d])
             \/ applied' = applied
    BY <1>3, Executed
  <2>2. plan' = plan
    BY <1>3 DEF Execute, local
  <2>3. CASE applied' = Append(applied, [file |-> m, by |-> d])
    <3>1. /\ Len(applied') = Len(applied) + 1 /\ Len(applied) \in Nat
          /\ applied'[Len(applied) + 1] = [file |-> m, by |-> d]
          /\ \A i \in 1..Len(applied) : applied'[i] = applied[i]
      BY <1>1, <2>3
    <3>2. ASSUME NEW n \in Files, n \in plan[d].files, n < m
          PROVE  \E j \in 1..Len(applied) : applied[j].file = n
      <4>1. m \in Nat /\ n \in Nat
        BY <2>1, <3>2, DueIsOne, FilesAssumption
      <4>2. n \notin files[d]
        BY <2>1, <3>2, <4>1 DEF Due
      <4>3. n \in Applied
        BY <1>3, <3>2, <4>2
           DEF Execute, MigrationInv, MigrationOf, Migrating
      <4> QED
        BY <4>3 DEF Applied
    <3>3. ASSUME NEW i \in 1..Len(applied'), NEW n \in Files,
                 n \in plan[applied'[i].by].files, n < applied'[i].file
          PROVE  \E j \in 1..i : applied'[j].file = n
      <4>1. CASE i = Len(applied) + 1
        <5>1. PICK j \in 1..Len(applied) : applied[j].file = n
          BY <3>1, <3>2, <3>3, <4>1
        <5> QED
          BY <3>1, <4>1, <5>1
      <4>2. CASE i \in 1..Len(applied)
        <5>1. PICK j \in 1..i : applied[j].file = n
          BY <3>1, <3>3, <4>2 DEF AppliedInOrder
        <5>2. j \in 1..Len(applied)
          BY <3>1, <4>2, <5>1
        <5> QED
          BY <3>1, <5>1, <5>2
      <4> QED
        BY <3>1, <3>3, <4>1, <4>2
    <3> QED
      BY <2>2, <3>3 DEF AppliedInOrder
  <2> QED
    BY <1>2, <2>1, <2>2, <2>3
<1>4. ASSUME NEW d \in Deploys, Deploy(d)
      PROVE  plan' = plan /\ (applied' = applied \/ Execute(d))
  BY <1>4, OthersStay, DatabaseStays DEF Others
<1>5. Sweep \/ UNCHANGED vars => UNCHANGED <<plan, applied>>
  BY SweepStep DEF SweepDeletes, vars, appVars, local, database
<1> QED
  BY <1>2, <1>3, <1>4, <1>5 DEF Next

-----------------------------------------------------------------------------
(* Applied once *)

\* Deploys that run at the same time have met.
MetInv ==
  \A d, e \in Deploys : d # e /\ Running(d) /\ Running(e) => {d, e} \in met

(***************************************************************************)
(* An executed migration is recorded, or about to be, or never will be; a  *)
(* deploy executes a recorded one only if another one recorded it while it *)
(* ran.                                                                    *)
(***************************************************************************)
OnceInv ==
  /\ \A m \in Applied :
       \/ m \in journal \/ m \in torn
       \/ \E e \in Deploys : pc[e] = "insert" /\ Due(e, m)
  /\ \A d \in Deploys : \A m \in journal :
       pc[d] = "execute" /\ Due(d, m)
         => \E e \in Deploys : {d, e} \in met /\ m \in plan[e].files

\* A deploy starts to run only by beginning.
LEMMA BeginningMeets ==
  ASSUME Typed, NEW d \in Deploys, Deploy(d), ~ Running(d), Running(d)'
  PROVE  Begin(d)
<1>1. pc[d] \in Over /\ pc'[d] # pc[d]
  BY DEF Running
<1>2. pc[d] \in Over /\ pc = [e \in Deploys |-> pc[e]]
  BY <1>1 DEF Typed, TypeOK, AppTypeOK
<1> USE <1>1, <1>2 DEF Goto, Over, Running
<1>3. CASE Find(d) \/ Create(d) \/ Record(d) \/ SeekConsumer(d) \/ AddConsumer(d)
           \/ LoadRecord(d) \/ Select(d) \/ Execute(d) \/ Insert(d)
           \/ LoadClasses(d) \/ ReadTag(d)
  BY <1>3 DEF LoadRecord, Find, Create, Record, SeekConsumer, AddConsumer,
              Select, Execute, Insert, LoadClasses, ReadTag
<1>4. CASE \/ Upload(d) \/ Publish(d) \/ PutAssets(d) \/ PutManifest(d)
           \/ Finish(d) \/ Stop(d)
           \/ StoreRecord(d) \/ StoreScript(d) \/ \E c \in Classes : RecordClass(d, c)
  BY <1>4 DEF Upload, Publish, PutAssets, PutManifest, StoreRecord, StoreScript,
              Finish, Stop, RecordClass
<1> QED
  BY <1>3, <1>4 DEF Deploy

\* Deploys that run at the same time have met.
LEMMA MetStep ==
  ASSUME Typed, MetInv, [Next]_vars
  PROVE  MetInv'
<1>1. ASSUME UNCHANGED <<pc, met>>
      PROVE  MetInv'
  BY <1>1 DEF MetInv, Running
<1>2. ASSUME NEW d \in Deploys, Deploy(d)
      PROVE  MetInv'
  <2>1. Others(d)
    BY <1>2, OthersStay
  <2>2. \A e \in Deploys : e # d => Running(e)' = Running(e)
    BY <2>1 DEF Others, Running
  <2>3. \A e \in Deploys :
          Running(d)' /\ ~ Running(d) /\ Running(e) => {d, e} \in met'
    BY <1>2, BeginningMeets DEF Begin
  <2>4. ASSUME NEW e \in Deploys, NEW f \in Deploys, e # f,
               Running(e)', Running(f)'
        PROVE  {e, f} \in met'
    <3>1. {e, f} = {f, e}
      OBVIOUS
    <3> QED
      BY <2>1, <2>2, <2>3, <2>4, <3>1 DEF MetInv, Others
  <2> QED
    BY <2>4 DEF MetInv
<1>3. Sweep \/ UNCHANGED vars => UNCHANGED <<pc, met>>
  BY SweepStep DEF SweepDeletes, history, vars, appVars
<1> QED
  BY <1>1, <1>2, <1>3 DEF Next

(***************************************************************************)
(* A step of d that neither executes nor records a migration.              *)
(***************************************************************************)
LEMMA OnceOtherwise ==
  ASSUME Typed, OnceInv, NEW d \in Deploys, Deploy(d),
         ~ Execute(d), ~ Insert(d)
  PROVE  OnceInv'
<1>1. UNCHANGED <<applied, journal>> /\ Others(d)
  BY DatabaseStays, OthersStay
<1>2. Applied' = Applied
  BY <1>1 DEF Applied
<1>3. pc = [e \in Deploys |-> pc[e]]
  BY DEF Typed, TypeOK, AppTypeOK
<1>4. \A e \in Deploys, m \in Files : e # d => Due(e, m)' = Due(e, m)
  BY <1>1 DEF Due, Others
<1>5. pc[d] = "insert" =>
        \/ UNCHANGED <<pc, files>>
        \/ torn' = torn \cup {m \in files[d] : Due(d, m)}
  <2>1. CASE StoreRecord(d) \/ StoreScript(d) \/ Stop(d)
             \/ \E c \in Classes : RecordClass(d, c)
    BY <2>1 DEF StoreRecord, StoreScript, Stop, RecordClass
  <2>2. CASE \/ Begin(d) \/ LoadRecord(d) \/ Find(d) \/ Create(d) \/ Record(d)
             \/ SeekConsumer(d) \/ AddConsumer(d) \/ Select(d)
             \/ LoadClasses(d) \/ ReadTag(d) \/ Upload(d) \/ Publish(d)
             \/ PutAssets(d) \/ PutManifest(d) \/ Finish(d)
    BY <2>2 DEF Begin, LoadRecord, Find, Create, Record, SeekConsumer,
                AddConsumer, Select, LoadClasses, ReadTag, Upload, Publish,
                PutAssets, PutManifest, Finish
  <2> QED
    BY <2>1, <2>2 DEF Deploy
<1>6. \A m \in Files : pc'[d] = "execute" /\ Due(d, m)' =>
        m \notin journal \/ (pc[d] = "execute" /\ Due(d, m))
  <2>1. CASE Select(d)
    <3>1. CASE Goto(d, "execute") /\ UNCHANGED <<rest, files>>
               /\ \E m \in files[d] : Due(d, m) /\ m \notin journal
      BY <3>1, DueIsOne DEF Due
    <3>2. CASE Provisioned(d) \/ UNCHANGED <<pc, rest>>
      BY <1>3, <2>1, <3>2 DEF Provisioned, Goto, Select
    <3> QED
      BY <2>1, <3>1, <3>2 DEF Select
  <2>2. CASE StoreRecord(d) \/ StoreScript(d) \/ \E c \in Classes : RecordClass(d, c)
    BY <2>2 DEF StoreRecord, StoreScript, RecordClass, Due
  <2>3. CASE LoadRecord(d) \/ Record(d) \/ SeekConsumer(d) \/ AddConsumer(d)
    BY <1>3, <2>3 DEF LoadRecord, Record, SeekConsumer, AddConsumer, Ready,
                      Provisioned, Goto
  <2>4. CASE \/ Begin(d) \/ Find(d) \/ Create(d)
             \/ LoadClasses(d) \/ ReadTag(d) \/ Upload(d) \/ Publish(d)
             \/ PutAssets(d) \/ PutManifest(d) \/ Finish(d) \/ Stop(d)
    BY <1>3, <2>4 DEF Begin, Find, Create, LoadClasses, ReadTag, Upload, Publish,
                      PutAssets, PutManifest, Finish, Stop, Goto
  <2> QED
    BY <2>1, <2>2, <2>3, <2>4 DEF Deploy
<1>7. Applied \subseteq Files /\ journal \subseteq Files
  <2>1. applied \in Seq([file : Files, by : Deploys])
    BY DEF Typed, TypeOK, AppTypeOK
  <2>2. \A i \in 1..Len(applied) : applied[i] \in [file : Files, by : Deploys]
    BY <2>1, ElementOfSeq
  <2>3. \A i \in 1..Len(applied) : applied[i].file \in Files
    BY <2>2
  <2> QED
    BY <2>3 DEF Applied, Typed, TypeOK, AppTypeOK
<1>8. ASSUME NEW m \in Applied
      PROVE  \/ m \in journal \/ m \in torn'
             \/ \E e \in Deploys : pc'[e] = "insert" /\ Due(e, m)'
  <2>1. CASE m \in journal \/ m \in torn
    BY <1>1, <2>1 DEF Others
  <2>2. ASSUME NEW e \in Deploys, pc[e] = "insert", Due(e, m), e # d
        PROVE  pc'[e] = "insert" /\ Due(e, m)'
    BY <1>1, <1>4, <1>7, <2>2 DEF Others
  <2>3. CASE pc[d] = "insert" /\ Due(d, m)
    <3>1. CASE UNCHANGED <<pc, files>>
      BY <2>3, <3>1 DEF Due
    <3>2. CASE torn' = torn \cup {n \in files[d] : Due(d, n)}
      BY <2>3, <3>2 DEF Due
    <3> QED
      BY <1>5, <2>3, <3>1, <3>2
  <2> QED
    BY <2>1, <2>2, <2>3 DEF OnceInv
<1>9. ASSUME NEW e \in Deploys, NEW m \in journal, pc'[e] = "execute", Due(e, m)'
      PROVE  \E f \in Deploys : {e, f} \in met' /\ m \in plan'[f].files
  <2>1. pc[e] = "execute" /\ Due(e, m)
    BY <1>1, <1>4, <1>6, <1>7, <1>9 DEF Others
  <2> QED
    BY <1>1, <2>1 DEF OnceInv, Others
<1> QED
  BY <1>1, <1>2, <1>8, <1>9 DEF OnceInv

\* A migration that was executed is about to be recorded, or torn.
LEMMA OnceExecute ==
  ASSUME Typed, OnceInv, NEW d \in Deploys, Execute(d)
  PROVE  OnceInv'
<1>1. /\ pc[d] = "execute" /\ UNCHANGED <<plan, files, journal, met, torn>>
  BY DEF Execute, local, history
<1>2. PICK m \in files[d] :
        /\ Due(d, m)
        /\ \/ Applied' = Applied \cup {m} /\ pc'[d] = "insert"
           \/ Applied' = Applied /\ pc'[d] = "refused"
  BY Executed
<1>3. \A e \in Deploys : e # d => pc'[e] = pc[e]
  BY DEF Execute, Goto, Typed, TypeOK, AppTypeOK
<1>4. \A e, n : Due(e, n)' = Due(e, n)
  BY <1>1 DEF Due
<1>5. \A n \in Applied' :
        \/ n \in journal' \/ n \in torn'
        \/ \E e \in Deploys : pc'[e] = "insert" /\ Due(e, n)'
  BY <1>1, <1>2, <1>3, <1>4 DEF OnceInv
<1>6. \A e \in Deploys : pc'[e] = "execute" => pc[e] = "execute"
  BY <1>1, <1>2, <1>3
<1> QED
  BY <1>1, <1>4, <1>5, <1>6 DEF OnceInv

\* A migration that is recorded was executed.
LEMMA OnceInsert ==
  ASSUME Typed, MigrationInv, MetInv, OnceInv, NEW d \in Deploys, Insert(d)
  PROVE  OnceInv'
<1>1. pc[d] = "insert" /\ UNCHANGED <<plan, met, torn>> /\ Applied' = Applied
  BY InsertKeeps DEF Insert, history
<1>2. /\ pc = [e \in Deploys |-> pc[e]]
      /\ files = [e \in Deploys |-> files[e]]
  BY DEF Typed, TypeOK, AppTypeOK
<1>3. PICK m \in files[d] :
        /\ Due(d, m) /\ m \in journal' /\ journal' \subseteq journal \cup {m}
        /\ journal \subseteq journal'
        /\ pc'[d] \in {"select", "refused"}
  BY <1>2 DEF Insert, Goto
<1>4. \A e \in Deploys : e # d => pc'[e] = pc[e] /\ files'[e] = files[e]
  BY <1>2 DEF Insert, Goto
<1>5. \A e \in Deploys : \A n : e # d => Due(e, n)' = Due(e, n)
  BY <1>4 DEF Due
<1>6. \A n \in Applied' :
        \/ n \in journal' \/ n \in torn'
        \/ \E e \in Deploys : pc'[e] = "insert" /\ Due(e, n)'
  <2>1. \A n : Due(d, n) => n = m
    BY <1>3, DueIsOne
  <2> QED
    BY <1>1, <1>3, <1>4, <1>5, <2>1 DEF OnceInv
<1>7. ASSUME NEW e \in Deploys, NEW n \in journal', pc'[e] = "execute", Due(e, n)'
      PROVE  \E f \in Deploys : {e, f} \in met' /\ n \in plan'[f].files
  <2>1. e # d /\ pc[e] = "execute" /\ Due(e, n)
    BY <1>3, <1>4, <1>5, <1>7
  <2>2. CASE n \in journal
    BY <1>1, <2>1, <2>2 DEF OnceInv
  <2>3. CASE n = m
    <3>1. {e, d} \in met
      BY <1>1, <2>1 DEF MetInv, Running, Over
    <3>2. m \in plan[d].files
      BY <1>3 DEF MigrationInv, MigrationOf
    <3> QED
      BY <1>1, <2>3, <3>1, <3>2
  <2> QED
    BY <1>3, <2>2, <2>3
<1> QED
  BY <1>6, <1>7 DEF OnceInv

\* Every step keeps what was executed accounted for.
LEMMA OnceStep ==
  ASSUME Typed, MigrationInv, MetInv, OnceInv, [Next]_vars
  PROVE  OnceInv'
<1>1. ASSUME UNCHANGED <<pc, plan, files, applied, journal, met, torn>>
      PROVE  OnceInv'
  BY <1>1 DEF OnceInv, Applied, Due
<1>2. Sweep \/ UNCHANGED vars
        => UNCHANGED <<pc, plan, files, applied, journal, met, torn>>
  BY SweepStep DEF SweepDeletes, local, database, history, vars, appVars
<1> QED
  BY <1>1, <1>2, OnceOtherwise, OnceExecute, OnceInsert DEF Next

\* A second execution is excused by a meeting or a torn migration.
LEMMA AppliedOnceStep ==
  ASSUME Typed, MigrationInv, MetInv, OnceInv, AppliedOnce, [Next]_vars
  PROVE  AppliedOnce'
<1> DEFINE Excused(m) ==
      \/ m \in torn
      \/ \E d, e \in Deploys :
           {d, e} \in met /\ m \in plan[d].files \cap plan[e].files
<1>1. applied \in Seq([file : Files, by : Deploys])
  BY DEF Typed, TypeOK, AppTypeOK
<1>2. /\ plan' = plan /\ met \subseteq met' /\ torn \subseteq torn'
      /\ applied' = applied \/ \E d \in Deploys : Execute(d)
  <2>1. CASE Sweep \/ UNCHANGED vars
    BY <2>1, SweepStep
       DEF SweepDeletes, local, database, history, vars, appVars
  <2>2. CASE \E d \in Deploys : Deploy(d)
    BY <2>2, OthersStay, DatabaseStays DEF Others
  <2> QED
    BY <2>1, <2>2 DEF Next
<1>3. \A i, j \in 1..Len(applied) :
        i # j /\ applied[i].file = applied[j].file => Excused(applied[i].file)
  BY DEF AppliedOnce
<1>5. SUFFICES ASSUME NEW i \in 1..Len(applied'), NEW j \in 1..Len(applied'),
                      i # j, applied'[i].file = applied'[j].file
               PROVE  Excused(applied'[i].file)
  <2>1. ASSUME NEW i \in 1..Len(applied'), NEW j \in 1..Len(applied'),
               i # j, applied'[i].file = applied'[j].file,
               Excused(applied'[i].file)
        PROVE  \/ applied'[i].file \in torn'
               \/ \E d, e \in Deploys :
                    /\ {d, e} \in met'
                    /\ applied'[i].file \in plan'[d].files \cap plan'[e].files
    BY <1>2, <2>1
  <2> HIDE DEF Excused
  <2> QED
    BY <2>1 DEF AppliedOnce
<1>6. CASE applied' = applied
  BY <1>3, <1>5, <1>6
<1>7. ASSUME NEW d \in Deploys, Execute(d)
      PROVE  Excused(applied'[i].file)
  <2>1. PICK m \in files[d] :
          /\ Due(d, m)
          /\ applied' \in {applied, Append(applied, [file |-> m, by |-> d])}
    BY <1>7, Executed
  <2>2. CASE applied' = Append(applied, [file |-> m, by |-> d])
    <3>1. /\ Len(applied') = Len(applied) + 1 /\ Len(applied) \in Nat
          /\ applied'[Len(applied) + 1] = [file |-> m, by |-> d]
          /\ \A k \in 1..Len(applied) : applied'[k] = applied[k]
      BY <1>1, <2>2
    <3>2. ASSUME m \in Applied
          PROVE  Excused(m)
      <4>1. pc[d] = "execute" /\ m \in plan[d].files
        BY <1>7, <2>1 DEF Execute, MigrationInv, MigrationOf
      <4>2. CASE m \in journal
        BY <2>1, <4>1, <4>2 DEF OnceInv
      <4>3. ASSUME NEW e \in Deploys, pc[e] = "insert", Due(e, m)
            PROVE  Excused(m)
        <5>1. {d, e} \in met
          BY <4>1, <4>3 DEF MetInv, Running, Over
        <5>2. m \in plan[e].files
          BY <4>3 DEF Due, MigrationInv, MigrationOf
        <5> QED
          BY <4>1, <5>1, <5>2
      <4> QED
        BY <3>2, <4>2, <4>3 DEF OnceInv
    <3>3. CASE i \in 1..Len(applied) /\ j \in 1..Len(applied)
      BY <1>3, <1>5, <3>1, <3>3
    <3>4. CASE i = Len(applied) + 1 \/ j = Len(applied) + 1
      <4>1. applied'[i].file = m /\ m \in Applied
        BY <1>5, <3>1, <3>4 DEF Applied
      <4> QED
        BY <3>2, <4>1
    <3>5. \/ i \in 1..Len(applied) /\ j \in 1..Len(applied)
          \/ i = Len(applied) + 1 \/ j = Len(applied) + 1
      BY <3>1
    <3> QED
      BY <3>3, <3>4, <3>5
  <2> QED
    BY <1>6, <2>1, <2>2
<1> QED
  BY <1>2, <1>6, <1>7

-----------------------------------------------------------------------------

MigrationsInv ==
  /\ Typed /\ SweepTypeOK /\ MigrationInv /\ MetInv /\ OnceInv
  /\ SchemaBeforeCode /\ AppliedInOrder /\ AppliedOnce

\* At first nothing was executed.
LEMMA MigrationsInit == Init => MigrationsInv
<1> SUFFICES ASSUME Init PROVE MigrationsInv
  OBVIOUS
<1>1. Typed /\ SweepTypeOK
  BY InitType DEF Init, AppInit, TypeOK, SweepTypeOK, RestInv, Provisioning, Typed
<1>2. applied = <<>> /\ Applied = {} /\ journal = {}
      /\ \A d \in Deploys : pc[d] = "new" /\ files[d] = {}
  BY DEF Init, AppInit, Applied
<1>3. SchemaBeforeCode
  BY PastsAssumption DEF Init, AppInit, SchemaBeforeCode
<1> QED
  BY <1>1, <1>2, <1>3
     DEF MigrationsInv, MigrationInv, MigrationOf, Migrating, Looking,
         Provisioning, MetInv, Running, Over, OnceInv, AppliedInOrder, AppliedOnce

\* The parts about migrations are an invariant.
LEMMA MigrationsHold == Spec => []MigrationsInv
<1>1. MigrationsInv /\ [Next]_vars => MigrationsInv'
  BY TypeStep, MigrationStep, MetStep, OnceStep, SchemaStep, OrderStep,
     AppliedOnceStep DEF MigrationsInv, Typed
<1> QED
  BY <1>1, MigrationsInit, PTL DEF Spec

(***************************************************************************)
(* The migrations of every published script have been executed, whatever   *)
(* deploys overlap or end and whatever the cleanup deletes.                *)
(***************************************************************************)
THEOREM CodeHasItsSchema == Spec => []SchemaBeforeCode
<1>1. MigrationsInv => SchemaBeforeCode
  BY DEF MigrationsInv
<1> QED
  BY <1>1, MigrationsHold, PTL

(***************************************************************************)
(* Every deploy executes its migrations in the order of their names, and   *)
(* skips none that is not executed yet.                                    *)
(***************************************************************************)
THEOREM MigrationsAreOrdered == Spec => []AppliedInOrder
<1>1. MigrationsInv => AppliedInOrder
  BY DEF MigrationsInv
<1> QED
  BY <1>1, MigrationsHold, PTL

(***************************************************************************)
(* A migration is executed twice only when a deploy ended between          *)
(* executing and recording it or two deploys that have it overlapped.      *)
(***************************************************************************)
THEOREM MigrationsAreAppliedOnce == Spec => []AppliedOnce
<1>1. MigrationsInv => AppliedOnce
  BY DEF MigrationsInv
<1> QED
  BY <1>1, MigrationsHold, PTL
-----------------------------------------------------------------------------
(* Classes *)

(***************************************************************************)
(* The calls that a deploy makes next, and who touches what Cloudflare and *)
(* W7S know of the classes.                                                *)
(***************************************************************************)
LEMMA ClassShapes ==
  ASSUME Typed
  PROVE  /\ pc = [e \in Deploys |-> pc[e]] /\ rest = [e \in Deploys |-> rest[e]]
         /\ files = [e \in Deploys |-> files[e]]
         /\ fresh = [e \in Deploys |-> fresh[e]]
         /\ seen = [e \in Deploys |-> seen[e]]
         /\ puts = [e \in Deploys |-> puts[e]]
         /\ scripts = [n \in Names |-> scripts[n]]
  BY DEF Typed, TypeOK, AppTypeOK

Classing(d) == \/ LoadClasses(d) \/ ReadTag(d) \/ Upload(d)
               \/ \E c \in Classes : RecordClass(d, c)

\* What the steps of a deploy leave of classes and scripts.
LEMMA ClassesStay ==
  ASSUME Typed, NEW d \in Deploys, Deploy(d)
  PROVE  /\ first' = first /\ halted \subseteq halted'
         /\ \A e \in Deploys : e # d => fresh'[e] = fresh[e] /\ seen'[e] = seen[e]
         /\ Classing(d) \/ UNCHANGED <<fresh, seen, classRecords, scripts>>
         /\ exists' = exists \/ Create(d)
<1> USE ClassShapes DEF local, cloud, live, history
<1>1. CASE Classing(d)
  BY <1>1 DEF Classing, LoadClasses, ReadTag, Upload, RecordClass
<1>2. CASE \/ Begin(d) \/ Find(d) \/ Create(d)
           \/ Publish(d) \/ PutAssets(d) \/ PutManifest(d)
           \/ StoreRecord(d) \/ StoreScript(d) \/ Finish(d) \/ Stop(d)
  BY <1>2 DEF Begin, Find, Create, Publish, PutAssets, PutManifest,
              StoreRecord, StoreScript, Finish, Stop
<1>3. CASE \/ LoadRecord(d) \/ Record(d) \/ SeekConsumer(d) \/ AddConsumer(d)
           \/ Select(d) \/ Execute(d) \/ Insert(d)
  BY <1>3 DEF LoadRecord, Record, SeekConsumer, AddConsumer, Select, Execute,
              Insert
<1> QED
  BY <1>1, <1>2, <1>3 DEF Deploy, Classing

\* By which steps a deploy comes to create, to insert and to be refused.
LEMMA CallsReached ==
  ASSUME Typed, NEW d \in Deploys, Deploy(d)
  PROVE  /\ pc'[d] = "create" =>
              Find(d) \/ (pc[d] = "create" /\ rest'[d] = rest[d])
         /\ pc'[d] = "insert" =>
              Execute(d) \/ (pc[d] = "insert" /\ files'[d] = files[d])
         /\ pc'[d] = "refused" =>
              \/ Create(d) \/ Execute(d) \/ Insert(d) \/ Upload(d)
              \/ pc[d] = "refused" /\ seen'[d] = seen[d]
         /\ pc'[d] \in {"tag", "upload"} =>
              \/ LoadClasses(d) \/ ReadTag(d)
              \/ pc'[d] = pc[d] /\ UNCHANGED <<fresh, seen, classRecords, scripts>>
         /\ pc[d] = "classes" =>
              \/ pc'[d] = "classes" \/ fresh[d] = {} \/ d \in halted'
         /\ pc'[d] = "classes" => Upload(d) \/ pc[d] = "classes"
<1> USE ClassShapes DEF local, cloud, live, history, Goto
<1>1. CASE LoadClasses(d) \/ ReadTag(d) \/ Upload(d)
  BY <1>1 DEF LoadClasses, ReadTag, Upload
<1>2. CASE \E c \in Classes : RecordClass(d, c)
  BY <1>2 DEF RecordClass
<1>3. CASE \/ Begin(d) \/ Find(d) \/ Create(d)
           \/ Publish(d) \/ PutAssets(d) \/ PutManifest(d)
  BY <1>3 DEF Begin, Find, Create, Publish, PutAssets, PutManifest
<1>4. CASE StoreRecord(d) \/ StoreScript(d) \/ Finish(d) \/ Stop(d)
  BY <1>4 DEF StoreRecord, StoreScript, Finish, Stop
<1>5. CASE LoadRecord(d) \/ Record(d) \/ SeekConsumer(d) \/ AddConsumer(d)
  BY <1>5 DEF LoadRecord, Record, SeekConsumer, AddConsumer, Ready, Provisioned
<1>6. CASE Select(d) \/ Execute(d) \/ Insert(d)
  BY <1>6 DEF Select, Execute, Insert, Provisioned
<1> QED
  BY <1>1, <1>2, <1>3, <1>4, <1>5, <1>6 DEF Deploy

(***************************************************************************)
(* The script of the app's classes, StableName, as its deploys see it.     *)
(* Its tag tells whether it has classes.  What W7S has recorded of them it *)
(* has, until a cleanup sweeps it; what it has is recorded, or being       *)
(* recorded, or was left unrecorded by a deploy that ended.  A deploy that *)
(* has met no other knows its tag and its unrecorded classes exactly, and  *)
(* nobody has taken a name or recorded a migration before it.              *)
(***************************************************************************)
Stable == scripts[StableName]
Solo(d) == \A e \in Deploys : {d, e} \notin met

TagInv == /\ Stable.tag \subseteq Stable.classes
          /\ Stable.tag = {} => Stable.classes = {}

FreshInv == \A d \in Deploys : fresh[d] \subseteq plan[d].classes

RecordsInv ==
  StableName \notin swept =>
    /\ classRecords \subseteq Stable.classes
    /\ \A d \in Deploys : pc[d] = "classes" => fresh[d] \subseteq Stable.classes

UnrecordedInv ==
  \A c \in Stable.classes :
    \/ c \in classRecords
    \/ \E e \in Deploys : pc[e] = "classes" /\ c \in fresh[e]
    \/ \E e \in halted : c \in plan[e].classes

SoloInv ==
  \A d \in Deploys : Solo(d) =>
    /\ pc[d] \in {"tag", "upload"} => fresh[d] = plan[d].classes \ classRecords
    /\ pc[d] = "upload" /\ plan[d].classes # {} /\ StableName \notin swept
         => seen[d] = Stable.tag
    /\ pc[d] = "create" => Head(rest[d]) \notin exists
    /\ pc[d] = "insert" => \A m \in journal : ~ Due(d, m)

ClassInv == TagInv /\ FreshInv /\ RecordsInv /\ UnrecordedInv /\ SoloInv

(***************************************************************************)
(* An upload that Cloudflare accepts, as the script of the classes sees it.*)
(***************************************************************************)
LEMMA CreatesType ==
  ASSUME Typed, FreshInv, NEW d \in Deploys
  PROVE  Creates(d) \subseteq plan[d].classes
  BY DEF Creates, FreshInv

\* What an upload makes of the stable script.
LEMMA StableUpload ==
  ASSUME Typed, FreshInv, NEW d \in Deploys, Upload(d)
  PROVE  \/ /\ Accepted(d) /\ pc'[d] = "classes" /\ plan[d].classes # {}
            /\ Stable'.tag = IF Creates(d) = {} THEN Stable.tag ELSE plan[d].classes
            /\ Stable'.classes = Stable.classes \cup Creates(d)
            /\ plan[d].classes \subseteq Stable.classes \cup Creates(d)
            /\ fresh'[d] = plan[d].classes
         \/ /\ pc'[d] = "classes" /\ plan[d].classes = {} /\ fresh'[d] = {}
            /\ Stable' = Stable
         \/ /\ ~ Accepted(d) /\ pc'[d] = "refused"
            /\ Stable' = Stable /\ fresh' = fresh
<1>1. CASE Accepted(d)
  <2>1. /\ scripts' = [scripts EXCEPT ![ScriptName(d)] = Uploaded(d)]
        /\ fresh'[d] = plan[d].classes /\ pc'[d] = "classes"
    BY <1>1, ClassShapes DEF Upload, Goto
  <2>2. CASE plan[d].classes = {}
    <3>1. ScriptName(d) # StableName
      BY <2>2, StableAssumption, PlanType DEF ScriptName, Typed, TypeOK
    <3> QED
      BY <2>1, <2>2, <3>1, ClassShapes DEF Stable, Names
  <2>3. CASE plan[d].classes # {}
    <3>1. ScriptName(d) = StableName /\ StableName \in Names
      BY <2>3 DEF ScriptName, Names
    <3>2. Stable' = Uploaded(d)
      BY <2>1, <3>1, ClassShapes DEF Stable
    <3>3. plan[d].classes \subseteq Stable.classes \cup Creates(d)
      BY <1>1, <3>1 DEF Accepted, Stable
    <3> QED
      BY <1>1, <2>1, <2>3, <3>1, <3>2, <3>3 DEF Uploaded, Stable
  <2> QED
    BY <2>2, <2>3
<1>2. CASE ~ Accepted(d)
  BY <1>2, ClassShapes DEF Upload, Goto, Stable
<1> QED
  BY <1>1, <1>2

(***************************************************************************)
(* A step of a deploy that is not about classes leaves them alone.         *)
(***************************************************************************)
LEMMA ContentOtherwise ==
  ASSUME Typed, ClassInv, NEW d \in Deploys, Deploy(d), ~ Classing(d),
         swept' = swept
  PROVE  (TagInv /\ FreshInv /\ RecordsInv /\ UnrecordedInv)'
<1>1. /\ UNCHANGED <<fresh, classRecords, scripts, plan>> /\ halted \subseteq halted'
      /\ \A e \in Deploys : e # d => pc'[e] = pc[e]
  BY ClassesStay, OthersStay DEF Others
<1>2. /\ pc'[d] = "classes" => pc[d] = "classes"
      /\ pc[d] = "classes" =>
           pc'[d] = "classes" \/ fresh[d] = {} \/ d \in halted'
  BY CallsReached DEF Classing
<1>3. Stable' = Stable
  BY <1>1 DEF Stable
<1>4. \A e \in Deploys : pc'[e] = "classes" => pc[e] = "classes"
  BY <1>1, <1>2
<1>5. UnrecordedInv'
  <2>1. ASSUME NEW e \in Deploys, pc[e] = "classes", NEW c \in fresh[e]
        PROVE  pc'[e] = "classes" \/ (e \in halted' /\ c \in plan[e].classes)
    BY <1>1, <1>2, <2>1 DEF ClassInv, FreshInv
  <2> QED
    BY <1>1, <1>3, <2>1 DEF ClassInv, UnrecordedInv
<1> QED
  BY <1>1, <1>3, <1>4, <1>5 DEF ClassInv, TagInv, FreshInv, RecordsInv

\* Looking classes up changes nothing that is stored.
LEMMA ContentLoad ==
  ASSUME Typed, ClassInv, NEW d \in Deploys, LoadClasses(d) \/ ReadTag(d),
         swept' = swept
  PROVE  (TagInv /\ FreshInv /\ RecordsInv /\ UnrecordedInv)'
<1>1. /\ UNCHANGED <<classRecords, scripts, plan, halted>>
      /\ \A e \in Deploys : e # d => pc'[e] = pc[e] /\ fresh'[e] = fresh[e]
      /\ pc[d] # "classes" /\ pc'[d] # "classes"
      /\ fresh'[d] = fresh[d] \/ fresh'[d] = plan[d].classes \ classRecords
  BY ClassShapes DEF LoadClasses, ReadTag, Goto, live, history
<1>2. Stable' = Stable
  BY <1>1 DEF Stable
<1>3. FreshInv'
  BY <1>1 DEF ClassInv, FreshInv
<1> QED
  BY <1>1, <1>2, <1>3 DEF ClassInv, TagInv, RecordsInv, UnrecordedInv

\* An accepted upload has the classes of its plan.
LEMMA ContentUpload ==
  ASSUME Typed, ClassInv, NEW d \in Deploys, Upload(d), swept' = swept
  PROVE  (TagInv /\ FreshInv /\ RecordsInv /\ UnrecordedInv)'
<1>1. /\ UNCHANGED <<classRecords, plan, halted>> /\ pc[d] = "upload"
      /\ \A e \in Deploys : e # d => pc'[e] = pc[e] /\ fresh'[e] = fresh[e]
  BY ClassShapes DEF Upload, Goto, history
<1>2. Creates(d) \subseteq plan[d].classes
  BY CreatesType DEF ClassInv
<1>3. CASE /\ pc'[d] = "classes"
           /\ Stable'.tag = IF Creates(d) = {} THEN Stable.tag ELSE plan[d].classes
           /\ Stable'.classes = Stable.classes \cup Creates(d)
           /\ plan[d].classes \subseteq Stable.classes \cup Creates(d)
           /\ fresh'[d] = plan[d].classes
  <2>1. TagInv'
    BY <1>2, <1>3 DEF ClassInv, TagInv
  <2>2. FreshInv'
    BY <1>1, <1>3 DEF ClassInv, FreshInv
  <2>3. RecordsInv'
    BY <1>1, <1>3 DEF ClassInv, RecordsInv
  <2>4. UnrecordedInv'
    BY <1>1, <1>2, <1>3 DEF ClassInv, UnrecordedInv
  <2> QED
    BY <2>1, <2>2, <2>3, <2>4
<1>4. CASE Stable' = Stable /\ pc'[d] = "classes" /\ fresh'[d] = {}
  <2>1. FreshInv' /\ TagInv'
    BY <1>1, <1>4 DEF ClassInv, FreshInv, TagInv
  <2>2. RecordsInv' /\ UnrecordedInv'
    BY <1>1, <1>4 DEF ClassInv, RecordsInv, UnrecordedInv
  <2> QED
    BY <2>1, <2>2
<1>5. CASE Stable' = Stable /\ fresh' = fresh /\ pc'[d] = "refused"
  <2>1. FreshInv' /\ TagInv'
    BY <1>1, <1>5 DEF ClassInv, FreshInv, TagInv
  <2>2. RecordsInv' /\ UnrecordedInv'
    BY <1>1, <1>5 DEF ClassInv, RecordsInv, UnrecordedInv
  <2> QED
    BY <2>1, <2>2
<1> QED
  BY <1>3, <1>4, <1>5, StableUpload DEF ClassInv

\* A class is recorded after it was created.
LEMMA ContentRecord ==
  ASSUME Typed, ClassInv, NEW d \in Deploys, NEW x \in Classes, RecordClass(d, x),
         swept' = swept
  PROVE  (TagInv /\ FreshInv /\ RecordsInv /\ UnrecordedInv)'
<1>1. /\ UNCHANGED <<pc, plan, scripts, halted>>
      /\ pc[d] = "classes" /\ x \in fresh[d]
      /\ classRecords' = classRecords \cup {x}
      /\ fresh'[d] = fresh[d] \ {x}
      /\ \A e \in Deploys : e # d => fresh'[e] = fresh[e]
  BY ClassShapes DEF RecordClass, live, history
<1>2. Stable' = Stable
  BY <1>1 DEF Stable
<1>3. TagInv' /\ FreshInv'
  BY <1>1, <1>2 DEF ClassInv, TagInv, FreshInv
<1>4. RecordsInv'
  BY <1>1, <1>2 DEF ClassInv, RecordsInv
<1>5. UnrecordedInv'
  <2> SUFFICES ASSUME NEW c \in Stable.classes
               PROVE  \/ c \in classRecords'
                      \/ \E e \in Deploys : pc'[e] = "classes" /\ c \in fresh'[e]
                      \/ \E e \in halted' : c \in plan'[e].classes
    BY <1>2 DEF UnrecordedInv
  <2>1. CASE c = x
    BY <1>1, <2>1
  <2>2. ASSUME c # x, NEW e \in Deploys, pc[e] = "classes", c \in fresh[e]
        PROVE  pc'[e] = "classes" /\ c \in fresh'[e]
    BY <1>1, <2>2
  <2> QED
    BY <1>1, <2>1, <2>2 DEF ClassInv, UnrecordedInv
<1> QED
  BY <1>3, <1>4, <1>5

(***************************************************************************)
(* Whom the cleanup sweeps it notes, and a swept script has no classes.    *)
(***************************************************************************)
LEMMA SweptScripts ==
  ASSUME Typed, SweepTypeOK, Sweep
  PROVE  /\ swept \subseteq swept'
         /\ \A n \in Names : \/ scripts'[n] = scripts[n]
                             \/ scripts'[n] = NoScript /\ n \in swept'
<1>1. CASE DeleteScript
  <2>1. doomed["script"] \in Names
    BY <1>1 DEF DeleteScript, Does, SweepTypeOK, Kinds
  <2> QED
    BY <1>1, <2>1, ClassShapes DEF DeleteScript
<1>2. CASE ~ DeleteScript
  BY <1>2 DEF Sweep, GetLock, PutLock, ReadRefs, ListEntries, DeleteEntry,
              DeleteFails, Judge, DeleteAssets, appVars, live
<1> QED
  BY <1>1, <1>2

\* A cleanup sweeps the script and its classes, and says so.
LEMMA ContentSweep ==
  ASSUME Typed, SweepTypeOK, ClassInv, Sweep
  PROVE  (TagInv /\ FreshInv /\ RecordsInv /\ UnrecordedInv)'
<1>1. /\ UNCHANGED <<pc, plan, fresh, classRecords, halted>>
      /\ swept \subseteq swept'
      /\ \/ Stable' = Stable
         \/ Stable' = NoScript /\ StableName \in swept'
  BY SweepStep, SweptScripts DEF SweepDeletes, local, history, Stable, Names
<1> QED
  BY <1>1 DEF ClassInv, TagInv, FreshInv, RecordsInv, UnrecordedInv, NoScript

(***************************************************************************)
(* Beside a deploy that runs and has met no other, another one has ended:  *)
(* only its writes of the record can still land.                           *)
(***************************************************************************)
LEMMA IdleStep ==
  ASSUME Typed, NEW d \in Deploys, Deploy(d), ~ Running(d)
  PROVE  Begin(d) \/ StoreRecord(d) \/ StoreScript(d)
<1> USE DEF Running, Over
<1>1. CASE \/ LoadRecord(d) \/ Find(d) \/ Create(d) \/ Record(d)
           \/ SeekConsumer(d) \/ AddConsumer(d) \/ Select(d) \/ Execute(d)
           \/ Insert(d)
  BY <1>1 DEF LoadRecord, Find, Create, Record, SeekConsumer, AddConsumer,
              Select, Execute, Insert
<1>2. CASE \/ LoadClasses(d) \/ ReadTag(d) \/ Upload(d)
           \/ \E c \in Classes : RecordClass(d, c)
           \/ Publish(d) \/ PutAssets(d) \/ PutManifest(d)
           \/ Finish(d) \/ Stop(d)
  BY <1>2 DEF LoadClasses, ReadTag, Upload, RecordClass, Publish, PutAssets,
              PutManifest, Finish, Stop
<1> QED
  BY <1>1, <1>2 DEF Deploy

\* A deploy that met no other has the state to itself.
LEMMA SoloOther ==
  ASSUME Typed, MetInv, NEW d \in Deploys, Deploy(d), MetInv',
         NEW e \in Deploys, e # d, Running(e), Solo(e)'
  PROVE  UNCHANGED <<pc, plan, rest, files, fresh, seen, exists, journal,
                     classRecords, scripts>>
<1>1. /\ \A f \in Deploys : {e, f} \notin met /\ {e, f} \notin met'
      /\ pc'[e] = pc[e]
  BY OthersStay DEF Solo, Others
<1>2. ~ Running(d)
  BY <1>1 DEF MetInv
<1>3. ~ Running(d)'
  BY <1>1 DEF MetInv, Running
<1>4. ~ Begin(d)
  BY <1>3, ClassShapes DEF Begin, Goto, Running, Over
<1>5. StoreRecord(d) \/ StoreScript(d)
  BY <1>2, <1>4, IdleStep
<1> QED
  BY <1>5 DEF StoreRecord, StoreScript, cloud, database

\* So what it has looked up is still so.
LEMMA SoloOwn ==
  ASSUME Typed, OnceInv, ClassInv, NEW d \in Deploys, Deploy(d), Solo(d)',
         swept' = swept
  PROVE  /\ pc'[d] \in {"tag", "upload"}
              => fresh'[d] = plan'[d].classes \ classRecords'
         /\ pc'[d] = "upload" /\ plan'[d].classes # {} /\ StableName \notin swept'
              => seen'[d] = Stable'.tag
         /\ pc'[d] = "create" => Head(rest'[d]) \notin exists'
         /\ pc'[d] = "insert" => \A m \in journal' : ~ Due(d, m)'
<1>1. Solo(d) /\ plan' = plan
  BY OthersStay DEF Others, Solo
<1>2. ASSUME pc'[d] \in {"tag", "upload"}
      PROVE  /\ fresh'[d] = plan'[d].classes \ classRecords'
             /\ pc'[d] = "upload" /\ plan[d].classes # {} /\ StableName \notin swept
                  => seen'[d] = Stable'.tag
  <2>1. CASE LoadClasses(d)
    BY <1>1, <2>1, ClassShapes DEF LoadClasses, Goto
  <2>2. CASE ReadTag(d)
    BY <1>1, <2>2, ClassShapes
       DEF ReadTag, Goto, live, ClassInv, SoloInv, Stable
  <2>3. CASE pc'[d] = pc[d] /\ UNCHANGED <<fresh, seen, classRecords, scripts>>
    BY <1>1, <1>2, <2>3 DEF ClassInv, SoloInv, Stable
  <2> QED
    BY <1>2, <2>1, <2>2, <2>3, CallsReached
<1>3. ASSUME pc'[d] = "create"
      PROVE  Head(rest'[d]) \notin exists'
  <2>1. CASE Find(d)
    BY <1>3, <2>1, ClassShapes DEF Find, Goto, local, cloud
  <2>2. CASE pc[d] = "create" /\ rest'[d] = rest[d]
    <3>1. ~ Create(d)
      BY <1>3, ClassShapes DEF Create, Goto
    <3> QED
      BY <1>1, <2>2, <3>1, ClassesStay DEF ClassInv, SoloInv
  <2> QED
    BY <1>3, <2>1, <2>2, CallsReached
<1>4. ASSUME pc'[d] = "insert", NEW m \in journal', Due(d, m)'
      PROVE  FALSE
  <2>1. CASE Execute(d)
    <3>1. pc[d] = "execute" /\ m \in journal /\ Due(d, m)
      BY <1>4, <2>1 DEF Execute, local, Due
    <3> QED
      BY <1>1, <3>1 DEF OnceInv, Solo
  <2>2. CASE pc[d] = "insert" /\ files'[d] = files[d]
    <3>1. ~ Insert(d)
      BY <1>4, ClassShapes DEF Insert, Goto
    <3>2. m \in journal /\ Due(d, m)
      BY <1>4, <2>2, <3>1, DatabaseStays DEF Due
    <3> QED
      BY <1>1, <2>2, <3>2 DEF ClassInv, SoloInv
  <2> QED
    BY <1>4, <2>1, <2>2, CallsReached
<1> QED
  BY <1>1, <1>2, <1>3, <1>4

\* Every step keeps what deploys on their own know.
LEMMA SoloStep ==
  ASSUME Typed, SweepTypeOK, MetInv, OnceInv, ClassInv, [Next]_vars, MetInv'
  PROVE  SoloInv'
<1>1. ASSUME NEW d \in Deploys, Deploy(d), swept' = swept
      PROVE  SoloInv'
  <2> SUFFICES ASSUME NEW e \in Deploys, Solo(e)'
               PROVE  /\ pc'[e] \in {"tag", "upload"}
                           => fresh'[e] = plan'[e].classes \ classRecords'
                      /\ pc'[e] = "upload" /\ plan'[e].classes # {}
                           /\ StableName \notin swept'
                           => seen'[e] = Stable'.tag
                      /\ pc'[e] = "create" => Head(rest'[e]) \notin exists'
                      /\ pc'[e] = "insert" => \A m \in journal' : ~ Due(e, m)'
    BY DEF SoloInv
  <2>1. CASE e = d
    BY <1>1, <2>1, SoloOwn
  <2>2. CASE e # d /\ Running(e)
    <3>1. UNCHANGED <<pc, plan, rest, files, fresh, seen, exists, journal,
                      classRecords, scripts, swept>>
      BY <1>1, <2>2, SoloOther
    <3>2. Solo(e)
      BY <1>1, OthersStay DEF Others, Solo
    <3> QED
      BY <3>1, <3>2 DEF ClassInv, SoloInv, Due, Stable
  <2>3. CASE e # d /\ ~ Running(e)
    <3>1. pc'[e] = pc[e]
      BY <1>1, <2>3, OthersStay DEF Others
    <3> QED
      BY <2>3, <3>1 DEF Running, Over
  <2> QED
    BY <2>1, <2>2, <2>3
<1>2. CASE Sweep
  <2>1. /\ UNCHANGED <<pc, plan, rest, files, fresh, seen, exists, journal,
                       classRecords, met>>
        /\ swept \subseteq swept'
        /\ Stable' = Stable \/ StableName \in swept'
    BY <1>2, SweepStep, SweptScripts
       DEF SweepDeletes, local, cloud, database, history, Stable, Names
  <2> QED
    BY <2>1 DEF ClassInv, SoloInv, Solo, Due
<1>3. CASE UNCHANGED vars
  BY <1>3 DEF vars, appVars, sweepVars, local, cloud, database, live, history,
              ClassInv, SoloInv, Solo, Due, Stable
<1> QED
  BY <1>1, <1>2, <1>3 DEF Next

\* Every step keeps what is known of classes.
LEMMA ClassStep ==
  ASSUME Typed, SweepTypeOK, MetInv, OnceInv, ClassInv, [Next]_vars, MetInv'
  PROVE  ClassInv'
<1>1. ASSUME NEW d \in Deploys, Deploy(d), swept' = swept
      PROVE  (TagInv /\ FreshInv /\ RecordsInv /\ UnrecordedInv)'
  BY <1>1, ContentOtherwise, ContentLoad, ContentUpload, ContentRecord
     DEF Classing
<1>2. ASSUME UNCHANGED vars
      PROVE  (TagInv /\ FreshInv /\ RecordsInv /\ UnrecordedInv)'
  BY <1>2 DEF vars, appVars, sweepVars, local, live, history, ClassInv, TagInv,
              FreshInv, RecordsInv, UnrecordedInv, Stable
<1>3. (TagInv /\ FreshInv /\ RecordsInv /\ UnrecordedInv)'
  BY <1>1, <1>2, ContentSweep DEF Next, ClassInv
<1>4. SoloInv'
  BY SoloStep
<1> QED
  BY <1>3, <1>4 DEF ClassInv

(***************************************************************************)
(* Why Cloudflare may refuse d, and that a reason does not go away.        *)
(***************************************************************************)
Reason(d) ==
  \/ ~ Solo(d)
  \/ torn \cap plan[d].files # {}
  \/ /\ seen[d] # plan[d].classes
     /\ \E e \in halted : plan[e].classes \cap plan[d].classes # {}
  \/ plan[d].classes # {} /\ StableName \in swept

\* A reason stays one.
LEMMA ReasonStays ==
  ASSUME NEW d \in Deploys, Reason(d), plan' = plan, met \subseteq met',
         torn \subseteq torn', halted \subseteq halted', swept \subseteq swept',
         seen'[d] = seen[d]
  PROVE  Reason(d)'
  BY DEF Reason, Solo

(***************************************************************************)
(* A deploy without a reason against it is accepted: the script has the    *)
(* tag of its classes and then them; or no tag, and then no classes; or    *)
(* another tag, and of its classes exactly those on record.                *)
(***************************************************************************)
LEMMA UploadAccepted ==
  ASSUME Typed, ClassInv, NEW d \in Deploys, pc[d] = "upload", ~ Reason(d),
         \A e \in Deploys : pc[e] = "classes" => {d, e} \in met
  PROVE  Accepted(d)
<1>1. fresh[d] \subseteq plan[d].classes
  BY DEF ClassInv, FreshInv
<1>2. CASE plan[d].classes = {}
  <2>1. Creates(d) = {}
    BY <1>1, <1>2 DEF Creates
  <2> QED
    BY <1>2, <2>1 DEF Accepted
<1>3. CASE plan[d].classes # {}
  <2>1. /\ ScriptName(d) = StableName /\ Solo(d) /\ StableName \notin swept
        /\ seen[d] = Stable.tag /\ fresh[d] = plan[d].classes \ classRecords
    BY <1>3 DEF ScriptName, Reason, ClassInv, SoloInv
  <2>2. CASE seen[d] = plan[d].classes
    <3>1. Creates(d) = {}
      BY <2>2 DEF Creates
    <3>2. plan[d].classes \subseteq Stable.classes
      BY <2>1, <2>2 DEF ClassInv, TagInv
    <3> QED
      BY <2>1, <3>1, <3>2 DEF Accepted, Stable
  <2>3. CASE seen[d] # plan[d].classes /\ seen[d] = {}
    <3>1. Creates(d) = plan[d].classes /\ Stable.classes = {}
      BY <2>1, <2>3 DEF Creates, ClassInv, TagInv
    <3> QED
      BY <2>1, <3>1 DEF Accepted, Stable
  <2>4. CASE seen[d] # plan[d].classes /\ seen[d] # {}
    <3>1. Creates(d) = plan[d].classes \ classRecords
      BY <2>1, <2>4 DEF Creates
    <3>2. classRecords \subseteq Stable.classes
      BY <2>1 DEF ClassInv, RecordsInv
    <3>3. Stable.classes \cap plan[d].classes \subseteq classRecords
      <4>1. \A e \in Deploys : pc[e] # "classes"
        BY <2>1 DEF Solo
      <4>2. \A e \in halted : plan[e].classes \cap plan[d].classes = {}
        BY <2>4 DEF Reason
      <4> QED
        BY <4>1, <4>2 DEF ClassInv, UnrecordedInv
    <3> QED
      BY <2>1, <3>1, <3>2, <3>3 DEF Accepted, Stable
  <2> QED
    BY <2>2, <2>3, <2>4
<1> QED
  BY <1>2, <1>3

\* A deploy that is refused now has a reason.
LEMMA RefusedOwn ==
  ASSUME Typed, MigrationInv, MetInv, OnceInv, ClassInv,
         NEW d \in Deploys, pc'[d] = "refused",
         Create(d) \/ Execute(d) \/ Insert(d) \/ Upload(d)
  PROVE  Reason(d)
<1> USE DEF Reason
<1>1. CASE Create(d)
  <2>1. pc[d] = "create" /\ Head(rest[d]) \in exists
    BY <1>1, ClassShapes DEF Create, Goto
  <2> QED
    BY <2>1 DEF ClassInv, SoloInv
<1>2. CASE Execute(d)
  <2>1. PICK m \in files[d] :
          Due(d, m) /\ (m \in Applied \/ pc'[d] = "insert")
    BY <1>2, Executed
  <2>2. pc[d] = "execute" /\ m \in Applied /\ m \in plan[d].files
    BY <1>2, <2>1 DEF Execute, MigrationInv, MigrationOf
  <2>3. CASE m \in journal
    BY <2>1, <2>2, <2>3 DEF OnceInv, Solo
  <2>4. CASE m \in torn
    BY <2>2, <2>4
  <2>5. ASSUME NEW e \in Deploys, pc[e] = "insert"
        PROVE  ~ Solo(d)
    BY <2>2, <2>5 DEF MetInv, Running, Over, Solo
  <2> QED
    BY <2>2, <2>3, <2>4, <2>5 DEF OnceInv
<1>3. CASE Insert(d)
  <2>1. pc[d] = "insert" /\ \E m \in files[d] : Due(d, m) /\ m \in journal
    BY <1>3, ClassShapes DEF Insert, Goto
  <2> QED
    BY <2>1 DEF ClassInv, SoloInv
<1>4. CASE Upload(d)
  <2>1. pc[d] = "upload" /\ ~ Accepted(d)
    BY <1>4, ClassShapes DEF Upload, Goto
  <2>2. \A e \in Deploys : pc[e] = "classes" => {d, e} \in met
    BY <2>1 DEF MetInv, Running, Over
  <2> QED
    BY <2>1, <2>2, UploadAccepted
<1> QED
  BY <1>1, <1>2, <1>3, <1>4

\* Every refusal keeps its reason.
LEMMA RefusedStep ==
  ASSUME Typed, SweepTypeOK, MigrationInv, MetInv, OnceInv, ClassInv,
         RefusedForAReason, [Next]_vars
  PROVE  RefusedForAReason'
<1> DEFINE Reasons == \A d \in Deploys : pc[d] = "refused" => Reason(d)
<1>1. Reasons <=> RefusedForAReason
  BY DEF RefusedForAReason, Reason, Solo
<1>2. ASSUME NEW d \in Deploys, Deploy(d), swept' = swept
      PROVE  Reasons'
  <2>1. /\ plan' = plan /\ met \subseteq met' /\ torn \subseteq torn'
        /\ halted \subseteq halted'
        /\ \A e \in Deploys : e # d => pc'[e] = pc[e] /\ seen'[e] = seen[e]
    BY <1>2, OthersStay, ClassesStay DEF Others
  <2>2. ASSUME pc'[d] = "refused"
        PROVE  Reason(d) /\ seen'[d] = seen[d]
    <3>1. CASE Create(d) \/ Execute(d) \/ Insert(d) \/ Upload(d)
      <4>1. seen' = seen
        BY <3>1 DEF Create, Execute, Insert, Upload, local
      <4> QED
        BY <2>2, <3>1, <4>1, RefusedOwn
    <3>2. CASE pc[d] = "refused" /\ seen'[d] = seen[d]
      BY <1>1, <3>2
    <3> QED
      BY <1>2, <2>2, <3>1, <3>2, CallsReached
  <2>3. ASSUME NEW e \in Deploys, pc'[e] = "refused"
        PROVE  Reason(e)'
    <3>1. Reason(e) /\ seen'[e] = seen[e]
      BY <1>1, <2>1, <2>2, <2>3
    <3> QED
      BY <1>2, <2>1, <3>1, ReasonStays
  <2> QED
    BY <2>3
<1>3. ASSUME Sweep \/ UNCHANGED vars
      PROVE  Reasons'
  <2>1. /\ UNCHANGED <<pc, plan, seen, met, torn, halted>>
        /\ swept \subseteq swept'
    BY <1>3, SweepStep, SweptScripts
       DEF SweepDeletes, local, history, vars, appVars, sweepVars
  <2>2. ASSUME NEW e \in Deploys, pc'[e] = "refused"
        PROVE  Reason(e)'
    BY <1>1, <2>1, <2>2, ReasonStays
  <2> QED
    BY <2>2
<1>4. Reasons'
  <2> HIDE DEF Reasons
  <2> QED
    BY <1>2, <1>3, Zenon DEF Next
<1> QED
  BY <1>4, Zenon DEF RefusedForAReason, Reason, Solo

-----------------------------------------------------------------------------
(* The cleanup and the current deployment *)

(***************************************************************************)
(* Per kind: the name on record, whether what a name stands for is there,  *)
(* and the age its entry had at first, the only old there is.              *)
(***************************************************************************)
Referred(k) == IF k = "script" THEN record.script ELSE record.site
There(k, n) == IF k = "script" THEN scripts[n].up ELSE n \in sites
FirstAge(k, n) ==
  IF k = "script" THEN first.scriptKeys[n] ELSE first.siteKeys[n]
Entry(k) == IF k = "script" THEN Names ELSE Commits

(***************************************************************************)
(* A deploy that has published the kind's target and has yet to store its  *)
(* record, and the name of that target.                                    *)
(***************************************************************************)
Carries(k, d) ==
  IF k = "script"
  THEN pc[d] \in {"classes", "assets", "manifest"} \/ "record" \in puts[d]
  ELSE pc[d] = "manifest" \/ ("record" \in puts[d] /\ plan[d].site)
NameOf(k, d) == IF k = "script" THEN ScriptName(d) ELSE plan[d].commit

(***************************************************************************)
(* What is doomed was old at first and not referred to when the cleanup    *)
(* looked; since then the record can only have come to name it by a deploy *)
(* that the cleanup crossed, as are all that run while it sweeps.          *)
(***************************************************************************)
AgeInv == \A k \in Kinds : \A n \in Entry(k) :
  Age(k, n) = "old" => FirstAge(k, n) = "old"

DoomInv == \A k \in Kinds :
  /\ left[k] \subseteq Entry(k)
  /\ step[k] \in {"delete", "forget"} =>
       /\ doomed[k] \in Entry(k) /\ doomed[k] \notin refs[k]
       /\ FirstAge(k, doomed[k]) = "old"

CrossInv ==
  /\ sweep = "sweeping" => \A d \in Deploys : Busy(d) => d \in crossed
  /\ sweep # "sweeping" => crossed = {} /\ \A k \in Kinds : step[k] = "refs"
  /\ \A k \in Kinds : step[k] # "refs" /\ Referred(k) # None =>
       Referred(k) \in refs[k] \/ record.by \in crossed

CarryInv == \A k \in Kinds, d \in Deploys :
  Carries(k, d) /\ ~ There(k, NameOf(k, d)) =>
    d \in crossed /\ FirstAge(k, NameOf(k, d)) = "old"

TargetInv == \A k \in Kinds :
  Referred(k) # None /\ ~ There(k, Referred(k)) =>
    record.by \in crossed /\ FirstAge(k, Referred(k)) = "old"

CleanInv == AgeInv /\ DoomInv /\ CrossInv /\ CarryInv /\ TargetInv

\* The two kinds of targets, said at once.
LEMMA TargetsMeant == TargetInv <=> CurrentTargetsSurvive
  BY DEF TargetInv, CurrentTargetsSurvive, Kinds, Referred, There, FirstAge

(***************************************************************************)
(* What a deploy does to the targets: it only adds them and refreshes      *)
(* their entries, and it carries none that is not there.                   *)
(***************************************************************************)
LEMMA TargetShapes ==
  ASSUME Typed
  PROVE  /\ scriptKeys = [n \in Names |-> scriptKeys[n]]
         /\ siteKeys = [c \in Commits |-> siteKeys[c]]
         /\ \A k \in Kinds, d \in Deploys : NameOf(k, d) \in Entry(k)
         /\ \A d \in Deploys : plan[d].commit \in Commits
         /\ \A k \in Kinds : Referred(k) # None => Referred(k) \in Entry(k)
<1>1. /\ scriptKeys = [n \in Names |-> scriptKeys[n]]
      /\ siteKeys = [c \in Commits |-> siteKeys[c]] /\ record \in Current
  BY DEF Typed, TypeOK, AppTypeOK
<1>2. \A d \in Deploys : ScriptName(d) \in Names /\ plan[d].commit \in Commits
  BY PlanType DEF Typed, TypeOK
<1> QED
  BY <1>1, <1>2 DEF NameOf, Entry, Referred, Current, Kinds

\* Deploys make entries fresh, never old.
LEMMA EntriesOfDeploys ==
  ASSUME Typed, NEW d \in Deploys, Deploy(d), NEW k \in Kinds, NEW n \in Entry(k)
  PROVE  Age(k, n)' = Age(k, n) \/ Age(k, n)' = "fresh"
<1> USE TargetShapes DEF Age, Entry, Kinds
<1>1. CASE PutManifest(d)
  BY <1>1 DEF PutManifest
<1>2. CASE StoreScript(d)
  BY <1>2 DEF StoreScript
<1>3. CASE \/ Begin(d) \/ Find(d) \/ Create(d) \/ LoadClasses(d) \/ ReadTag(d)
           \/ Upload(d) \/ Publish(d) \/ PutAssets(d)
           \/ StoreRecord(d) \/ Finish(d) \/ Stop(d)
           \/ \E c \in Classes : RecordClass(d, c)
  BY <1>3 DEF Begin, Find, Create, LoadClasses, ReadTag, Upload, Publish,
              PutAssets, StoreRecord, Finish, Stop, RecordClass, live
<1>4. CASE \/ LoadRecord(d) \/ Record(d) \/ SeekConsumer(d) \/ AddConsumer(d)
           \/ Select(d) \/ Execute(d) \/ Insert(d)
  BY <1>4 DEF LoadRecord, Record, SeekConsumer, AddConsumer, Select, Execute,
              Insert, live
<1> QED
  BY <1>1, <1>2, <1>3, <1>4 DEF Deploy

\* They take nothing away, and carry what they published.
LEMMA TargetsOfDeploys ==
  ASSUME Typed, NEW d \in Deploys, Deploy(d)
  PROVE  /\ \A k \in Kinds : \A n \in Entry(k) : There(k, n) => There(k, n)'
         /\ record' = record \/ StoreRecord(d)
         /\ \A e \in Deploys : e # d => puts'[e] = puts[e]
         /\ \A k \in Kinds :
              Carries(k, d)' => Carries(k, d) \/ There(k, NameOf(k, d))'
<1> USE ClassShapes, TargetShapes DEF There, Entry, Kinds, Carries, Goto
<1>0. plan' = plan
  BY OthersStay DEF Others
<1>1. CASE Upload(d)
  <2>1. /\ UNCHANGED <<puts, record, sites>> /\ pc[d] = "upload"
        /\ \/ /\ pc'[d] = "classes"
              /\ scripts' = [scripts EXCEPT ![ScriptName(d)] = Uploaded(d)]
           \/ pc'[d] = "refused" /\ scripts' = scripts
    BY <1>1 DEF Upload
  <2>2. Uploaded(d).up
    BY DEF Uploaded
  <2>3. \A n \in Names : scripts[n].up => scripts'[n].up
    BY <2>1, <2>2
  <2>4. /\ ScriptName(d)' = ScriptName(d) /\ ScriptName(d) \in Names
        /\ pc'[d] = "classes" => scripts'[ScriptName(d)].up
    BY <1>0, <2>1, <2>2 DEF ScriptName, NameOf
  <2> QED
    BY <1>0, <2>1, <2>3, <2>4 DEF NameOf
<1>2. CASE PutAssets(d)
  BY <1>0, <1>2 DEF PutAssets, local, NameOf
<1>3. CASE Publish(d) \/ PutManifest(d)
  BY <1>0, <1>3 DEF Publish, PutManifest, live
<1>4. CASE StoreRecord(d)
  BY <1>0, <1>4 DEF StoreRecord
<1>5. CASE StoreScript(d)
  BY <1>0, <1>5 DEF StoreScript
<1>6. CASE \/ Begin(d) \/ Find(d) \/ Create(d) \/ LoadClasses(d) \/ ReadTag(d)
           \/ Finish(d) \/ Stop(d)
           \/ \E c \in Classes : RecordClass(d, c)
  BY <1>0, <1>6 DEF Begin, Find, Create, LoadClasses, ReadTag, Finish, Stop,
                    RecordClass, live, local
<1>7. CASE \/ LoadRecord(d) \/ Record(d) \/ SeekConsumer(d) \/ AddConsumer(d)
           \/ Select(d) \/ Execute(d) \/ Insert(d)
  <2>1. UNCHANGED <<puts, scripts, sites, record>>
    BY <1>7 DEF LoadRecord, Record, SeekConsumer, AddConsumer, Select, Execute,
                Insert, live, local
  <2>2. pc'[d] \notin {"classes", "assets", "manifest"}
    BY <1>7 DEF LoadRecord, Record, SeekConsumer, AddConsumer, Ready,
                Provisioned, Select, Execute, Insert
  <2> QED
    BY <1>0, <2>1, <2>2
<1> QED
  BY <1>1, <1>2, <1>3, <1>4, <1>5, <1>6, <1>7 DEF Deploy

\* A step of a deploy keeps the parts about the cleanup.
LEMMA CleanDeploy ==
  ASSUME Typed, CleanInv, NEW d \in Deploys, Deploy(d),
         crossed' = IF sweep = "sweeping" THEN crossed \cup {d} ELSE crossed,
         UNCHANGED <<lock, sweep, step, refs, left, doomed, swept>>
  PROVE  CleanInv'
<1>1. /\ plan' = plan /\ first' = first /\ crossed \subseteq crossed'
      /\ \A e \in Deploys : e # d => pc'[e] = pc[e] /\ puts'[e] = puts[e]
      /\ \A k \in Kinds : \A n \in Entry(k) : There(k, n) => There(k, n)'
      /\ record' = record \/ StoreRecord(d)
  BY OthersStay, ClassesStay, TargetsOfDeploys DEF Others
<1>2. \A k \in Kinds, n \in Names : FirstAge(k, n)' = FirstAge(k, n)
  BY <1>1 DEF FirstAge
<1>3. \A k \in Kinds, e \in Deploys :
        /\ NameOf(k, e)' = NameOf(k, e) /\ NameOf(k, e) \in Entry(k)
        /\ NameOf(k, e) \in Names
  BY <1>1, TargetShapes DEF NameOf, ScriptName, Entry, Names
<1>4. \A k \in Kinds, e \in Deploys :
        Carries(k, e)' /\ ~ There(k, NameOf(k, e))' => Carries(k, e)
  BY <1>1, <1>3, TargetsOfDeploys DEF Carries
<1>5. AgeInv'
  <2>1. \A k \in Kinds : Entry(k) \subseteq Names
    BY DEF Entry, Names
  <2>2. \A k \in Kinds : \A n \in Entry(k) :
          Age(k, n)' = Age(k, n) \/ Age(k, n)' = "fresh"
    BY EntriesOfDeploys
  <2>3. \A k : Entry(k)' = Entry(k)
    BY DEF Entry
  <2> QED
    BY <1>2, <2>1, <2>2, <2>3 DEF CleanInv, AgeInv
<1>6. DoomInv'
  BY <1>2 DEF CleanInv, DoomInv, Entry, FirstAge, Names
<1>7. CrossInv'
  <2>1. ASSUME sweep = "sweeping", NEW e \in Deploys, Busy(e)'
        PROVE  e \in crossed'
    BY <1>1, <2>1 DEF CleanInv, CrossInv, Busy, Running
  <2>2. ASSUME NEW k \in Kinds, step[k] # "refs", Referred(k)' # None
        PROVE  Referred(k)' \in refs[k] \/ record'.by \in crossed'
    <3>1. sweep = "sweeping"
      BY <2>2 DEF CleanInv, CrossInv
    <3>2. CASE record' = record
      BY <1>1, <2>2, <3>2 DEF CleanInv, CrossInv, Referred
    <3>3. CASE StoreRecord(d)
      <4>1. record'.by = d
        BY <3>3 DEF StoreRecord
      <4> QED
        BY <3>1, <4>1
    <3> QED
      BY <1>1, <3>2, <3>3
  <2>3. sweep # "sweeping" => crossed' = {} /\ \A k \in Kinds : step[k] = "refs"
    BY DEF CleanInv, CrossInv
  <2> QED
    BY <2>1, <2>2, <2>3 DEF CrossInv
<1>8. CarryInv'
  <2> SUFFICES ASSUME NEW k \in Kinds, NEW e \in Deploys, Carries(k, e)',
                      ~ There(k, NameOf(k, e))'
               PROVE  e \in crossed' /\ FirstAge(k, NameOf(k, e))' = "old"
    BY DEF CarryInv
  <2>1. Carries(k, e) /\ ~ There(k, NameOf(k, e))
    <3>1. There(k, NameOf(k, e)) => There(k, NameOf(k, e))'
      BY <1>1, <1>3 DEF There
    <3> QED
      BY <1>4, <3>1
  <2>2. e \in crossed /\ FirstAge(k, NameOf(k, e)) = "old"
    BY <2>1 DEF CleanInv, CarryInv
  <2>3. FirstAge(k, NameOf(k, e))' = FirstAge(k, NameOf(k, e))
    BY <1>1, <1>3 DEF FirstAge
  <2> QED
    BY <1>1, <2>2, <2>3
<1>9. TargetInv'
  <2> SUFFICES ASSUME NEW k \in Kinds, Referred(k)' # None,
                      ~ There(k, Referred(k))'
               PROVE  record'.by \in crossed' /\ FirstAge(k, Referred(k))' = "old"
    BY DEF TargetInv
  <2>1. CASE record' = record
    <3>1. Referred(k)' = Referred(k) /\ Referred(k) # None
          /\ Referred(k) \in Entry(k)
      BY <2>1, TargetShapes DEF Referred
    <3>2. There(k, Referred(k)) => There(k, Referred(k))'
      BY <1>1, <3>1 DEF There
    <3>3. record.by \in crossed /\ FirstAge(k, Referred(k)) = "old"
      BY <3>1, <3>2 DEF CleanInv, TargetInv
    <3>4. FirstAge(k, Referred(k))' = FirstAge(k, Referred(k))
      BY <1>1, <3>1 DEF FirstAge
    <3> QED
      BY <1>1, <2>1, <3>3, <3>4
  <2>2. CASE StoreRecord(d)
    <3>1. /\ record'.by = d /\ Referred(k)' = NameOf(k, d) /\ Carries(k, d)
          /\ UNCHANGED <<scripts, sites>>
      BY <2>2 DEF StoreRecord, Referred, NameOf, Carries, Kinds
    <3>2. ~ There(k, NameOf(k, d))
      BY <3>1 DEF There
    <3>3. d \in crossed /\ FirstAge(k, NameOf(k, d)) = "old"
      BY <3>1, <3>2 DEF CleanInv, CarryInv
    <3>4. FirstAge(k, Referred(k))' = FirstAge(k, NameOf(k, d))
      BY <1>1, <3>1 DEF FirstAge
    <3> QED
      BY <1>1, <3>1, <3>3, <3>4
  <2> QED
    BY <1>1, <2>1, <2>2
<1> QED
  BY <1>5, <1>6, <1>7, <1>8, <1>9 DEF CleanInv

(***************************************************************************)
(* What the cleanup does to the targets: it takes only what it has doomed, *)
(* and it crosses every deploy that runs when it begins.                   *)
(***************************************************************************)
LEMMA TargetsOfSweep ==
  ASSUME Typed, SweepTypeOK, Sweep
  PROVE  /\ UNCHANGED <<pc, plan, puts, record, first>>
         /\ \A k \in Kinds : \A n \in Entry(k) :
              /\ Age(k, n)' = Age(k, n) \/ Age(k, n)' = "none"
              /\ \/ There(k, n)' = There(k, n)
                 \/ step[k] = "delete" /\ n = doomed[k]
<1>1. UNCHANGED <<pc, plan, puts, record, first>>
  BY SweepStep DEF SweepDeletes, local, history
<1>2. \A k \in Kinds : \A n \in Entry(k) :
        Age(k, n)' = Age(k, n) \/ Age(k, n)' = "none"
  BY SweepStep, TargetShapes DEF SweepDeletes, Age, Entry, Kinds
<1>3. \A k \in Kinds : \A n \in Entry(k) :
        There(k, n)' = There(k, n) \/ (step[k] = "delete" /\ n = doomed[k])
  <2>1. CASE DeleteScript
    BY <2>1, ClassShapes DEF DeleteScript, Does, There, Entry, Kinds
  <2>2. CASE DeleteAssets
    <3>1. /\ step["site"] = "delete" /\ sites' = sites \ {doomed["site"]}
          /\ scripts' = scripts
      BY <2>2 DEF DeleteAssets, Does
    <3> QED
      BY <3>1 DEF There, Kinds
  <2>3. CASE ~ DeleteScript /\ ~ DeleteAssets
    <3>1. UNCHANGED <<scripts, sites>>
      BY <2>3 DEF Sweep, GetLock, PutLock, ReadRefs, ListEntries, DeleteEntry,
                  DeleteFails, Judge, appVars, live
    <3> QED
      BY <3>1 DEF There
  <2> QED
    BY <2>1, <2>2, <2>3
<1> QED
  BY <1>1, <1>2, <1>3

\* What a cleanup judges doomed is old and not referred to.
LEMMA DoomSweep ==
  ASSUME Typed, SweepTypeOK, CleanInv, Sweep
  PROVE  DoomInv'
<1>1. first' = first
  BY TargetsOfSweep
<1>2. \A k \in Kinds, n \in Names : FirstAge(k, n)' = FirstAge(k, n)
  BY <1>1 DEF FirstAge
<1> USE DEF CleanInv, DoomInv, Does, SweepTypeOK, Entry, Names, FirstAge
<1>3. CASE GetLock \/ PutLock
  BY <1>1, <1>3 DEF GetLock, PutLock
<1>4. ASSUME NEW k \in Kinds, ReadRefs(k)
      PROVE  DoomInv'
  BY <1>1, <1>4 DEF ReadRefs
<1>5. ASSUME NEW k \in Kinds, ListEntries(k)
      PROVE  DoomInv'
  <2>1. Entries(k) \subseteq Entry(k)
    BY DEF Entries
  <2> QED
    BY <1>1, <1>5, <2>1 DEF ListEntries
<1>6. ASSUME NEW k \in Kinds, NEW n \in Names, Judge(k, n)
      PROVE  DoomInv'
  <2>1. n \in left[k] /\ n \in Entry(k)
    BY <1>6 DEF Judge
  <2>2. Age(k, n) = "old" => FirstAge(k, n) = "old"
    BY <2>1 DEF AgeInv
  <2> HIDE DEF FirstAge
  <2> QED
    BY <1>2, <1>6, <2>1, <2>2 DEF Judge
<1>7. ASSUME NEW k \in Kinds, DeleteEntry(k) \/ DeleteFails(k)
      PROVE  DoomInv'
  BY <1>1, <1>7 DEF DeleteEntry, DeleteFails
<1>8. CASE DeleteScript \/ DeleteAssets
  BY <1>1, <1>8 DEF DeleteScript, DeleteAssets, Kinds
<1> QED
  BY <1>3, <1>4, <1>5, <1>6, <1>7, <1>8 DEF Sweep

\* A cleanup crosses the deploys that run when it begins.
LEMMA CrossSweep ==
  ASSUME Typed, SweepTypeOK, CleanInv, Sweep
  PROVE  CrossInv' /\ crossed \subseteq crossed'
<1>1. UNCHANGED <<pc, puts, record>>
  BY TargetsOfSweep
<1>2. \A d \in Deploys : Busy(d)' = Busy(d)
  BY <1>1 DEF Busy, Running
<1>3. \A k : Referred(k)' = Referred(k)
  BY <1>1 DEF Referred
<1> USE DEF CleanInv, CrossInv
<1>4. CASE GetLock \/ PutLock
  BY <1>2, <1>3, <1>4 DEF GetLock, PutLock
<1>5. ASSUME sweep = "sweeping", UNCHANGED <<sweep, crossed>>,
             NEW k \in Kinds, refs' = refs \/ refs'[k] = Target(k),
             \A j \in Kinds \ {k} : step'[j] = step[j] /\ refs'[j] = refs[j],
             step[k] # "refs" \/ refs'[k] = Target(k)
      PROVE  CrossInv' /\ crossed \subseteq crossed'
  <2>1. Referred(k) # None => Referred(k) \in Target(k)
    BY DEF Referred, Target
  <2> QED
    BY <1>1, <1>2, <1>3, <1>5, <2>1
<1>6. ASSUME NEW k \in Kinds,
             \/ ReadRefs(k) \/ ListEntries(k) \/ DeleteEntry(k) \/ DeleteFails(k)
             \/ \E n \in Names : Judge(k, n)
      PROVE  CrossInv' /\ crossed \subseteq crossed'
  <2> USE DEF SweepTypeOK, Does
  <2>1. CASE ReadRefs(k)
    BY <1>5, <2>1 DEF ReadRefs
  <2>2. CASE ListEntries(k)
    BY <1>5, <2>2 DEF ListEntries
  <2>3. CASE DeleteEntry(k) \/ DeleteFails(k)
    BY <1>5, <2>3 DEF DeleteEntry, DeleteFails
  <2>4. CASE \E n \in Names : Judge(k, n)
    BY <1>5, <2>4 DEF Judge
  <2> QED
    BY <1>6, <2>1, <2>2, <2>3, <2>4
<1>7. CASE DeleteScript
  <2>1. /\ sweep = "sweeping" /\ UNCHANGED <<sweep, crossed, refs>>
        /\ step["script"] # "refs"
        /\ \A j \in Kinds \ {"script"} : step'[j] = step[j]
    BY <1>7 DEF DeleteScript, Does, SweepTypeOK
  <2> QED
    BY <1>5, <2>1 DEF Kinds
<1>8. CASE DeleteAssets
  <2>1. /\ sweep = "sweeping" /\ UNCHANGED <<sweep, crossed, refs>>
        /\ step["site"] # "refs"
        /\ \A j \in Kinds \ {"site"} : step'[j] = step[j]
    BY <1>8 DEF DeleteAssets, Does, SweepTypeOK
  <2> QED
    BY <1>5, <2>1 DEF Kinds
<1> QED
  BY <1>4, <1>6, <1>7, <1>8 DEF Sweep

\* A step of the cleanup keeps the parts about it.
LEMMA CleanSweep ==
  ASSUME Typed, SweepTypeOK, CleanInv, Sweep
  PROVE  CleanInv'
<1>1. UNCHANGED <<pc, plan, puts, record, first>>
  BY TargetsOfSweep
<1>2. \A k, n : FirstAge(k, n)' = FirstAge(k, n)
  BY <1>1 DEF FirstAge
<1>3. CrossInv' /\ crossed \subseteq crossed'
  BY CrossSweep
<1>4. ASSUME NEW k \in Kinds, NEW n \in Entry(k), There(k, n), ~ There(k, n)'
      PROVE  /\ n \notin refs[k] /\ FirstAge(k, n) = "old"
             /\ step[k] # "refs" /\ sweep = "sweeping"
  BY <1>4, TargetsOfSweep DEF CleanInv, CrossInv, DoomInv
<1>5. AgeInv'
  BY <1>2, TargetsOfSweep DEF CleanInv, AgeInv, Entry
<1>6. CarryInv'
  <2> SUFFICES ASSUME NEW k \in Kinds, NEW d \in Deploys, Carries(k, d)',
                      ~ There(k, NameOf(k, d))'
               PROVE  d \in crossed' /\ FirstAge(k, NameOf(k, d))' = "old"
    BY DEF CarryInv
  <2>1. /\ Carries(k, d) /\ NameOf(k, d)' = NameOf(k, d)
        /\ NameOf(k, d) \in Entry(k)
    BY <1>1, TargetShapes DEF Carries, NameOf, ScriptName
  <2>2. ~ There(k, NameOf(k, d))'
    OBVIOUS
  <2>3. CASE ~ There(k, NameOf(k, d))
    BY <1>2, <1>3, <2>1, <2>3 DEF CleanInv, CarryInv
  <2>4. CASE There(k, NameOf(k, d))
    <3>1. Busy(d)
      BY <2>1 DEF Carries, Busy, Running, Over
    <3>2. PICK n \in Entry(k) : n = NameOf(k, d)
      BY <2>1
    <3>3. There(k, n) /\ ~ There(k, n)'
      BY <2>1, <2>2, <2>4, <3>2 DEF There
    <3>4. FirstAge(k, n) = "old" /\ sweep = "sweeping"
      BY <1>4, <3>3
    <3> QED
      BY <1>2, <1>3, <2>1, <3>1, <3>2, <3>4 DEF CleanInv, CrossInv
  <2> QED
    BY <2>3, <2>4
<1>7. TargetInv'
  <2> SUFFICES ASSUME NEW k \in Kinds, Referred(k)' # None,
                      ~ There(k, Referred(k))'
               PROVE  record'.by \in crossed' /\ FirstAge(k, Referred(k))' = "old"
    BY DEF TargetInv
  <2>1. /\ Referred(k)' = Referred(k) /\ Referred(k) # None
        /\ Referred(k) \in Entry(k)
    BY <1>1, TargetShapes DEF Referred
  <2>2. CASE ~ There(k, Referred(k))
    BY <1>1, <1>2, <1>3, <2>1, <2>2 DEF CleanInv, TargetInv
  <2>3. CASE There(k, Referred(k))
    <3>1. PICK n \in Entry(k) : n = Referred(k)
      BY <2>1
    <3>2. There(k, n) /\ ~ There(k, n)'
      BY <2>1, <2>3, <3>1 DEF There
    <3>3. n \notin refs[k] /\ FirstAge(k, n) = "old" /\ step[k] # "refs"
      BY <1>4, <3>2
    <3> QED
      BY <1>1, <1>2, <1>3, <2>1, <3>1, <3>3 DEF CleanInv, CrossInv
  <2> QED
    BY <2>2, <2>3
<1> QED
  BY <1>3, <1>5, <1>6, <1>7, DoomSweep DEF CleanInv

\* Every step keeps them.
LEMMA CleanStep ==
  ASSUME Typed, SweepTypeOK, CleanInv, [Next]_vars
  PROVE  CleanInv'
<1>1. CASE UNCHANGED vars
  BY <1>1 DEF vars, appVars, sweepVars, local, live, history, CleanInv, AgeInv,
              DoomInv, CrossInv, CarryInv, TargetInv, Age, FirstAge, Referred,
              There, Carries, NameOf, ScriptName, Busy, Running
<1> QED
  BY <1>1, CleanDeploy, CleanSweep, Zenon DEF Next

-----------------------------------------------------------------------------
(* The classes and the cleanup together *)

CleanupInv == MigrationsInv /\ ClassInv /\ CleanInv /\ RefusedForAReason

\* The pasts left their classes on record.
LEMMA ClassInit == Init => ClassInv
<1> SUFFICES ASSUME Init PROVE ClassInv
  OBVIOUS
<1>1. /\ first \in Pasts /\ Stable = first.scripts[StableName]
      /\ classRecords = first.classRecords /\ swept = first.swept
      /\ \A d \in Deploys : pc[d] = "new" /\ fresh[d] = {}
  BY DEF Init, AppInit, Stable
<1>2. TagInv /\ UnrecordedInv
  BY <1>1, PastsAssumption DEF TagInv, UnrecordedInv
<1>3. RecordsInv
  BY <1>1, PastsAssumption DEF RecordsInv
<1> QED
  BY <1>1, <1>2, <1>3 DEF ClassInv, FreshInv, SoloInv

\* The pasts left what is current.
LEMMA CleanInit == Init => CleanInv
<1> SUFFICES ASSUME Init PROVE CleanInv
  OBVIOUS
<1>1. /\ first \in Pasts /\ record = first.record
      /\ scripts = first.scripts /\ sites = first.sites
      /\ scriptKeys = first.scriptKeys /\ siteKeys = first.siteKeys
      /\ \A d \in Deploys : pc[d] = "new" /\ puts[d] = {}
      /\ sweep = "idle" /\ crossed = {}
      /\ \A k \in Kinds : step[k] = "refs" /\ left[k] = {}
  BY DEF Init, AppInit
<1>2. AgeInv
  BY <1>1 DEF AgeInv, Age, FirstAge
<1>3. DoomInv /\ CrossInv /\ CarryInv
  BY <1>1 DEF DoomInv, CrossInv, CarryInv, Carries
<1>4. TargetInv
  BY <1>1, PastsAssumption DEF TargetInv, Referred, There, Kinds
<1> QED
  BY <1>2, <1>3, <1>4 DEF CleanInv

\* At first all parts hold.
LEMMA CleanupInit == Init => CleanupInv
<1>1. Init => RefusedForAReason
  BY DEF Init, AppInit, RefusedForAReason
<1> QED
  BY <1>1, MigrationsInit, ClassInit, CleanInit DEF CleanupInv

\* All parts are an invariant.
LEMMA CleanupHolds == Spec => []CleanupInv
<1>1. CleanupInv /\ [Next]_vars => CleanupInv'
  <2> SUFFICES ASSUME CleanupInv, [Next]_vars
               PROVE  CleanupInv'
    OBVIOUS
  <2>1. MigrationsInv'
    BY TypeStep, MigrationStep, MetStep, OnceStep, SchemaStep, OrderStep,
       AppliedOnceStep DEF CleanupInv, MigrationsInv, Typed
  <2>2. ClassInv'
    BY <2>1, ClassStep DEF CleanupInv, MigrationsInv
  <2>3. CleanInv'
    BY CleanStep DEF CleanupInv, MigrationsInv
  <2>4. RefusedForAReason'
    BY RefusedStep DEF CleanupInv, MigrationsInv
  <2> QED
    BY <2>1, <2>2, <2>3, <2>4 DEF CleanupInv
<1> QED
  BY <1>1, CleanupInit, PTL DEF Spec

(***************************************************************************)
(* As long as no cleanup has deleted the app's script for Durable Objects, *)
(* the classes on record exist in it, whatever deploys overlap, fail or    *)
(* end.  A sweep leaves the records behind, which are wrong from then on:  *)
(* what that may cost a later deploy is a reason of RefusedForAReason.     *)
(***************************************************************************)
THEOREM RecordsAreReal == Spec => []RecordedClassesExist
<1>1. CleanupInv => RecordedClassesExist
  BY DEF CleanupInv, ClassInv, RecordsInv, RecordedClassesExist, Stable
<1> QED
  BY <1>1, CleanupHolds, PTL

(***************************************************************************)
(* The cleanup deletes what the deployment record refers to only when a    *)
(* deploy that ran beside it took up a commit whose entry was old.         *)
(***************************************************************************)
THEOREM CurrentStays == Spec => []CurrentTargetsSurvive
<1>1. CleanupInv => CurrentTargetsSurvive
  BY TargetsMeant DEF CleanupInv, CleanInv
<1> QED
  BY <1>1, CleanupHolds, PTL

(***************************************************************************)
(* A deploy that Cloudflare refuses has met another, or an earlier one     *)
(* ended between a change at Cloudflare and W7S's record of it, or a       *)
(* cleanup has deleted the script whose classes are on record.             *)
(***************************************************************************)
THEOREM RefusalsHaveReasons == Spec => []RefusedForAReason
<1>1. CleanupInv => RefusedForAReason
  BY DEF CleanupInv
<1> QED
  BY <1>1, CleanupHolds, PTL
=============================================================================
