----------------------------- MODULE AppResources -----------------------------
(***************************************************************************)
(* What a deploy of an app creates at Cloudflare (storageProvisioner.ts,   *)
(* queueProvisioner.ts, isolatePublisher.ts of deploy/): namespaces,       *)
(* buckets, databases and queues, the migrations of its database, the      *)
(* Durable Object classes of its Worker, and the Worker's script itself,   *)
(* next to the static site (staticPublisher.ts) and the record that makes  *)
(* them current (storeDeploymentRecord).                                   *)
(*                                                                         *)
(* Whether something exists is asked of W7S's own records first, then of   *)
(* Cloudflare, and what was created is recorded only afterwards: a deploy  *)
(* can end between any two of these calls, and another deploy of the app   *)
(* can run beside it.  The questions are what the next deploy then finds,  *)
(* and whether the code that is published has the schema and the classes   *)
(* it was deployed with.                                                   *)
(***************************************************************************)
EXTENDS Naturals, Sequences, FiniteSets

CONSTANTS
  Deploys,     \* deploy requests of one app in one environment
  Plans,       \* what a request can ask for (see Plan)
  Pasts,       \* what earlier deploys have left (see Past)
  Commits,
  StableName,  \* the script name of an app with Durable Objects
  None,        \* no name, no deploy
  Resources,   \* namespaces, buckets, databases and queues it can declare
  Databases,   \* those with migrations, here at most one
  Queues,      \* those with a consumer
  Files,       \* migration files with content, numbered as they are sorted
  Classes      \* Durable Object classes

Names == Commits \cup {StableName}

(***************************************************************************)
(* uses: the resources in the order they are provisioned, without repeats; *)
(* site: the archive has a static site.                                    *)
(***************************************************************************)
Plan == [commit : Commits, uses : Seq(Resources), files : SUBSET Files,
         classes : SUBSET Classes, site : BOOLEAN]

(***************************************************************************)
(* A script of the dispatch namespace.  Its tag names the last migration   *)
(* of its classes; W7S hashes the class names, which stand for the hash    *)
(* here, {} for no tag.  files: the migrations its code was deployed with. *)
(***************************************************************************)
Script == [up : BOOLEAN, tag : SUBSET Classes, classes : SUBSET Classes,
           files : SUBSET Files]
NoScript == [up |-> FALSE, tag |-> {}, classes |-> {}, files |-> {}]

Ages == {"none", "old", "fresh"}  \* of an entry: absent, or its deployedAt
Current == [script : Names \cup {None}, site : Commits \cup {None},
            by : Deploys \cup {None}]
Past == [scripts : [Names -> Script], scriptKeys : [Names -> Ages],
         sites : SUBSET Commits, siteKeys : [Commits -> Ages],
         classRecords : SUBSET Classes, record : Current,
         swept : SUBSET Names]

ASSUME NoneAssumption == None \notin Names \cup Deploys
ASSUME StableAssumption == StableName \notin Commits
ASSUME FilesAssumption == Files \subseteq Nat
ASSUME PlansAssumption ==
  /\ Plans \subseteq Plan
  /\ \A asked \in Plans :
       asked.files # {} =>
         \E i \in 1..Len(asked.uses) : asked.uses[i] \in Databases
ASSUME ResourcesAssumption ==
  /\ Databases \subseteq Resources /\ Queues \subseteq Resources
  /\ Databases \cap Queues = {}
  /\ \A x, y \in Databases : x = y
(***************************************************************************)
(* What is there was created by deploys that recorded it, one at a time;   *)
(* earlier cleanups may have swept scripts, though not the current one.    *)
(***************************************************************************)
ASSUME PastsAssumption ==
  /\ Pasts \subseteq Past
  /\ \A past \in Pasts : LET shared == past.scripts[StableName] IN
       /\ past.record.by = None
       /\ past.record.script # None => past.scripts[past.record.script].up
       /\ past.record.site # None => past.record.site \in past.sites
       /\ \A n \in Names : past.scripts[n].files = {}
       /\ shared.tag \subseteq shared.classes
       /\ shared.tag = {} => shared.classes = {}
       /\ shared.classes \subseteq past.classRecords
       /\ StableName \in past.swept \/ past.classRecords \subseteq shared.classes

VARIABLES
  pc,            \* pc[d]: the call d makes next
  plan,          \* plan[d]: what d asks for
  rest,          \* rest[d]: resources it has yet to provision
  files,         \* files[d]: migrations it has yet to look at
  fresh,         \* fresh[d]: classes found unrecorded; then those to record
  seen,          \* seen[d]: the tag it read
  puts,          \* puts[d]: writes of storeDeploymentRecord in flight
  exists,        \* resources that exist at Cloudflare
  consumed,      \* queues whose consumer is W7S
  recorded,      \* resources W7S has a record of
  applied,       \* the database's history: migrations executed, by whom
  journal,       \* the rows of _w7s_migrations
  classRecords,  \* classes W7S has a record of
  scripts,       \* scripts[n]: the script of the name n
  scriptKeys,    \* scriptKeys[n]: worker_script:v1, W7S's entry for it
  sites,         \* commits whose assets are in R2
  siteKeys,      \* siteKeys[c]: static_manifest:v1 of commit c
  record,        \* the deployment record
  first,         \* history: what earlier deploys had left
  met,           \* history: pairs of deploys that overlapped
  torn,          \* history: migrations executed by a deploy that then ended
  halted         \* history: deploys that ended with their classes unrecorded

local == <<plan, rest, files, fresh, seen, puts>>
cloud == <<exists, consumed, recorded>>
database == <<applied, journal>>
live == <<scripts, scriptKeys, sites, siteKeys, record>>
history == <<first, met, torn, halted>>
appVars == <<pc, local, cloud, database, classRecords, live, history>>

AppInit ==
  /\ first \in Pasts
  /\ plan \in [Deploys -> Plans]
  /\ pc = [d \in Deploys |-> "new"]
  /\ rest = [d \in Deploys |-> <<>>]
  /\ files = [d \in Deploys |-> {}]
  /\ fresh = [d \in Deploys |-> {}]
  /\ seen = [d \in Deploys |-> {}]
  /\ puts = [d \in Deploys |-> {}]
  /\ exists = {} /\ consumed = {} /\ recorded = {}
  /\ applied = <<>> /\ journal = {}
  /\ classRecords = first.classRecords
  /\ scripts = first.scripts /\ scriptKeys = first.scriptKeys
  /\ sites = first.sites /\ siteKeys = first.siteKeys
  /\ record = first.record
  /\ met = {} /\ torn = {} /\ halted = {}

Over == {"new", "done", "failed", "refused"}
Running(d) == pc[d] \notin Over
Goto(d, call) == pc' = [pc EXCEPT ![d] = call]

Begin(d) ==
  /\ pc[d] = "new"
  /\ Goto(d, "load")
  /\ rest' = [rest EXCEPT ![d] = plan[d].uses]
  /\ met' = met \cup {{d, e} : e \in {e \in Deploys :
                                        Running(e) \/ puts[e] # {}}}
  /\ UNCHANGED <<plan, files, fresh, seen, puts, cloud, database,
                 classRecords, live, first, torn, halted>>

-----------------------------------------------------------------------------
(* Resources *)

Provisioned(d) ==
  /\ Goto(d, "load")
  /\ rest' = [rest EXCEPT ![d] = Tail(@)]
  /\ UNCHANGED files

(***************************************************************************)
(* With its record, a resource is ready; what the code does next depends   *)
(* on its kind.                                                            *)
(***************************************************************************)
Ready(d) ==
  LET r == Head(rest[d]) IN
  \/ r \in Databases /\ Goto(d, "select") /\ UNCHANGED rest
       /\ files' = [files EXCEPT ![d] = plan[d].files]
  \/ r \in Queues /\ Goto(d, "consumers") /\ UNCHANGED <<rest, files>>
  \/ r \notin Databases \cup Queues /\ Provisioned(d)

LoadRecord(d) ==
  /\ pc[d] = "load" /\ rest[d] # <<>>
  /\ \/ Head(rest[d]) \in recorded /\ Ready(d)
     \/ /\ Head(rest[d]) \notin recorded
        /\ Goto(d, "find") /\ UNCHANGED <<rest, files>>
  /\ UNCHANGED <<plan, fresh, seen, puts, cloud, database, classRecords,
                 live, history>>

(***************************************************************************)
(* findOrCreate: Cloudflare's list, by name, and then its create.          *)
(***************************************************************************)
Find(d) ==
  /\ pc[d] = "find"
  /\ Goto(d, IF Head(rest[d]) \in exists THEN "record" ELSE "create")
  /\ UNCHANGED <<local, cloud, database, classRecords, live, history>>

Create(d) ==
  /\ pc[d] = "create"
  /\ \/ /\ Head(rest[d]) \notin exists
        /\ exists' = exists \cup {Head(rest[d])}
        /\ Goto(d, "record")
     \/ /\ Head(rest[d]) \in exists  \* the name is taken
        /\ Goto(d, "refused") /\ UNCHANGED exists
  /\ UNCHANGED <<local, consumed, recorded, database, classRecords,
                 live, history>>

Record(d) ==
  /\ pc[d] = "record"
  /\ recorded' = recorded \cup {Head(rest[d])}
  /\ Ready(d)
  /\ UNCHANGED <<plan, fresh, seen, puts, exists, consumed, database,
                 classRecords, live, history>>

(***************************************************************************)
(* ensureQueueConsumer: a queue that has a consumer by now is as good.     *)
(***************************************************************************)
SeekConsumer(d) ==
  /\ pc[d] = "consumers"
  /\ IF Head(rest[d]) \in consumed THEN Provisioned(d)
     ELSE Goto(d, "consume") /\ UNCHANGED <<rest, files>>
  /\ UNCHANGED <<plan, fresh, seen, puts, cloud, database, classRecords,
                 live, history>>

AddConsumer(d) ==
  /\ pc[d] = "consume"
  /\ consumed' = consumed \cup {Head(rest[d])}
  /\ Provisioned(d)
  /\ UNCHANGED <<plan, fresh, seen, puts, exists, recorded, database,
                 classRecords, live, history>>

-----------------------------------------------------------------------------
(* Migrations *)

\* Mutant: the files are taken in the reverse order.
DueLast(d, m) == m \in files[d] /\ \A n \in files[d] : n <= m

Due(d, m) == m \in files[d] /\ \A n \in files[d] : m <= n

Applied == {applied[i].file : i \in 1..Len(applied)}

(***************************************************************************)
(* applyD1Migrations, file by file: skipped when _w7s_migrations has it.   *)
(***************************************************************************)
Select(d) ==
  /\ pc[d] = "select"
  /\ \/ files[d] = {} /\ Provisioned(d)
     \/ \E m \in files[d] :
          /\ Due(d, m)
          /\ \/ /\ m \in journal
                /\ files' = [files EXCEPT ![d] = @ \ {m}]
                /\ UNCHANGED <<pc, rest>>
             \/ /\ m \notin journal
                /\ Goto(d, "execute") /\ UNCHANGED <<rest, files>>
  /\ UNCHANGED <<plan, fresh, seen, puts, cloud, database, classRecords,
                 live, history>>

\* Mutant: a statement that has failed counts as executed.
ExecuteUnchecked(d) ==
  /\ pc[d] = "execute"
  /\ \E m \in files[d] :
       /\ Due(d, m)
       /\ applied' \in {applied, Append(applied, [file |-> m, by |-> d])}
       /\ Goto(d, "insert")
  /\ UNCHANGED <<local, cloud, journal, classRecords, live, history>>

(***************************************************************************)
(* The file's SQL.  Applied a second time it may be refused, as CREATE     *)
(* TABLE is.                                                               *)
(***************************************************************************)
Execute(d) ==
  /\ pc[d] = "execute"
  /\ \E m \in files[d] :
       /\ Due(d, m)
       /\ \/ /\ applied' = Append(applied, [file |-> m, by |-> d])
             /\ Goto(d, "insert")
          \/ /\ m \in Applied
             /\ Goto(d, "refused") /\ UNCHANGED applied
  /\ UNCHANGED <<local, cloud, journal, classRecords, live, history>>

\* Mutant: a row that is there already does not matter, none is added.
InsertNothing(d) ==
  /\ pc[d] = "insert"
  /\ files' = [files EXCEPT ![d] = {m \in @ : ~ Due(d, m)}]
  /\ Goto(d, "select")
  /\ UNCHANGED <<plan, rest, fresh, seen, puts, cloud, database,
                 classRecords, live, history>>

(***************************************************************************)
(* The row that records it, whose name is the primary key.                 *)
(***************************************************************************)
Insert(d) ==
  /\ pc[d] = "insert"
  /\ \E m \in files[d] :
       /\ Due(d, m)
       /\ \/ /\ m \notin journal
             /\ journal' = journal \cup {m}
             /\ files' = [files EXCEPT ![d] = @ \ {m}]
             /\ Goto(d, "select")
          \/ /\ m \in journal
             /\ Goto(d, "refused") /\ UNCHANGED <<journal, files>>
  /\ UNCHANGED <<plan, rest, fresh, seen, puts, cloud, applied,
                 classRecords, live, history>>

-----------------------------------------------------------------------------
(* Classes and the script *)

ScriptName(d) ==
  IF plan[d].classes # {} THEN StableName ELSE plan[d].commit

(***************************************************************************)
(* The classes that are not on record.  The code looks them up one by one  *)
(* and before its queues: as records of classes are never deleted, it can  *)
(* only miss one that another deploy, running beside it, recorded between. *)
(***************************************************************************)
LoadClasses(d) ==
  /\ pc[d] = "load" /\ rest[d] = <<>>
  /\ fresh' = [fresh EXCEPT ![d] = plan[d].classes \ classRecords]
  /\ Goto(d, IF plan[d].classes = {} THEN "upload" ELSE "tag")
  /\ UNCHANGED <<plan, rest, files, seen, puts, cloud, database,
                 classRecords, live, history>>

ReadTag(d) ==
  /\ pc[d] = "tag"
  /\ seen' = [seen EXCEPT ![d] = scripts[StableName].tag]
  /\ Goto(d, "upload")
  /\ UNCHANGED <<plan, rest, files, fresh, puts, cloud, database,
                 classRecords, live, history>>

\* Mutant: every class is created whenever the tag changes.
CreatesAll(d) == IF seen[d] = plan[d].classes THEN {} ELSE plan[d].classes

(***************************************************************************)
(* buildDurableObjectUploadMigrations: nothing when the script has the tag *)
(* of the plan's classes; the unrecorded ones when it has another, and all *)
(* when it has none.                                                       *)
(***************************************************************************)
Creates(d) ==
  IF seen[d] = plan[d].classes THEN {}
  ELSE IF seen[d] = {} THEN plan[d].classes
  ELSE fresh[d]

(***************************************************************************)
(* What Cloudflare requires of an upload: a migration starts from the      *)
(* script's tag and creates classes that are new, and every class that is  *)
(* bound exists then.                                                      *)
(***************************************************************************)
Accepted(d) ==
  LET script == scripts[ScriptName(d)] IN
  /\ Creates(d) # {} => seen[d] = script.tag
  /\ Creates(d) \cap script.classes = {}
  /\ plan[d].classes \subseteq script.classes \cup Creates(d)

Uploaded(d) ==
  LET script == scripts[ScriptName(d)] IN
  [up |-> TRUE,
   tag |-> IF Creates(d) = {} THEN script.tag ELSE plan[d].classes,
   classes |-> script.classes \cup Creates(d),
   files |-> plan[d].files]

\* Mutant: the classes are recorded although the upload is refused.
UploadAndRecord(d) ==
  /\ pc[d] = "upload"
  /\ \/ /\ Accepted(d)
        /\ scripts' = [scripts EXCEPT ![ScriptName(d)] = Uploaded(d)]
        /\ Goto(d, "classes")
     \/ /\ ~ Accepted(d)
        /\ Goto(d, "refused") /\ UNCHANGED scripts
  /\ fresh' = [fresh EXCEPT ![d] = plan[d].classes]
  /\ classRecords' = classRecords \cup plan[d].classes
  /\ UNCHANGED <<plan, rest, files, seen, puts, cloud, database,
                 scriptKeys, sites, siteKeys, record, history>>

Upload(d) ==
  /\ pc[d] = "upload"
  /\ \/ /\ Accepted(d)
        /\ scripts' = [scripts EXCEPT ![ScriptName(d)] = Uploaded(d)]
        /\ fresh' = [fresh EXCEPT ![d] = plan[d].classes]
        /\ Goto(d, "classes")
     \/ /\ ~ Accepted(d)
        /\ Goto(d, "refused") /\ UNCHANGED <<scripts, fresh>>
  /\ UNCHANGED <<plan, rest, files, seen, puts, cloud, database,
                 classRecords, scriptKeys, sites, siteKeys, record, history>>

(***************************************************************************)
(* storeDurableObjectClassRecords: awaited together, in any order.  Any of *)
(* them may have landed when the deploy stops; what the code may still put *)
(* a moment after that is taken for lost.                                  *)
(***************************************************************************)
RecordClass(d, c) ==
  /\ pc[d] = "classes" /\ c \in fresh[d]
  /\ classRecords' = classRecords \cup {c}
  /\ fresh' = [fresh EXCEPT ![d] = @ \ {c}]
  /\ UNCHANGED <<pc, plan, rest, files, seen, puts, cloud, database,
                 live, history>>

-----------------------------------------------------------------------------
(* The site and the record *)

Publish(d) ==
  /\ pc[d] = "classes" /\ fresh[d] = {}
  /\ \/ plan[d].site /\ Goto(d, "assets") /\ UNCHANGED puts
     \/ /\ ~ plan[d].site
        /\ Goto(d, "store")
        /\ puts' = [puts EXCEPT ![d] = {"record", "script"}]
  /\ UNCHANGED <<plan, rest, files, fresh, seen, cloud, database,
                 classRecords, live, history>>

PutAssets(d) ==
  /\ pc[d] = "assets"
  /\ sites' = sites \cup {plan[d].commit}
  /\ Goto(d, "manifest")
  /\ UNCHANGED <<local, cloud, database, classRecords, scripts, scriptKeys,
                 siteKeys, record, history>>

PutManifest(d) ==
  /\ pc[d] = "manifest"
  /\ siteKeys' = [siteKeys EXCEPT ![plan[d].commit] = "fresh"]
  /\ puts' = [puts EXCEPT ![d] = {"record", "script"}]
  /\ Goto(d, "store")
  /\ UNCHANGED <<plan, rest, files, fresh, seen, cloud, database,
                 classRecords, scripts, scriptKeys, sites, record, history>>

(***************************************************************************)
(* storeDeploymentRecord: the record and the script's entry, awaited       *)
(* together; either may land after the request has failed.                 *)
(***************************************************************************)
StoreRecord(d) ==
  /\ "record" \in puts[d]
  /\ record' = [script |-> ScriptName(d), by |-> d,
                site |-> IF plan[d].site THEN plan[d].commit ELSE None]
  /\ puts' = [puts EXCEPT ![d] = @ \ {"record"}]
  /\ UNCHANGED <<pc, plan, rest, files, fresh, seen, cloud, database,
                 classRecords, scripts, scriptKeys, sites, siteKeys, history>>

StoreScript(d) ==
  /\ "script" \in puts[d]
  /\ scriptKeys' = [scriptKeys EXCEPT ![ScriptName(d)] = "fresh"]
  /\ puts' = [puts EXCEPT ![d] = @ \ {"script"}]
  /\ UNCHANGED <<pc, plan, rest, files, fresh, seen, cloud, database,
                 classRecords, scripts, sites, siteKeys, record, history>>

Finish(d) ==
  /\ pc[d] = "store" /\ puts[d] = {}
  /\ Goto(d, "done")
  /\ UNCHANGED <<local, cloud, database, classRecords, live, history>>

(***************************************************************************)
(* A call fails, or the request is terminated.                             *)
(***************************************************************************)
Stop(d) ==
  /\ Running(d)
  /\ Goto(d, "failed")
  /\ torn' = IF pc[d] = "insert" THEN torn \cup {m \in files[d] : Due(d, m)}
             ELSE torn
  /\ halted' = IF pc[d] = "classes" /\ fresh[d] # {} THEN halted \cup {d}
               ELSE halted
  /\ UNCHANGED <<local, cloud, database, classRecords, live, first, met>>

Deploy(d) ==
  \/ Begin(d) \/ LoadRecord(d) \/ Find(d) \/ Create(d) \/ Record(d)
  \/ SeekConsumer(d) \/ AddConsumer(d)
  \/ Select(d) \/ Execute(d) \/ Insert(d)
  \/ LoadClasses(d) \/ ReadTag(d) \/ Upload(d)
  \/ \E c \in Classes : RecordClass(d, c)
  \/ Publish(d) \/ PutAssets(d) \/ PutManifest(d)
  \/ StoreRecord(d) \/ StoreScript(d) \/ Finish(d)
  \/ Stop(d)

-----------------------------------------------------------------------------
(* Properties of the deploys; the specification is completed by Cleanup.   *)

\* Every variable has its type.
AppTypeOK ==
  /\ pc \in [Deploys -> Over \cup {"load", "find", "create", "record",
                "consumers", "consume", "select", "execute", "insert", "tag",
                "upload", "classes", "assets", "manifest", "store"}]
  /\ plan \in [Deploys -> Plans]
  /\ rest \in [Deploys -> Seq(Resources)]
  /\ files \in [Deploys -> SUBSET Files]
  /\ fresh \in [Deploys -> SUBSET Classes]
  /\ seen \in [Deploys -> SUBSET Classes]
  /\ puts \in [Deploys -> SUBSET {"record", "script"}]
  /\ exists \subseteq Resources /\ consumed \subseteq Resources
  /\ recorded \subseteq Resources
  /\ applied \in Seq([file : Files, by : Deploys])
  /\ journal \subseteq Files
  /\ classRecords \subseteq Classes
  /\ scripts \in [Names -> Script] /\ scriptKeys \in [Names -> Ages]
  /\ sites \subseteq Commits /\ siteKeys \in [Commits -> Ages]
  /\ record \in Current
  /\ first \in Pasts
  /\ met \subseteq SUBSET Deploys
  /\ torn \subseteq Files /\ halted \subseteq Deploys

(***************************************************************************)
(* Code is published only on the schema it was deployed with, whatever     *)
(* other deploys do and wherever they end: the migrations of every script  *)
(* have been executed.                                                     *)
(***************************************************************************)
SchemaBeforeCode ==
  \A n \in Names : scripts[n].files \subseteq Applied

(***************************************************************************)
(* "D1 migrations are ... sorted by filename" (docs/deploy-api.md:237): a  *)
(* deploy executes a migration only after those of its own that sort       *)
(* before it, also when the deploys of an app overlap.                     *)
(***************************************************************************)
AppliedInOrder ==
  \A i \in 1..Len(applied), m \in Files :
    /\ m \in plan[applied[i].by].files
    /\ m < applied[i].file
    => \E j \in 1..i : applied[j].file = m

(***************************************************************************)
(* "... and applied once" (docs/deploy-api.md:237) holds but for two ways: *)
(* the deploy ended between executing it and recording it, or two deploys  *)
(* that have it overlapped.                                                *)
(***************************************************************************)
AppliedOnce ==
  \A i, j \in 1..Len(applied) :
    /\ i # j
    /\ applied[i].file = applied[j].file
    => \/ applied[i].file \in torn
       \/ \E d, e \in Deploys :
            /\ {d, e} \in met
            /\ applied[i].file \in plan[d].files \cap plan[e].files

=============================================================================
