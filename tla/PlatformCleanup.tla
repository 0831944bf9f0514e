---------------------------- MODULE PlatformCleanup ----------------------------
(***************************************************************************)
(* The hourly cleanup (cleanup.ts) beside the deploys of an app.  Sites    *)
(* and scripts whose entry is older than the retention and which no        *)
(* deployment record refers to are deleted: what the entry stands for      *)
(* first (the assets in R2, the script at Cloudflare), then the entry.     *)
(* Which ones are referred to is read before the entries are, and an entry *)
(* before it is acted on, so that a deploy of an old commit may come       *)
(* between.  A deploy takes far less time than the retention: only what    *)
(* earlier deploys left can be old.                                        *)
(*                                                                         *)
(* The cleanup also deletes expired suspensions (see DailyLimits) and old  *)
(* usage rollups; nothing here depends on either.                          *)
(***************************************************************************)
EXTENDS AppResources

Kinds == {"script", "site"}

VARIABLES
  lock,     \* cleanup_lock:v1 of this hour is stored
  sweep,    \* the cleanup: "idle", "locking", "sweeping", "skipped"
  step,     \* step[k]: what it does next about the kind k
  refs,     \* refs[k]: the names that the record referred to
  left,     \* left[k]: names of listed entries not looked at
  doomed,   \* doomed[k]: the name that is being deleted, or None
  crossed,  \* history: deploys that ran while the cleanup did
  swept     \* history: scripts it, or an earlier cleanup, has deleted

sweepVars == <<lock, sweep, step, refs, left, doomed, crossed, swept>>
vars == <<appVars, sweepVars>>

Init ==
  /\ AppInit
  /\ lock \in BOOLEAN
  /\ sweep = "idle"
  /\ step = [k \in Kinds |-> "refs"]
  /\ refs = [k \in Kinds |-> {}]
  /\ left = [k \in Kinds |-> {}]
  /\ doomed = [k \in Kinds |-> None]
  /\ crossed = {} /\ swept = first.swept

Busy(d) == Running(d) \/ puts[d] # {}

(***************************************************************************)
(* The hour's lock is read, and then written.                              *)
(***************************************************************************)
GetLock ==
  /\ sweep = "idle"
  /\ sweep' = IF lock THEN "skipped" ELSE "locking"
  /\ UNCHANGED <<appVars, lock, step, refs, left, doomed, crossed, swept>>

PutLock ==
  /\ sweep = "locking"
  /\ sweep' = "sweeping"
  /\ lock' = TRUE
  /\ crossed' = {d \in Deploys : Busy(d)}
  /\ UNCHANGED <<appVars, step, refs, left, doomed, swept>>

Does(k, now, next) ==
  /\ sweep = "sweeping" /\ step[k] = now
  /\ step' = [step EXCEPT ![k] = next]
  /\ UNCHANGED <<lock, sweep, crossed>>

Target(k) == {IF k = "script" THEN record.script ELSE record.site} \ {None}

ReadRefs(k) ==
  /\ Does(k, "refs", "list")
  /\ refs' = [refs EXCEPT ![k] = Target(k)]
  /\ UNCHANGED <<appVars, left, doomed, swept>>

Age(k, n) == IF k = "script" THEN scriptKeys[n] ELSE siteKeys[n]
Entries(k) == {n \in IF k = "script" THEN Names ELSE Commits :
                 Age(k, n) # "none"}

ListEntries(k) ==
  /\ Does(k, "list", "each")
  /\ left' = [left EXCEPT ![k] = Entries(k)]
  /\ UNCHANGED <<appVars, refs, doomed, swept>>

\* Mutant: the retention is not waited for.
JudgeAll(k, n) ==
  /\ n \in left[k]
  /\ left' = [left EXCEPT ![k] = @ \ {n}]
  /\ \/ /\ n \notin refs[k]
        /\ Does(k, "each", "delete")
        /\ doomed' = [doomed EXCEPT ![k] = n]
     \/ /\ n \in refs[k]
        /\ Does(k, "each", "each") /\ UNCHANGED doomed
  /\ UNCHANGED <<appVars, refs, swept>>

Judge(k, n) ==
  /\ n \in left[k]
  /\ left' = [left EXCEPT ![k] = @ \ {n}]
  /\ \/ /\ n \notin refs[k] /\ Age(k, n) = "old"
        /\ Does(k, "each", "delete")
        /\ doomed' = [doomed EXCEPT ![k] = n]
     \/ /\ n \in refs[k] \/ Age(k, n) # "old"
        /\ Does(k, "each", "each") /\ UNCHANGED doomed
  /\ UNCHANGED <<appVars, refs, swept>>

(***************************************************************************)
(* deleteDispatchScript (404 counts as deleted); the script's classes, and *)
(* what their objects store, go with it.                                   *)
(***************************************************************************)
DeleteScript ==
  /\ Does("script", "delete", "forget")
  /\ scripts' = [scripts EXCEPT ![doomed["script"]] = NoScript]
  /\ swept' = swept \cup {doomed["script"]}
  /\ UNCHANGED <<pc, local, cloud, database, classRecords, scriptKeys, sites,
                 siteKeys, record, history, refs, left, doomed>>

DeleteAssets ==
  /\ Does("site", "delete", "forget")
  /\ sites' = sites \ {doomed["site"]}
  /\ UNCHANGED <<pc, local, cloud, database, classRecords, scripts,
                 scriptKeys, siteKeys, record, history,
                 refs, left, doomed, swept>>

DeleteEntry(k) ==
  /\ Does(k, "forget", "each")
  /\ \/ /\ k = "script"
        /\ scriptKeys' = [scriptKeys EXCEPT ![doomed[k]] = "none"]
        /\ UNCHANGED siteKeys
     \/ /\ k = "site"
        /\ siteKeys' = [siteKeys EXCEPT ![doomed[k]] = "none"]
        /\ UNCHANGED scriptKeys
  /\ doomed' = [doomed EXCEPT ![k] = None]
  /\ UNCHANGED <<pc, local, cloud, database, classRecords, scripts, sites,
                 record, history, refs, left, swept>>

(***************************************************************************)
(* A deletion fails: a script is left for another hour, for a site the     *)
(* error ends the cleanup of sites.                                        *)
(***************************************************************************)
DeleteFails(k) ==
  /\ \E now \in {"delete", "forget"} :
       Does(k, now, IF k = "script" THEN "each" ELSE "over")
  /\ doomed' = [doomed EXCEPT ![k] = None]
  /\ UNCHANGED <<appVars, refs, left, swept>>

Sweep ==
  \/ GetLock \/ PutLock
  \/ \E k \in Kinds :
       \/ ReadRefs(k) \/ ListEntries(k) \/ DeleteEntry(k) \/ DeleteFails(k)
       \/ \E n \in Names : Judge(k, n)
  \/ DeleteScript \/ DeleteAssets

Next ==
  \/ \E d \in Deploys :
       /\ Deploy(d)
       /\ crossed' = IF sweep = "sweeping" THEN crossed \cup {d} ELSE crossed
       /\ UNCHANGED <<lock, sweep, step, refs, left, doomed, swept>>
  \/ Sweep

Spec == Init /\ [][Next]_vars

-----------------------------------------------------------------------------

\* Every variable has its type.
TypeOK ==
  /\ AppTypeOK
  /\ lock \in BOOLEAN
  /\ sweep \in {"idle", "locking", "sweeping", "skipped"}
  /\ step \in [Kinds -> {"refs", "list", "each", "delete", "forget", "over"}]
  /\ refs \in [Kinds -> SUBSET Names]
  /\ left \in [Kinds -> SUBSET Names]
  /\ doomed \in [Kinds -> Names \cup {None}]
  /\ crossed \subseteq Deploys /\ swept \subseteq Names

(***************************************************************************)
(* What the record refers to is there, unless a deploy that ran beside the *)
(* cleanup had taken up a commit again whose script or site was old.       *)
(***************************************************************************)
CurrentTargetsSurvive ==
  /\ record.script # None /\ ~ scripts[record.script].up =>
       record.by \in crossed /\ first.scriptKeys[record.script] = "old"
  /\ record.site # None /\ record.site \notin sites =>
       record.by \in crossed /\ first.siteKeys[record.site] = "old"

(***************************************************************************)
(* As long as no cleanup has deleted the app's script, W7S believes in no  *)
(* Durable Object class that the script does not have, and would not       *)
(* create again.  A sweep leaves the records of the classes behind; what   *)
(* comes of that is RefusedForAReason's.                                   *)
(***************************************************************************)
RecordedClassesExist ==
  scripts[StableName].up /\ StableName \notin swept =>
    classRecords \subseteq scripts[StableName].classes

(***************************************************************************)
(* A deploy that is tried again succeeds: Cloudflare refuses one only if   *)
(* it ran beside another; if an earlier one executed one of its migrations *)
(* and ended before it recorded that; if an earlier one created a class of *)
(* its and ended before it recorded that, and the script now has the tag   *)
(* of other classes than it has; or if a cleanup deleted the script whose  *)
(* classes are on record.                                                  *)
(***************************************************************************)
RefusedForAReason ==
  \A d \in Deploys :
    pc[d] = "refused" =>
      \/ \E e \in Deploys : {d, e} \in met
      \/ torn \cap plan[d].files # {}
      \/ /\ seen[d] # plan[d].classes
         /\ \E e \in halted : plan[e].classes \cap plan[d].classes # {}
      \/ plan[d].classes # {} /\ StableName \in swept
=============================================================================
