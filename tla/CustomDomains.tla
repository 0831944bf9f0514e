---------------------------- MODULE CustomDomains ----------------------------
(***************************************************************************)
(* The custom domain routes of the applications (deploy/customDomains.ts,  *)
(* storage/deployments.ts): which application answers for a hostname and a *)
(* path below it.                                                          *)
(*                                                                         *)
(* A hostname's routes are stored three times: its root mapping alone      *)
(* (custom_domain:v1), the list of all its routes (custom_domain_routes:v1)*)
(* and one record per route (custom_domain_route:v2).  A deploy plans its  *)
(* claims, removes the routes it no longer has from each of the three, and *)
(* then merges the ones it has into the list it reads.  All of it is gets  *)
(* and puts of single keys, awaited together: deploys of other apps on the *)
(* same hostname interleave with every one of them.  Root mappings are     *)
(* cached besides.  The question is which routes survive that.             *)
(*                                                                         *)
(* An application is an organization, a repository and an environment.  A  *)
(* path is the sequence of its segments, <<>> the root.                    *)
(***************************************************************************)
EXTENDS Naturals, Sequences, SequencesExt, FiniteSets

CONSTANTS
  Apps,
  None,        \* no application; no mapping
  Hosts,       \* hostnames, wildcards among them
  Wildcards,   \* the hostnames that start with "*."
  WildcardOf,  \* WildcardOf[h]: the wildcard that covers an exact host, or h
  Segments,    \* segments of paths
  Paths,       \* path prefixes of routes
  Deploys,     \* deploy requests
  Plans,       \* what a request can ask for (see Plan)
  Registries,  \* initial owners: what earlier deploys have left
  Zoned,       \* hostnames whose Cloudflare zone W7S can see
  Txt,         \* hostnames with an authorizing TXT record
  Listed       \* Listed[h]: the applications that record authorizes

Root   == <<>>
Routes == Hosts \X Paths
Owners == Apps \cup {None}

(***************************************************************************)
(* stale: the hostnames whose routes the deploy may remove, which are all, *)
(* or for a branch those with its prefix; default: the app also has its    *)
(* default domain.                                                         *)
(***************************************************************************)
Plan == [app : Apps, routes : SUBSET Routes, stale : SUBSET Hosts,
         default : BOOLEAN]

ASSUME NoneAssumption == None \notin Apps
ASSUME PathsAssumption == Root \in Paths /\ Paths \subseteq Seq(Segments)
ASSUME PlansAssumption ==
  /\ Plans \subseteq Plan
  /\ \A asked \in Plans, r \in Routes :
       r \in asked.routes =>
         r[1] \in asked.stale /\ (r[1] \in Wildcards => r[2] = Root)
ASSUME HostsAssumption ==
  /\ Wildcards \subseteq Hosts /\ Zoned \subseteq Hosts /\ Txt \subseteq Hosts
  /\ WildcardOf \in [Hosts -> Hosts]
  /\ \A h \in Hosts : WildcardOf[h] # h => WildcardOf[h] \in Wildcards
  /\ \A h \in Wildcards : WildcardOf[h] = h
  /\ Listed \in [Hosts -> SUBSET Apps]

(***************************************************************************)
(* A key's value maps paths to owners: a mapping or record has one path, a *)
(* list several, and a key that is not there none.                         *)
(***************************************************************************)
Table == [Paths -> Owners]
Empty == [p \in Paths |-> None]
Only(p, a) == [Empty EXCEPT ![p] = a]

ASSUME RegistriesAssumption == Registries \subseteq [Hosts -> Table]

Mapping(h)   == [form |-> "mapping", host |-> h, path |-> Root]
List(h)      == [form |-> "list", host |-> h, path |-> Root]
Record(h, p) == [form |-> "record", host |-> h, path |-> p]

Forms == {"mapping", "list", "record"}
Keys  == {k \in [form : Forms, host : Hosts, path : Paths] :
            k.form # "record" => k.path = Root}
Write == [key : Keys, table : Table]

VARIABLES
  kv,        \* kv[k]: the table stored at key k
  cached,    \* cached[h]: root mappings that a cache may answer for h
  status,    \* status[d]: new, planning, replacing, done or failed
  plan,      \* plan[d]: what d asks for
  attached,  \* attached[d]: the routes its claims were granted
  pass,      \* pass[d]: the form of the keys it visits, or merge
  todo,      \* todo[d]: routes (their records) not planned, keys not read yet
  writes,    \* writes[d]: puts and deletes in flight
  first,     \* history: the initial owners
  owner,     \* history: owner[h][p] had deploys taken effect at once
  met,       \* history: pairs of deploys that overlapped, or what went on
             \* of them in the background did
  misled     \* history: a claim was planned from an outdated cached mapping

vars == <<kv, cached, status, plan, attached, pass, todo, writes,
          first, owner, met, misled>>

Stored(registry) ==
  [k \in Keys |-> IF k.form = "list" THEN registry[k.host]
                  ELSE Only(k.path, registry[k.host][k.path])]

Init ==
  /\ first \in Registries
  /\ owner = first
  /\ kv = Stored(first)
  /\ cached = [h \in Hosts |-> {}]
  /\ status = [d \in Deploys |-> "new"]
  /\ plan \in [Deploys -> Plans]
  /\ attached = [d \in Deploys |-> {}]
  /\ pass = [d \in Deploys |-> "mapping"]
  /\ todo = [d \in Deploys |-> {}]
  /\ writes = [d \in Deploys |-> {}]
  /\ met = {}
  /\ misled = FALSE

-----------------------------------------------------------------------------
(* Looking up *)

(***************************************************************************)
(* loadCustomDomainRouteMappings, for one prefix: the record overrides the *)
(* list, and the root mapping, which may come from a cache, overrides both.*)
(***************************************************************************)
Mounted(h, p, root) ==
  IF p = Root /\ root # None THEN root
  ELSE IF kv[Record(h, p)][p] # None THEN kv[Record(h, p)][p]
  ELSE kv[List(h)][p]

RootAnswers(h) == cached[h] \cup {kv[Mapping(h)][Root]}

(***************************************************************************)
(* The same for a request path: the longest of its prefixes that is        *)
(* mounted decides, first in sortRouteMappings' order.                     *)
(***************************************************************************)
Loaded(h, path, root) ==
  LET mounts == {p \in Paths : IsPrefix(p, path) /\ Mounted(h, p, root) # None}
  IN  IF mounts = {} THEN None
      ELSE Mounted(h, CHOOSE p \in mounts :
                        \A q \in mounts : Len(q) <= Len(p), root)

(***************************************************************************)
(* resolveCustomDomainRouteMappings: an exact host that has a list is      *)
(* reserved, also outside its mounts; otherwise its wildcard is asked.     *)
(***************************************************************************)
Resolved(h, path, root, wildroot) ==
  IF Loaded(h, path, root) # None \/ kv[List(h)] # Empty
  THEN Loaded(h, path, root)
  ELSE IF WildcardOf[h] = h THEN None
  ELSE Loaded(WildcardOf[h], path, wildroot)

-----------------------------------------------------------------------------
(* Planning *)

Running(d) == status[d] \in {"planning", "replacing"}

Idle(d) == todo[d] = {} /\ writes[d] = {}

Busy(d) == Running(d) \/ ~ Idle(d)

Begin(d) ==
  /\ status[d] = "new"
  /\ status' = [status EXCEPT ![d] = "planning"]
  /\ todo' = [todo EXCEPT ![d] =
       {Record(route[1], route[2]) : route \in plan[d].routes}]
  /\ met' = met \cup {{d, e} : e \in {e \in Deploys : Busy(e)}}
  /\ UNCHANGED <<kv, cached, plan, attached, pass, writes, first, owner, misled>>

\* Mutant: a wildcard is granted whoever has it.
GrantedOverWildcard(a, h, existing, txt, covered) ==
  /\ h \in Wildcards \/ covered => txt
  /\ txt => a \in Listed[h]

(***************************************************************************)
(* Whether planCustomDomainClaims attaches a route of application a.  The  *)
(* TXT record of the domain is consulted when the lookup succeeds (txt);   *)
(* without one only wildcards, which are never replaced by another app,    *)
(* and hosts covered by a claimed wildcard are refused.                    *)
(***************************************************************************)
Granted(a, h, existing, txt, covered) ==
  /\ h \in Wildcards => existing \in {None, a}
  /\ h \in Wildcards \/ covered => txt
  /\ txt => a \in Listed[h]

(***************************************************************************)
(* planCustomDomainClaims, one route.  What is mounted at the route and at *)
(* the wildcard that covers it is loaded, the first load filling the cache *)
(* of the root mapping.  Without a zone the hostname is provisioned by     *)
(* Cloudflare for SaaS, which excludes wildcards (Fails).                  *)
(***************************************************************************)
Claim(d, route) ==
  LET a == plan[d].app
      h == route[1]
      wild == WildcardOf[h]
  IN
  /\ status[d] = "planning"
  /\ Record(h, route[2]) \in todo[d]
  /\ todo' = [todo EXCEPT ![d] = @ \ {Record(h, route[2])}]
  /\ \E root \in RootAnswers(h), wildroot \in RootAnswers(wild) :
       LET existing == Loaded(h, route[2], root)
           covered  == wild # h /\ Loaded(wild, Root, wildroot) # None
       IN
       /\ \/ /\ h \in Zoned
             /\ \E txt \in {t \in BOOLEAN : t => h \in Txt} :
                  attached' = IF Granted(a, h, existing, txt, covered)
                              THEN [attached EXCEPT ![d] = @ \cup {route}]
                              ELSE attached
          \/ /\ h \notin Zoned \cup Wildcards /\ ~ covered
             /\ attached' = [attached EXCEPT ![d] = @ \cup {route}]
       /\ cached' = [cached EXCEPT ![h] = @ \cup {root},
                                   ![wild] = @ \cup {wildroot}]
       /\ misled' = (misled \/ root # kv[Mapping(h)][Root])
  /\ UNCHANGED <<kv, status, plan, pass, writes, first, owner, met>>

(***************************************************************************)
(* All claims are planned.  The record, with all else, is stored by the    *)
(* pipeline; an app that is left without any domain is refused.            *)
(***************************************************************************)
Planned(d) ==
  /\ status[d] = "planning"
  /\ todo[d] = {}
  /\ \/ /\ attached[d] # {} \/ plan[d].default
        /\ status' = [status EXCEPT ![d] = "replacing"]
        /\ todo' = [todo EXCEPT ![d] =
             {k \in Keys : k.form = "mapping" /\ kv[k] # Empty}]
     \/ /\ attached[d] = {} /\ ~ plan[d].default
        /\ status' = [status EXCEPT ![d] = "failed"]
        /\ UNCHANGED todo
  /\ UNCHANGED <<kv, cached, plan, attached, pass, writes,
                 first, owner, met, misled>>

-----------------------------------------------------------------------------
(* Replacing *)

\* Mutant: a branch removes the routes of every hostname.
RetainedAnywhere(d, k) ==
  [p \in Paths |->
     IF kv[k][p] = plan[d].app /\ <<k.host, p>> \notin attached[d]
     THEN None ELSE kv[k][p]]

(***************************************************************************)
(* What remains of a table once the app's routes are removed that it does  *)
(* not have any more.                                                      *)
(***************************************************************************)
Retained(d, k) ==
  [p \in Paths |->
     IF /\ kv[k][p] = plan[d].app
        /\ <<k.host, p>> \notin attached[d]
        /\ k.host \in plan[d].stale
     THEN None ELSE kv[k][p]]

HostsOf(d) == {route[1] : route \in attached[d]}

\* Mutant: a list is deleted although the hostname is still wanted.
PutsAny(d, k) ==
  IF \/ k.form = "list" /\ Retained(d, k) # Empty
     \/ Retained(d, k) # kv[k]
  THEN {[key |-> k, table |-> Retained(d, k)]}
  ELSE {}

(***************************************************************************)
(* What replaceCustomDomainMappings writes for a key it has read: a list   *)
(* is put back whenever a route remains in it and else deleted, unless the *)
(* merge will write it; a mapping or record is deleted or left alone.      *)
(***************************************************************************)
Puts(d, k) ==
  IF \/ k.form = "list" /\ Retained(d, k) # Empty
     \/ /\ Retained(d, k) # kv[k]
        /\ k.form = "list" => k.host \notin HostsOf(d)
  THEN {[key |-> k, table |-> Retained(d, k)]}
  ELSE {}

(***************************************************************************)
(* A key of the pass is read, in any order: they are awaited together.     *)
(***************************************************************************)
Visit(d, k) ==
  /\ status[d] \in {"replacing", "failed"} /\ pass[d] # "merge"
  /\ k \in todo[d]
  /\ todo' = [todo EXCEPT ![d] = @ \ {k}]
  /\ writes' = [writes EXCEPT ![d] = @ \cup IF kv[k] = Empty THEN {}
                                           ELSE Puts(d, k)]
  /\ UNCHANGED <<kv, cached, status, plan, attached, pass,
                 first, owner, met, misled>>

After == [mapping |-> "list", list |-> "record", record |-> "merge"]

(***************************************************************************)
(* A pass is over: the keys of the next form are listed, or after the last *)
(* the lists of the hostnames are to be merged.                            *)
(***************************************************************************)
PassOver(d) ==
  /\ status[d] = "replacing" /\ pass[d] # "merge"
  /\ Idle(d)
  /\ pass' = [pass EXCEPT ![d] = After[@]]
  /\ todo' = [todo EXCEPT ![d] =
       IF pass[d] = "record" THEN {List(h) : h \in HostsOf(d)}
       ELSE {k \in Keys : k.form = After[pass[d]] /\ kv[k] # Empty}]
  /\ UNCHANGED <<kv, cached, status, plan, attached, writes,
                 first, owner, met, misled>>

(***************************************************************************)
(* The list of a hostname with the app's routes in place of those it had.  *)
(***************************************************************************)
Merged(d, h) ==
  [p \in Paths |->
     IF <<h, p>> \in attached[d] THEN plan[d].app
     ELSE IF kv[List(h)][p] = plan[d].app THEN None
     ELSE kv[List(h)][p]]

\* Mutant: only the two older forms are written.
MergePutsNoRecords(d, h) ==
  {[key |-> Mapping(h), table |-> Only(Root, Merged(d, h)[Root])],
   [key |-> List(h), table |-> Merged(d, h)]}

\* Mutant: the first mapping of the sorted list is put as the root mapping.
MergePutsFirst(d, h) ==
  {[key |-> Mapping(h),
    table |-> Only(Root, Merged(d, h)[CHOOSE p \in Paths :
      /\ Merged(d, h)[p] # None
      /\ \A q \in Paths : Merged(d, h)[q] # None => Len(q) <= Len(p)])],
   [key |-> List(h), table |-> Merged(d, h)]}
  \cup {[key |-> Record(h, p), table |-> Only(p, plan[d].app)] :
           p \in {p \in Paths : <<h, p>> \in attached[d]}}

(***************************************************************************)
(* The puts of storeCustomDomainMappings for a hostname; without a root    *)
(* route in the list the root mapping is deleted.                          *)
(***************************************************************************)
MergePuts(d, h) ==
  {[key |-> Mapping(h), table |-> Only(Root, Merged(d, h)[Root])],
   [key |-> List(h), table |-> Merged(d, h)]}
  \cup {[key |-> Record(h, p), table |-> Only(p, plan[d].app)] :
           p \in {p \in Paths : <<h, p>> \in attached[d]}}

(***************************************************************************)
(* storeCustomDomainMappings reads a list, caches the root mapping it is   *)
(* about to put and starts the puts.                                       *)
(***************************************************************************)
Merge(d, h) ==
  /\ status[d] \in {"replacing", "failed"} /\ pass[d] = "merge"
  /\ List(h) \in todo[d]
  /\ todo' = [todo EXCEPT ![d] = @ \ {List(h)}]
  /\ cached' = [cached EXCEPT ![h] = @ \cup {Merged(d, h)[Root]}]
  /\ writes' = [writes EXCEPT ![d] = @ \cup MergePuts(d, h)]
  /\ UNCHANGED <<kv, status, plan, attached, pass, first, owner, met, misled>>

\* A put or delete takes effect; those awaited together do in any order.
Land(d, w) ==
  /\ w \in writes[d]
  /\ kv' = [kv EXCEPT ![w.key] = w.table]
  /\ writes' = [writes EXCEPT ![d] = @ \ {w}]
  /\ UNCHANGED <<cached, status, plan, attached, pass, todo,
                 first, owner, met, misled>>

(***************************************************************************)
(* The deploy has replaced its routes.                                     *)
(***************************************************************************)
Done(d) ==
  /\ status[d] = "replacing" /\ pass[d] = "merge"
  /\ Idle(d)
  /\ status' = [status EXCEPT ![d] = "done"]
  /\ owner' = [h \in Hosts |-> [p \in Paths |->
       IF <<h, p>> \in attached[d] THEN plan[d].app
       ELSE IF owner[h][p] = plan[d].app /\ h \in plan[d].stale THEN None
       ELSE owner[h][p]]]
  /\ UNCHANGED <<kv, cached, plan, attached, pass, todo, writes,
                 first, met, misled>>

(***************************************************************************)
(* An await rejects or the isolate dies.  What was awaited beside it may   *)
(* go on in the background.                                                *)
(***************************************************************************)
Fails(d) ==
  /\ Running(d)
  /\ status' = [status EXCEPT ![d] = "failed"]
  /\ todo' = [todo EXCEPT ![d] = IF status[d] = "planning" THEN {} ELSE @]
  /\ UNCHANGED <<kv, cached, plan, attached, pass, writes,
                 first, owner, met, misled>>

\* Nothing of a failed request goes on.
Abandon(d) ==
  /\ status[d] = "failed"
  /\ ~ Idle(d)
  /\ todo' = [todo EXCEPT ![d] = {}]
  /\ writes' = [writes EXCEPT ![d] = {}]
  /\ UNCHANGED <<kv, cached, status, plan, attached, pass,
                 first, owner, met, misled>>

(***************************************************************************)
(* loadCustomDomainMapping for a request that is served: an isolate, or    *)
(* the edge, without the root mapping of the hostname caches what is       *)
(* stored.                                                                 *)
(***************************************************************************)
Fill(h) ==
  /\ kv[Mapping(h)][Root] \notin cached[h]
  /\ cached' = [cached EXCEPT ![h] = @ \cup {kv[Mapping(h)][Root]}]
  /\ UNCHANGED <<kv, status, plan, attached, pass, todo, writes,
                 first, owner, met, misled>>

\* CUSTOM_DOMAIN_CACHE_TTL_MS: what was cached of a root mapping expires.
Expire(h) ==
  /\ cached[h] # {}
  /\ cached' = [cached EXCEPT ![h] = {}]
  /\ UNCHANGED <<kv, status, plan, attached, pass, todo, writes,
                 first, owner, met, misled>>

Step(d) ==
  \/ Begin(d)
  \/ \E route \in Routes : Claim(d, route)
  \/ Planned(d)
  \/ \E k \in Keys : Visit(d, k)
  \/ PassOver(d)
  \/ \E h \in Hosts : Merge(d, h)
  \/ \E w \in writes[d] : Land(d, w)
  \/ Done(d)
  \/ Fails(d)
  \/ Abandon(d)

Next ==
  \/ \E d \in Deploys : Step(d)
  \/ \E h \in Hosts : Fill(h)
  \/ \E h \in Hosts : Expire(h)

Spec == Init /\ [][Next]_vars

-----------------------------------------------------------------------------
(* Properties *)

TypeOK ==
  /\ kv \in [Keys -> Table]
  /\ cached \in [Hosts -> SUBSET Owners]
  /\ status \in [Deploys -> {"new", "planning", "replacing", "done", "failed"}]
  /\ plan \in [Deploys -> Plans]
  /\ attached \in [Deploys -> SUBSET Routes]
  /\ pass \in [Deploys -> Forms \cup {"merge"}]
  /\ todo \in [Deploys -> SUBSET Keys]
  /\ writes \in [Deploys -> SUBSET Write]
  /\ first \in [Hosts -> Table]
  /\ owner \in [Hosts -> Table]
  /\ met \subseteq SUBSET Deploys
  /\ misled \in BOOLEAN

\* The deploys whose claims have been planned, whatever became of them.
Acting == {d \in Deploys : status[d] \in {"replacing", "done", "failed"}}

HeldBy(a, h, p) ==
  \/ first[h][p] = a
  \/ \E d \in Acting : plan[d].app = a /\ <<h, p>> \in attached[d]

\* Only a has or had a claim to the route, and no deploy of a gave it up.
Uncontested(a, h, p) ==
  /\ \A b \in Apps \ {a} : ~ HeldBy(b, h, p)
  /\ \A d \in Acting : plan[d].app = a => <<h, p>> \in attached[d]

(***************************************************************************)
(* "Parallel sibling app deployments can update different paths without a  *)
(* last-writer-wins loss" (docs/agent/DECISIONS.md), and a redeploy never  *)
(* takes its own routes away: a route that one app alone claims, and has   *)
(* been deployed with, is answered by that app at every moment, whatever   *)
(* other deploys on the hostname do, fail at or have cached.               *)
(***************************************************************************)
UncontestedRouteIsServed ==
  \A a \in Apps, h \in Hosts, p \in Paths :
    /\ \/ first[h][p] = a
       \/ \E d \in Deploys : /\ status[d] = "done" /\ plan[d].app = a
                             /\ <<h, p>> \in attached[d]
    /\ Uncontested(a, h, p)
    => \A root \in RootAnswers(h) : Mounted(h, p, root) = a

(***************************************************************************)
(* No interleaving of stale lists makes up a route: whatever a key or a    *)
(* cache says, or a put in flight will say, was claimed and granted.       *)
(***************************************************************************)
OnlyClaimedRoutes ==
  /\ \A h \in Hosts : \A a \in cached[h] \ {None} : HeldBy(a, h, Root)
  /\ \A k \in Keys, p \in Paths :
       kv[k][p] # None => HeldBy(kv[k][p], k.host, p)
  /\ \A d \in Deploys : \A w \in writes[d], p \in Paths :
       w.table[p] # None => HeldBy(w.table[p], w.key.host, p)

(***************************************************************************)
(* "Another application or environment cannot replace an existing wildcard *)
(* claim": when two apps both get a wildcard, one of their deploys ran     *)
(* beside one of another app that got it too, or a claim was misled by an  *)
(* expired mapping, or a deploy may have released the wildcard.            *)
(***************************************************************************)
WildcardsAreNotReplaced ==
  \A d, e \in Acting, h \in Wildcards :
    /\ <<h, Root>> \in attached[d] \cap attached[e]
    /\ plan[d].app # plan[e].app
    /\ ~ misled
    /\ status[d] = "done" /\ status[e] # "failed"
    => \/ \E x \in {d, e}, y \in Acting :
            /\ <<h, Root>> \in attached[y] /\ plan[y].app # plan[x].app
            /\ {x, y} \in met
       \/ \E x \in Acting : <<h, Root>> \notin attached[x]

(***************************************************************************)
(* "Exact path-only hosts remain reserved outside their paths" (docs/      *)
(* wildcard-app-domains.md): while the one app on a hostname moves its     *)
(* routes from one path to another, no request to it reaches the app of    *)
(* the wildcard.                                                           *)
(***************************************************************************)
HostStaysReserved ==
  \A a \in Apps, h \in Hosts \ Wildcards :
    /\ \E p \in Paths : first[h][p] = a
    /\ \A b \in Apps \ {a}, p \in Paths : ~ HeldBy(b, h, p)
    /\ \A d \in Acting : plan[d].app = a => h \in HostsOf(d)
    => \A path \in Paths, root \in RootAnswers(h) :
         \A wildroot \in RootAnswers(WildcardOf[h]) :
           Resolved(h, path, root, wildroot) \in {a, None}

(***************************************************************************)
(* Deploys that neither overlap nor fail leave the three forms, and what   *)
(* is resolved from them, as if each had taken effect at once: the latest  *)
(* claim of a route owns it, and what an app stops claiming is released.   *)
(***************************************************************************)
SerialDeploysAreExact ==
  met = {} /\ (\A d \in Deploys : status[d] \in {"new", "done"}) =>
    \A h \in Hosts, p \in Paths :
      Mounted(h, p, kv[Mapping(h)][Root]) = owner[h][p]
=============================================================================
