--------------------------- MODULE AnsweredRequests ---------------------------
(***************************************************************************)
(* What public requests are answered from, and what is promised of the     *)
(* answers: the invariants that the steps of RuntimeRouting keep.          *)
(*                                                                         *)
(* An app is an organization and a repository; it is deployed, suspended   *)
(* and routed to in each environment by itself.                            *)
(***************************************************************************)
EXTENDS Naturals, Sequences

CONSTANTS
  Apps,
  Envs,
  None,        \* no build
  Builds,      \* deployments, see Build
  Requests,
  Asks,        \* what requests ask for, see Ask
  Registries,  \* initially deployed builds, one per app and environment
  RouteLists,  \* routes a custom domain may have
  Gateway,     \* app and environment of the mail gateway
  MaxChanges   \* deploys, suspensions and moves of routes: a bound

(***************************************************************************)
(* A deployed build as far as one path is concerned: what its Worker says  *)
(* ("none": it has none; "missing": 404 or 405; "ok": 2xx), whether its     *)
(* site has an asset at the path and an index page to fall back to, and    *)
(* whether it is served on the platform's own hosts.                       *)
(***************************************************************************)
Build == [says : {"none", "ok", "error", "redirect", "missing"}, site : BOOLEAN,
          exact : BOOLEAN, index : BOOLEAN, default : BOOLEAN]

(***************************************************************************)
(* A candidate on a host of the platform: the app, whether its name is the *)
(* first segment of the path (repo-prefix) or it is the organization's own *)
(* (org-root), and whether the path is that app's root without a slash.    *)
(***************************************************************************)
Candidate == [app : Apps, prefix : BOOLEAN, bare : BOOLEAN]

(***************************************************************************)
(* kind: of the path, "handled" by a route of the platform's own, under    *)
(* the "reserved" /api/v1 without one, the "internal" /_w7s, or any other  *)
(* "page"; get: the method is GET or HEAD; candidates and envs are those   *)
(* of a platform host, the host's environment and then production.  Mail   *)
(* is posted to the custom domain of a workspace.                          *)
(***************************************************************************)
Ask == [custom : BOOLEAN, mail : BOOLEAN, kind : {"handled", "reserved", "internal", "page"},
        get : BOOLEAN, candidates : Seq(Candidate), envs : Seq(Envs)]

\* A route: the app it belongs to, in the environment that claimed it.
Route == [app : Apps, env : Envs]

ASSUME BuildsAssumption ==
  /\ Builds \subseteq Build
  /\ \A b \in Builds : b.exact \/ b.index => b.site
ASSUME AsksAssumption ==
  /\ Asks \subseteq Ask
  /\ \A asked \in Asks : asked.mail => asked.custom /\ ~ asked.get
  /\ \A asked \in Asks : ~ asked.custom => asked.candidates # <<>> /\ asked.envs # <<>>
ASSUME RegistriesAssumption ==
  /\ None \notin Builds
  /\ Registries \subseteq [Apps \X Envs -> Builds \cup {None}]
ASSUME RoutesAssumption == RouteLists \subseteq Seq(Route)
ASSUME GatewayAssumption == Gateway \in Apps \X Envs
ASSUME MaxChangesAssumption == MaxChanges \in Nat

VARIABLES
  deployed,   \* deployed[a, e]: the current build of an app
  routes,     \* the routes of the custom domain, the longest prefix first
  suspended,  \* the apps and environments that are suspended
  changes,    \* how often the three have changed
  ask,        \* ask[r]: what r asks for
  pc,         \* pc[r]: what r does next
  inner,      \* inner[r]: the custom domain middleware resolves r
  queue,      \* queue[r]: what r has yet to look up, see Lookup
  found,      \* found[r]: the app, environment and build r has settled on
  ran,        \* ran[r]: the builds whose Workers r has run, in order
  source,     \* source[r]: where the answer came from
  seen        \* history: seen[r]: what was current at some time since r began

Targets == Apps \X Envs

Now == [builds    |-> {<<k, deployed[k]>> : k \in Targets},
        suspended |-> {suspended},
        routes    |-> {routes}]

(***************************************************************************)
(* What a request looks up: the environments of a candidate one by one,    *)
(* then those of the next.  Routes of a custom domain have one each.       *)
(***************************************************************************)
Lookup == [app : Apps, envs : Seq(Envs), redirects : BOOLEAN]

Lookups(asked, list) ==
  IF asked.custom
  THEN [i \in 1..Len(list) |->
          [app |-> list[i].app, envs |-> <<list[i].env>>, redirects |-> FALSE]]
  ELSE [i \in 1..Len(asked.candidates) |->
          LET c == asked.candidates[i]
          IN  [app |-> c.app, envs |-> asked.envs, redirects |-> c.prefix /\ c.bare]]

-----------------------------------------------------------------------------

Answered(r) == pc[r] = "answered"

(***************************************************************************)
(* A request runs at most one Worker, once, whatever is deployed           *)
(* meanwhile; and when a request that may change something (POST, PUT) has *)
(* run one, the client gets that Worker's answer and no other.             *)
(***************************************************************************)
EffectsAreAnswered ==
  \A r \in Requests :
    /\ Len(ran[r]) <= IF ask[r].mail THEN 2 ELSE 1
    /\ Answered(r) /\ ran[r] # <<>> /\ ~ ask[r].get /\ ~ ask[r].mail =>
         source[r] = "worker"

(***************************************************************************)
(* Mail is accepted exactly when the Worker of the workspace, that of an   *)
(* app its domain is routed to, has taken it; otherwise the sender is told *)
(* that it was not delivered.                                              *)
(***************************************************************************)
MailIsTakenOrRejected ==
  \A r \in Requests :
    Answered(r) /\ ask[r].mail =>
      source[r] = IF Len(ran[r]) = 2 /\ ran[r][2].says = "ok"
                  THEN "accepted" ELSE "rejected"

(***************************************************************************)
(* A custom domain that has routes, be they moved while the request runs,  *)
(* is never answered by the platform's own handlers and pages.             *)
(***************************************************************************)
DomainBelongsToItsApps ==
  \A r \in Requests :
    Answered(r) /\ ask[r].custom /\ <<>> \notin seen[r].routes =>
      source[r] \notin {"handler", "platform"}

(***************************************************************************)
(* An answer of an app is that of a build that was current, of an app that *)
(* was routed to and not suspended, each at some time while the request    *)
(* ran.                                                                    *)
(***************************************************************************)
AnswersWereCurrent ==
  \A r \in Requests :
    Answered(r) /\ source[r] \in {"slash", "worker", "exact", "fallback", "accepted"} =>
      LET app == found[r].app
          env == found[r].env
      IN
      /\ <<<<app, env>>, found[r].build>> \in seen[r].builds
      /\ \E asleep \in seen[r].suspended : <<app, env>> \notin asleep
      /\ ask[r].custom =>
           \E list \in seen[r].routes :
             \E i \in 1..Len(list) : list[i] = [app |-> app, env |-> env]

(***************************************************************************)
(* The app of a lookup in its environment n.                               *)
(***************************************************************************)
KeyAt(look, n) == <<look.app, look.envs[n]>>

Absent(look, n, builds) == <<KeyAt(look, n), None>> \in builds

AbsentBefore(look, n, builds) == \A m \in 1..(n - 1) : Absent(look, m, builds)

(***************************************************************************)
(* routing.defaultDomain is false: on the platform's hosts such a build is *)
(* "as if that deployment is not present" (docs/runtime-routing.md:129).   *)
(***************************************************************************)
OffHosts(asked, build) == ~ asked.custom /\ ~ build.default

OffHostsAt(asked, look, n, builds) ==
  \E b \in Builds : OffHosts(asked, b) /\ <<KeyAt(look, n), b>> \in builds

(***************************************************************************)
(* A lookup is passed over when no environment has a build that is         *)
(* present.  DEPARTURE from line 129: the first build that is found, when  *)
(* it is kept off the hosts, hides those of the environments after it, as  *)
(* that of a branch the one in production.                                 *)
(***************************************************************************)
HidesTheRest(asked, look, builds) ==
  \E n \in 1..Len(look.envs) :
    AbsentBefore(look, n, builds) /\ OffHostsAt(asked, look, n, builds)

PassedOver(asked, look, builds) ==
  \/ \A n \in 1..Len(look.envs) :
       Absent(look, n, builds) \/ OffHostsAt(asked, look, n, builds)
  \/ HidesTheRest(asked, look, builds)

Serves(asked, look, n, build, builds) ==
  /\ AbsentBefore(look, n, builds)
  /\ <<KeyAt(look, n), build>> \in builds
  /\ ~ OffHosts(asked, build)

(***************************************************************************)
(* What answers for a build (docs/runtime-routing.md, Routing Priority and *)
(* Static Behavior): the redirect to the directory, the exact asset, the   *)
(* Worker, after its 404 or 405 the index page, and else not found.        *)
(***************************************************************************)
Documented(asked, build, redirects) ==
  IF redirects /\ build.site /\ asked.get THEN "slash"
  ELSE IF asked.get /\ build.exact THEN "exact"
  ELSE IF build.says \notin {"none", "missing"} \/ (build.says = "missing" /\ ~ asked.get)
  THEN "worker"
  ELSE IF build.says = "missing" /\ build.index THEN "fallback"
  ELSE "notFound"

(***************************************************************************)
(* DEPARTURES from it: on a custom domain a redirect of the Worker comes   *)
(* before the asset (line 175 has the asset first); without a Worker the   *)
(* index page answers all the same ("only used after native Worker misses  *)
(* with 404 or 405", line 231); and without either, a host of the platform *)
(* answers with its own pages, the landing page for "/" among them (line   *)
(* 178 has a 404).                                                         *)
(***************************************************************************)
Answer(asked, build, redirects) ==
  LET documented == Documented(asked, build, redirects) IN
  IF asked.custom /\ build.says = "redirect" THEN "worker"
  ELSE IF documented # "notFound" \/ build.says # "none" THEN documented
  ELSE IF asked.get /\ build.index THEN "fallback"
  ELSE IF asked.custom THEN "notFound" ELSE "platform"

\* The answer is that of the first lookup that is not passed over.
ByPriority(asked, from, looks, builds, asleep) ==
  \/ /\ from = "notFound"
     /\ \A i \in 1..Len(looks) : PassedOver(asked, looks[i], builds)
  \/ \E i \in 1..Len(looks) :
       /\ \A j \in 1..(i - 1) : PassedOver(asked, looks[j], builds)
       /\ \E n \in 1..Len(looks[i].envs), build \in Builds :
            /\ Serves(asked, looks[i], n, build, builds)
            /\ from = IF KeyAt(looks[i], n) \in asleep THEN "suspended"
                      ELSE Answer(asked, build, looks[i].redirects)

(***************************************************************************)
(* A page is answered in the order of docs/runtime-routing.md, but for the *)
(* departures above, even while deploys, suspensions and moved routes come *)
(* between what the request looks up: there is one reading of the routes   *)
(* and of the suspensions, and one of each build, all true at some time    *)
(* while it ran, by which the answer is that of the right app and of the   *)
(* right part of one and the same build.  A custom domain has had routes   *)
(* throughout.                                                             *)
(***************************************************************************)
FollowsThePriority ==
  \A r \in Requests :
    /\ Answered(r) /\ ask[r].kind = "page" /\ ~ ask[r].mail
    /\ ask[r].custom => <<>> \notin seen[r].routes
    => \E list \in seen[r].routes, asleep \in seen[r].suspended :
         ByPriority(ask[r], source[r], Lookups(ask[r], list), seen[r].builds, asleep)
=============================================================================
