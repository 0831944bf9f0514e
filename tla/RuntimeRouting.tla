---------------------------- MODULE RuntimeRouting ----------------------------
(***************************************************************************)
(* How a public request is answered (worker.ts, runtime/router.ts,         *)
(* runtime/host.ts, runtime/static.ts, runtime/dispatch.ts): by a handler  *)
(* of the platform, by the static site or the Worker of an app, or by the  *)
(* platform's pages.  Mail (runtime/emailDelivery.ts) becomes such a       *)
(* request once the Worker of a gateway app has told whose it is.          *)
(*                                                                         *)
(* A request looks up the routes of a custom domain up to three times, the *)
(* records of the candidate apps one by one, suspensions, a manifest and   *)
(* an object, and may run an app's Worker before or after its site is      *)
(* asked: deploys, suspensions and moved routes come between any two of    *)
(* these.  The questions are whose answer the client then gets, and what   *)
(* becomes of the answer of a Worker that has run.                         *)
(*                                                                         *)
(* What a request may see late because of caches is the subject of         *)
(* MetadataCache; accounting, after the answer, that of DailyLimits.       *)
(***************************************************************************)
EXTENDS AnsweredRequests

vars == <<deployed, routes, suspended, changes, ask, pc, inner, queue,
          found, ran, source, seen>>

Unfound == [app |-> None, env |-> None, build |-> None, redirects |-> FALSE]

Init ==
  /\ deployed \in Registries
  /\ routes \in RouteLists
  /\ suspended \in SUBSET Targets
  /\ changes = 0
  /\ ask \in [Requests -> Asks]
  /\ pc = [r \in Requests |-> "new"]
  /\ inner = [r \in Requests |-> FALSE]
  /\ queue = [r \in Requests |-> <<>>]
  /\ found = [r \in Requests |-> Unfound]
  /\ ran = [r \in Requests |-> <<>>]
  /\ source = [r \in Requests |-> "none"]
  /\ seen = [r \in Requests |-> Now]

world == <<deployed, routes, suspended, changes>>

Goto(r, next) == pc' = [pc EXCEPT ![r] = next]

Reply(r, from) ==
  /\ Goto(r, IF ask[r].mail THEN "verdict" ELSE "answered")
  /\ source' = [source EXCEPT ![r] = from]

-----------------------------------------------------------------------------
(* worker.ts *)

Begin(r) ==
  /\ pc[r] = "new"
  /\ Goto(r, IF ask[r].mail THEN "gateway"
             ELSE IF ask[r].custom THEN "middleware" ELSE "handlers")
  /\ seen' = [seen EXCEPT ![r] = Now]
  /\ UNCHANGED <<world, ask, inner, queue, found, ran, source>>

(***************************************************************************)
(* resolveCustomDomainRuntimeRequest: a hostname that has routes belongs   *)
(* to its apps with all its paths.                                         *)
(***************************************************************************)
Middleware(r) ==
  /\ pc[r] = "middleware"
  /\ inner' = [inner EXCEPT ![r] = routes # <<>>]
  /\ Goto(r, IF routes # <<>> THEN "resolve" ELSE "handlers")
  /\ UNCHANGED <<world, ask, queue, found, ran, source, seen>>

Handlers(r) ==
  /\ pc[r] = "handlers"
  /\ \/ ask[r].kind = "handled" /\ Reply(r, "handler")
     \/ ask[r].kind # "handled" /\ Goto(r, "resolve") /\ UNCHANGED source
  /\ UNCHANGED <<world, ask, inner, queue, found, ran, seen>>

\* Mutant: what the apps do not answer, the platform does on any hostname.
UnresolvedAnywhere(r) == Reply(r, "platform")

(***************************************************************************)
(* resolveRuntimeRequest has returned null: the middleware answers not     *)
(* found, the last handler with the platform's discovery, SEO, landing or  *)
(* not-found pages.                                                        *)
(***************************************************************************)
Unresolved(r) == Reply(r, IF inner[r] THEN "notFound" ELSE "platform")

-----------------------------------------------------------------------------
(* handleEmail *)

HasWorker(build) == build # None /\ build.says # "none"

Reject(r) ==
  /\ Goto(r, "answered")
  /\ source' = [source EXCEPT ![r] = "rejected"]

\* The gateway's record is loaded; whether it is suspended is not asked.
LoadGateway(r) ==
  /\ pc[r] = "gateway"
  /\ LET build == deployed[Gateway] IN
     \/ /\ ~ HasWorker(build)
        /\ Reject(r) /\ UNCHANGED found
     \/ /\ HasWorker(build)
        /\ found' = [found EXCEPT ![r] =
             [app |-> Gateway[1], env |-> Gateway[2], build |-> build,
              redirects |-> FALSE]]
        /\ Goto(r, "gatewayRuns") /\ UNCHANGED source
  /\ UNCHANGED <<world, ask, inner, queue, ran, seen>>

Run(r) == ran' = [ran EXCEPT ![r] = Append(@, found[r].build)]

(***************************************************************************)
(* The Worker of the gateway names the workspace, whose domain is then     *)
(* resolved as for any request (buildTenantEmailRequest).                  *)
(***************************************************************************)
RunGateway(r) ==
  /\ pc[r] = "gatewayRuns"
  /\ Run(r)
  /\ inner' = [inner EXCEPT ![r] = TRUE]
  /\ \/ Reject(r)
     \/ /\ found[r].build.says = "ok"
        /\ Goto(r, "resolve") /\ UNCHANGED source
  /\ UNCHANGED <<world, ask, queue, found, seen>>

\* Mutant: mail is accepted whatever the workspace answers.
VerdictOfAny(r) ==
  /\ pc[r] = "verdict"
  /\ Goto(r, "answered")
  /\ source' = [source EXCEPT ![r] =
       IF @ = "worker" THEN "accepted" ELSE "rejected"]
  /\ UNCHANGED <<world, ask, inner, queue, found, ran, seen>>

\* An answer that is not ok rejects the mail.
Verdict(r) ==
  /\ pc[r] = "verdict"
  /\ Goto(r, "answered")
  /\ source' = [source EXCEPT ![r] =
       IF @ = "worker" /\ found[r].build.says = "ok" THEN "accepted"
       ELSE "rejected"]
  /\ UNCHANGED <<world, ask, inner, queue, found, ran, seen>>

-----------------------------------------------------------------------------
(* resolveRuntimeRequest *)

Resolve(r) ==
  /\ pc[r] = "resolve"
  /\ IF \/ ~ ask[r].custom /\ ask[r].kind = "reserved"
        \/ ask[r].custom /\ routes = <<>>
     THEN Unresolved(r) /\ UNCHANGED queue
     ELSE IF ask[r].kind = "internal"
     THEN Reply(r, "notFound") /\ UNCHANGED queue
     ELSE /\ Goto(r, "load")
          /\ queue' = [queue EXCEPT ![r] = Lookups(ask[r], routes)]
          /\ UNCHANGED source
  /\ UNCHANGED <<world, ask, inner, found, ran, seen>>

(***************************************************************************)
(* loadDeploymentRecordWithCandidates, one lookup: without a record the    *)
(* next environment, or the next candidate, is to be looked up.  A build   *)
(* without the default domain is passed over on the platform's hosts, with *)
(* the other environments of its app.                                      *)
(***************************************************************************)
Remaining(looks) ==
  IF Len(looks[1].envs) = 1 THEN Tail(looks)
  ELSE [looks EXCEPT ![1].envs = Tail(@)]

Load(r) ==
  /\ pc[r] = "load"
  /\ \/ /\ queue[r] = <<>>
        /\ Reply(r, "notFound") /\ UNCHANGED <<queue, found>>
     \/ /\ queue[r] # <<>>
        /\ LET look  == queue[r][1]
               env   == look.envs[1]
               build == deployed[<<look.app, env>>]
           IN
           \/ /\ build = None
              /\ queue' = [queue EXCEPT ![r] = Remaining(@)]
              /\ UNCHANGED <<pc, found, source>>
           \/ /\ build # None /\ ~ ask[r].custom /\ ~ build.default
              /\ queue' = [queue EXCEPT ![r] = Tail(@)]
              /\ UNCHANGED <<pc, found, source>>
           \/ /\ build # None /\ (ask[r].custom \/ build.default)
              /\ found' = [found EXCEPT ![r] =
                   [app |-> look.app, env |-> env, build |-> build,
                    redirects |-> look.redirects]]
              /\ queue' = [queue EXCEPT ![r] = Tail(@)]
              /\ Goto(r, "suspension") /\ UNCHANGED source
  /\ UNCHANGED <<world, ask, inner, ran, seen>>

\* Mutant: only the platform's own hosts ask for suspensions.
SuspensionOnHosts(r) ==
  /\ pc[r] = "suspension"
  /\ \/ ~ ask[r].custom /\ <<found[r].app, found[r].env>> \in suspended /\ Reply(r, "suspended")
     \/ /\ ask[r].custom \/ <<found[r].app, found[r].env>> \notin suspended
        /\ IF found[r].redirects /\ found[r].build.site /\ ask[r].get
           THEN Reply(r, "slash")
           ELSE /\ Goto(r, IF ask[r].custom /\ found[r].build.says # "none"
                           THEN "first" ELSE "exact")
                /\ UNCHANGED source
  /\ UNCHANGED <<world, ask, inner, queue, found, ran, seen>>

(***************************************************************************)
(* enforceAppNotSuspended, and the redirect of a site's root to its slash. *)
(***************************************************************************)
Suspension(r) ==
  /\ pc[r] = "suspension"
  /\ \/ <<found[r].app, found[r].env>> \in suspended /\ Reply(r, "suspended")
     \/ /\ <<found[r].app, found[r].env>> \notin suspended
        /\ IF found[r].redirects /\ found[r].build.site /\ ask[r].get
           THEN Reply(r, "slash")
           ELSE /\ Goto(r, IF ask[r].custom /\ found[r].build.says # "none"
                           THEN "first" ELSE "exact")
                /\ UNCHANGED source
  /\ UNCHANGED <<world, ask, inner, queue, found, ran, seen>>

(***************************************************************************)
(* On a custom domain the Worker runs first, so that its redirects, as to  *)
(* a login, precede the site.                                              *)
(***************************************************************************)
WorkerFirst(r) ==
  /\ pc[r] = "first"
  /\ Run(r)
  /\ IF found[r].build.says = "redirect" THEN Reply(r, "worker")
     ELSE Goto(r, "exact") /\ UNCHANGED source
  /\ UNCHANGED <<world, ask, inner, queue, found, seen>>

\* Mutant: the site is that of the current record, not of the one found.
ExactOfCurrent(r) ==
  LET current == deployed[<<found[r].app, found[r].env>>] IN
  /\ pc[r] = "exact"
  /\ IF ask[r].get /\ current.exact THEN Reply(r, "exact")
     ELSE Goto(r, "worker") /\ UNCHANGED source
  /\ UNCHANGED <<world, ask, inner, queue, found, ran, seen>>

(***************************************************************************)
(* resolveStaticAssetResponse, exact: the manifest and the object belong   *)
(* to the build that was found.                                            *)
(***************************************************************************)
Exact(r) ==
  /\ pc[r] = "exact"
  /\ IF ask[r].get /\ found[r].build.exact THEN Reply(r, "exact")
     ELSE Goto(r, "worker") /\ UNCHANGED source
  /\ UNCHANGED <<world, ask, inner, queue, found, ran, seen>>

\* Mutant: the Worker runs although it has run before the site.
WorkerAgain(r) ==
  /\ pc[r] = "worker"
  /\ \/ /\ found[r].build.says = "none"
        /\ Goto(r, "fallback") /\ UNCHANGED <<ran, source>>
     \/ /\ found[r].build.says # "none"
        /\ Run(r)
        /\ IF ask[r].get /\ found[r].build.says = "missing"
           THEN Goto(r, "fallback") /\ UNCHANGED source
           ELSE Reply(r, "worker")
  /\ UNCHANGED <<world, ask, inner, queue, found, seen>>

(***************************************************************************)
(* dispatchWorker, unless it has run; its answer is final but for a 404 or *)
(* 405 to a GET.                                                           *)
(***************************************************************************)
Worker(r) ==
  /\ pc[r] = "worker"
  /\ \/ /\ found[r].build.says = "none"
        /\ Goto(r, "fallback") /\ UNCHANGED <<ran, source>>
     \/ /\ found[r].build.says # "none"
        /\ IF ask[r].custom THEN UNCHANGED ran ELSE Run(r)
        /\ IF ask[r].get /\ found[r].build.says = "missing"
           THEN Goto(r, "fallback") /\ UNCHANGED source
           ELSE Reply(r, "worker")
  /\ UNCHANGED <<world, ask, inner, queue, found, seen>>

(***************************************************************************)
(* The index page for what nothing answers.  Without one, the request is   *)
(* not found when there is a Worker and unresolved when there is not: no   *)
(* other candidate is tried.                                               *)
(***************************************************************************)
Fallback(r) ==
  /\ pc[r] = "fallback"
  /\ IF ask[r].get /\ found[r].build.index THEN Reply(r, "fallback")
     ELSE IF found[r].build.says # "none" THEN Reply(r, "notFound")
     ELSE Unresolved(r)
  /\ UNCHANGED <<world, ask, inner, queue, found, ran, seen>>

Step(r) ==
  \/ Begin(r) \/ LoadGateway(r) \/ RunGateway(r) \/ Verdict(r) \/ Middleware(r) \/ Handlers(r) \/ Resolve(r) \/ Load(r)
  \/ Suspension(r) \/ WorkerFirst(r) \/ Exact(r) \/ Worker(r) \/ Fallback(r)

-----------------------------------------------------------------------------
(***************************************************************************)
(* What other requests do meanwhile.  Before a request begins and after it *)
(* is answered nothing changes: the initial states are all there are.      *)
(***************************************************************************)

Changed ==
  /\ changes < MaxChanges
  /\ \E r \in Requests : pc[r] \notin {"new", "answered"}
  /\ changes' = changes + 1
  /\ seen' = [r \in Requests |->
       IF pc[r] \in {"new", "answered"} THEN seen[r] ELSE
       [builds |-> seen[r].builds \cup Now'.builds,
        suspended |-> seen[r].suspended \cup Now'.suspended,
        routes |-> seen[r].routes \cup Now'.routes]]
  /\ UNCHANGED <<ask, pc, inner, queue, found, ran, source>>

Deploy(k, b) ==
  /\ deployed[k] # b
  /\ deployed' = [deployed EXCEPT ![k] = b]
  /\ UNCHANGED <<routes, suspended>>
  /\ Changed

MoveRoutes(list) ==
  /\ list # routes
  /\ routes' = list
  /\ UNCHANGED <<deployed, suspended>>
  /\ Changed

SuspendOrResume(k) ==
  /\ suspended' = IF k \in suspended THEN suspended \ {k} ELSE suspended \cup {k}
  /\ UNCHANGED <<deployed, routes>>
  /\ Changed

Change ==
  \/ \E k \in Targets, b \in Builds : Deploy(k, b)
  \/ \E list \in RouteLists : MoveRoutes(list)
  \/ \E k \in Targets : SuspendOrResume(k)

Next == (\E r \in Requests : Step(r)) \/ Change

Spec == Init /\ [][Next]_vars

-----------------------------------------------------------------------------

Places == {"new", "gateway", "gatewayRuns", "middleware", "handlers", "resolve", "load",
           "suspension", "first", "exact", "worker", "fallback", "verdict", "answered"}

Findings == [app : Apps, env : Envs, build : Builds, redirects : BOOLEAN] \cup {Unfound}

Sources == {"none", "handler", "platform", "notFound", "suspended", "slash", "worker",
            "exact", "fallback", "accepted", "rejected"}

Sights == [builds : SUBSET (Targets \X (Builds \cup {None})),
           suspended : SUBSET SUBSET Targets, routes : SUBSET RouteLists]

TypeOK ==
  /\ deployed \in [Targets -> Builds \cup {None}]
  /\ routes \in RouteLists
  /\ suspended \subseteq Targets
  /\ changes \in 0..MaxChanges
  /\ ask \in [Requests -> Asks]
  /\ pc \in [Requests -> Places]
  /\ inner \in [Requests -> BOOLEAN]
  /\ queue \in [Requests -> Seq(Lookup)]
  /\ found \in [Requests -> Findings]
  /\ ran \in [Requests -> Seq(Builds)]
  /\ source \in [Requests -> Sources]
  /\ seen \in [Requests -> Sights]
=============================================================================
