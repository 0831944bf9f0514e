--------------------------- MODULE MCRuntimeRouting ---------------------------
(***************************************************************************)
(* Instances of RuntimeRouting for TLC: an organization's own app, org, an *)
(* app below it, repo, both on a custom domain, their branch, and the mail *)
(* gateway, gate.                                                          *)
(***************************************************************************)
EXTENDS RuntimeRouting

CONSTANTS org, repo, gate, branch, production

Has(says, exact, index, default) ==
  [says |-> says, site |-> exact \/ index, exact |-> exact, index |-> index,
   default |-> default]

\* A Worker, a site, or both; one kept off the platform's hosts.
SomeBuilds == {Has("ok", FALSE, FALSE, TRUE),
               Has("missing", FALSE, TRUE, TRUE),
               Has("error", FALSE, FALSE, TRUE),
               Has("redirect", TRUE, FALSE, TRUE),
               Has("missing", TRUE, FALSE, FALSE),
               Has("none", FALSE, TRUE, TRUE),
               [Has("none", FALSE, FALSE, TRUE) EXCEPT !.site = TRUE]}

At(app, prefix, bare) == [app |-> app, prefix |-> prefix, bare |-> bare]
OnHost(kind, get, candidates) ==
  [custom |-> FALSE, mail |-> FALSE, kind |-> kind, get |-> get, candidates |-> candidates,
   envs |-> <<branch, production>>]
OnDomain(kind, get) ==
  [custom |-> TRUE, mail |-> FALSE, kind |-> kind, get |-> get, candidates |-> <<>>,
   envs |-> <<>>]

SomeAsks ==
  {OnHost("page", get, <<At(repo, TRUE, TRUE), At(org, FALSE, FALSE)>>) :
     get \in BOOLEAN}
  \cup {OnHost("page", TRUE, <<At(org, TRUE, FALSE)>>)}
  \cup {OnHost(kind, TRUE, <<At(org, FALSE, FALSE)>>) :
          kind \in {"handled", "reserved", "internal"}}
  \cup {OnDomain(kind, get) : kind \in {"handled", "page"}, get \in BOOLEAN}
  \cup {[OnDomain("page", FALSE) EXCEPT !.mail = TRUE]}

On(app) == [app |-> app, env |-> production]
SomeRoutes == {<<>>, <<On(org)>>, <<On(repo), On(org)>>}

MailGateway == <<gate, production>>

SomeRegistries == [Targets -> SomeBuilds \cup {None}]

\* The branch has builds of the repo only, the gateway one in production.
Registry(builds) ==
  [k \in Targets |->
     CASE k = <<org, production>>  -> builds[1]
       [] k = <<repo, production>> -> builds[2]
       [] k = <<repo, branch>>     -> builds[3]
       [] k = MailGateway          -> builds[4]
       [] OTHER                    -> None]

(***************************************************************************)
(* The initial states that differ in what they answer: routes matter to a  *)
(* custom domain only, builds and suspensions to pages, the gateway and no *)
(* branch to mail.                                                         *)
(***************************************************************************)
RelevantInit ==
  /\ ask \in [Requests -> Asks]
  /\ suspended \in {{}, {<<repo, production>>}}
  /\ \A r \in Requests : ask[r].kind # "page" => suspended = {}
  /\ routes \in RouteLists
  /\ \A r \in Requests : ~ ask[r].custom => routes = <<>>
  /\ \E builds \in [1..4 -> SomeBuilds \cup {None}] : deployed = Registry(builds)
  /\ \A r \in Requests :
       /\ ask[r].kind # "page" \/ ask[r].custom => deployed[<<repo, branch>>] = None
       /\ ~ ask[r].mail => deployed[MailGateway] = None
  /\ Init

RelevantSpec == RelevantInit /\ [][Next]_vars
=============================================================================
