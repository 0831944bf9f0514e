--------------------------- MODULE MCCustomDomains ---------------------------
(***************************************************************************)
(* Instances of CustomDomains for TLC: a hostname with a root and a path,  *)
(* and the wildcard that covers it.                                        *)
(***************************************************************************)
EXTENDS CustomDomains, TLC

CONSTANTS top, sub, far, site, any, saas

Words == {"docs"}
Docs == <<"docs">>
TwoPaths == {Root, Docs}
Covers == (site :> any) @@ (any :> any) @@ (saas :> saas)
AuthorizesTopAndSub == (site :> {top, sub}) @@ (any :> {top, sub}) @@ (saas :> {})

Asks(x, routes) == [app |-> x, routes |-> routes, stale |-> Hosts,
                    default |-> TRUE]

\* The app top has the hostname or moves about it, a branch of sub is a
\* sibling below a path; either may claim the wildcard, as may far, which TXT
\* excludes but which has a hostname of its own in a zone that W7S cannot see.
SitePlans ==
  {Asks(top, routes) : routes \in {{}, {<<site, Root>>}}}
  \cup {[app |-> sub, routes |-> {<<site, Docs>>}, stale |-> {site},
         default |-> FALSE]}
  \cup {Asks(x, {<<any, Root>>}) : x \in {top, sub}}
  \cup {Asks(far, {<<any, Root>>, <<saas, Root>>})}

Owned(x, y, z) == (site :> (Root :> x @@ Docs :> y)) @@
                  (any :> (Root :> z @@ Docs :> None)) @@
                  (saas :> (Root :> None @@ Docs :> None))
SiteRegistries == {Owned(top, sub, None), Owned(None, top, sub)}

(***************************************************************************)
(* Which deploys meet: a claim of the wildcard and one of the hostname     *)
(* where the first is of sub, which may have the wildcard, and the second  *)
(* of top, which it then covers; and far one that gives up its routes.      *)
(***************************************************************************)
Claims(d, h) == \E p \in Paths : <<h, p>> \in plan[d].routes

RelevantInit ==
  /\ Init
  /\ \A d, e \in Deploys :
       d # e =>
       /\ Claims(d, any) /\ Claims(e, site) =>
            plan[d].app = sub /\ plan[e].app = top
       /\ plan[d].app = far => plan[e].routes = {}

(***************************************************************************)
(* What a request caches is answered by KV besides, until it is replaced   *)
(* there: so it need be cached only once its replacement is in flight.     *)
(***************************************************************************)
Outdated(h) ==
  \E d \in Deploys : \E w \in writes[d] :
    w.key = Mapping(h) /\ w.table # kv[Mapping(h)]

RelevantNext ==
  \/ \E d \in Deploys : Step(d)
  \/ \E h \in Hosts : Outdated(h) /\ Fill(h)
  \/ \E h \in Hosts : Expire(h)

RelevantSpec == RelevantInit /\ [][RelevantNext]_vars

Symmetry == Permutations(Deploys)
=============================================================================
