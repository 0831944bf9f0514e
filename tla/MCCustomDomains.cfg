\* Two deploys of three apps on a hostname, the wildcard that covers it, and a
\* hostname outside the zones.
SPECIFICATION RelevantSpec
CONSTANTS
  top = top
  sub = sub
  far = far
  site = site
  any = any
  saas = saas
  None = None
  Apps = {top, sub, far}
  Hosts = {site, any, saas}
  Wildcards = {any}
  WildcardOf <- Covers
  Segments <- Words
  Paths <- TwoPaths
  Deploys = {d1, d2}
  Plans <- SitePlans
  Registries <- SiteRegistries
  Zoned = {site, any}
  Txt = {site, any}
  Listed <- AuthorizesTopAndSub
SYMMETRY Symmetry
CHECK_DEADLOCK FALSE
INVARIANTS
  UncontestedRouteIsServed
  OnlyClaimedRoutes
  WildcardsAreNotReplaced
  HostStaysReserved
  SerialDeploysAreExact
