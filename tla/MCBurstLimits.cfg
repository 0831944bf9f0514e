\* Two requests of one or two units for three metered repositories and an
\* exempt one; windows of two seconds of two clock units, two windows begun.
SPECIFICATION RelevantSpec
CONSTANTS
  api = api
  twin = twin
  site = site
  tool = tool
  acme = acme
  ops = ops
  Requests = {r1, r2}
  Repos = {api, twin, site, tool}
  OwnerOf <- MCOwnerOf
  SlugOf <- MCSlugOf
  Exempt = {ops}
  Limit <- MCLimit
  Units <- MCUnits
  Second = 2
  WindowSeconds = 2
  MaxClock = 4
SYMMETRY Interchangeable
CHECK_DEADLOCK FALSE
INVARIANTS
  RefusalIsJustified
  SerialRequestsKeepLimit
  RetryAfterReachesNextWindow
