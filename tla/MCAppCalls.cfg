\* Two calls while one of the apps is redeployed.
SPECIFICATION RelevantSpec
CONSTANTS
  from = from
  to = to
  d1 = d1
  d2 = d2
  d3 = d3
  c1 = c1
  c2 = c2
  one = one
  other = other
  None = None
  Apps = {from, to}
  Owner <- Owners
  Deploys = {d1, d2, d3}
  Histories <- SomeHistories
  Calls = {c1, c2}
  Scenarios <- SomeScenarios
  Batches = {b}
  Paths = {one, other}
  MaxRetries = 1
  MaxSuspensions = 1
CHECK_DEADLOCK FALSE
INVARIANTS
  LetThroughRightly
  RefusalsMeanRedeploy
  MessagesEndForAReason
PROPERTY
  EveryMessageSettles
