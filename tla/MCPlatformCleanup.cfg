\* Two deploys of an app and one cleanup, from a new app and from one whose
\* earlier scripts and sites are due for deletion.
SPECIFICATION Spec
CONSTANTS
  c1 = c1
  c2 = c2
  stable = stable
  kv = kv
  db = db
  queue = queue
  A = A
  B = B
  None = None
  Deploys = {d1, d2}
  Commits = {c1, c2}
  StableName = stable
  Resources = {kv, db, queue}
  Databases = {db}
  Queues = {queue}
  Files = {1, 2}
  Classes = {A, B}
  Plans <- AppPlans
  Pasts <- AppPasts
SYMMETRY Symmetry
CONSTRAINT NewOrSwept
CHECK_DEADLOCK FALSE
INVARIANTS
  SchemaBeforeCode
  AppliedInOrder
  AppliedOnce
  RecordedClassesExist
  CurrentTargetsSurvive
  RefusedForAReason
