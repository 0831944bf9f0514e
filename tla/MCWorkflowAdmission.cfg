\* Two requests, for two instances or for one (a retry), at a limit of one.
SPECIFICATION FairSpec
CONSTANTS
  Creates = {c1, c2}
  Ids = {i1, i2}
  ActiveLimit = 1
  MaxAttempts = 2
CHECK_DEADLOCK FALSE
INVARIANTS
  LimitHoldsWithoutOverlap
  TrackedRunHoldsMarker
  OneAnswerPerInstance
PROPERTY EveryRunEnds
