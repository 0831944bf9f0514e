\* Two invocations, two schedules, a lock that can expire within a minute.
SPECIFICATION FairSpec
CONSTANTS
  always = always
  once = once
  Schedules = {always, once}
  Invocations = {i1, i2}
  Due <- AlwaysAndOnce
  Minute = 1
  LockTtl = 1
  MaxClock = 1
CHECK_DEADLOCK FALSE
INVARIANTS
  TwiceOnlyWhenOverlapping
  NoSilentLoss
PROPERTY
  EveryDueTaskSettles
