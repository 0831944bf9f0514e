\* Two requests and the collections of a day's two hours, into the next day.
SPECIFICATION Spec
CONSTANTS
  Requests = {r1, r2}
  HoursPerDay = 2
  MaxHour = 2
  RequestLimit = 1
  ResourceLimit = 1
  MaxResource = 1
  Never = Never
SYMMETRY Interchangeable
CHECK_DEADLOCK FALSE
INVARIANTS
  NeverOverCounts
  SuspendedForRealUse
