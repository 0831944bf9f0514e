\* One request, whose suspension is not to be removed within its day.
SPECIFICATION Spec
CONSTANTS
  Requests = {r1}
  HoursPerDay = 2
  MaxHour = 1
  RequestLimit = 1
  ResourceLimit = 1
  MaxResource = 1
  Never = Never
CHECK_DEADLOCK FALSE
PROPERTY DailySuspensionLasts
