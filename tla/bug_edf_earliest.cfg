SPECIFICATION Spec
CHECK_DEADLOCK FALSE
CONSTANTS
  a = a
  b = b
  c = c
  d = d
  other = other
  Task <- Four
  Assigned <- ByName
  ByPriority <- ByName
  StaticSchedule <- ByName
  MaxTime = 2
  Policies = {"EARLIEST_DEADLINE_FIRST"}
  Foreign = {other}
  StaticSchedules <- Nothing
  Sortings = {"USER_PRIORITIES"}
  TaskSets <- Unset
  SettingCalls <- NoneSet
INVARIANTS
  EarliestDeadlineReturned
