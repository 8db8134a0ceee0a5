SPECIFICATION Spec
CHECK_DEADLOCK FALSE
CONSTANTS
  a = a
  b = b
  c = c
  d = d
  other = other
  Task <- Four
  Assigned <- ByName
  ByPriority <- ByName
  StaticSchedule <- ByName
  MaxTime = 2
  Policies = {"STATIC_SCHEDULING", "CYCLE_EXECUTIVE", "STATIC_PRIORITIES"}
  Foreign = {other}
  StaticSchedules <- Given
  Sortings = {"USER_PRIORITIES", "RATE_MONOTONIC", "DEADLINE_MONOTONIC", "DENSITY_MONOTONIC"}
  TaskSets <- Described
  SettingCalls <- SomeSet
INVARIANTS
  TypeOK
  RotationFair
  ReadyTaskReturned
  StaticScheduleFollowed
