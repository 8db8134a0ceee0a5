SPECIFICATION AccountSpec
CONSTANTS
  hi = hi
  mid = mid
  lo = lo
  NoTask = NoTask
  Task <- Solo
  Assigned <- One
  ByPriority <- One
  StaticSchedule <- One
  Policy = "STATIC_PRIORITIES"
  Triggering = "PREEMPTIVE"
  TickDelay = 0
  PenaltiesEnabled = FALSE
  SchedulingTime = 0
  Period <- SoloPeriod
  Deadline <- SoloNone
  Script <- OverrunScript
  Endless <- SoloEndless
  SemSize = 0
  SemMax = 2
  EventKinds = {"unset_on_release"}
  MaxLate = 8
INVARIANTS
  MaxResponseExact
