SPECIFICATION Spec
CONSTANTS
  hi = hi
  mid = mid
  lo = lo
  NoTask = NoTask
  Task <- Pair
  Assigned <- HiLo
  ByPriority <- HiLo
  StaticSchedule <- HiLo
  Policy = "STATIC_PRIORITIES"
  Triggering = "PREEMPTIVE"
  TickDelay = 2
  PenaltiesEnabled = FALSE
  SchedulingTime = 0
  Period <- PairPeriod
  Deadline <- PairNone
  Script <- PeriodicScript
  Endless <- PairEndless
  SemSize = 0
  SemMax = 2
  EventKinds = {"unset_on_release"}
  MaxLate = 6
INVARIANTS
  DispatchSeesPreemption
