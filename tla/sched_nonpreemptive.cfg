SPECIFICATION FairSpec
CONSTANTS
  hi = hi
  mid = mid
  lo = lo
  NoTask = NoTask
  Task <- Trio
  Assigned <- HiMidLo
  ByPriority <- HiMidLo
  StaticSchedule <- HiMidLo
  Policy = "STATIC_PRIORITIES"
  Triggering = "NON_PREEMPTIVE"
  TickDelay = 0
  PenaltiesEnabled = FALSE
  SchedulingTime = 0
  Period <- TrioLong
  Deadline <- TrioNone
  Script <- FiniteScript
  Endless <- TrioFinite
  SemSize = 0
  SemMax = 2
  EventKinds = {"unset_on_release"}
  MaxLate = 20
PROPERTIES
  RunsToCompletion
  EndedTaskFinishes
CHECK_DEADLOCK FALSE
