SPECIFICATION AccountSpec
CONSTANTS
  hi = hi
  mid = mid
  lo = lo
  NoTask = NoTask
  Task <- Trio
  Assigned <- HiMidLo
  ByPriority <- HiMidLo
  StaticSchedule <- HiMidLo
  Policy = "STATIC_PRIORITIES"
  Triggering = "PREEMPTIVE"
  TickDelay = 0
  PenaltiesEnabled = FALSE
  SchedulingTime = 0
  Period <- TrioPeriod
  Deadline <- TrioNone
  Script <- TrioScript
  Endless <- TrioEndless
  SemSize = 0
  SemMax = 2
  EventKinds = {"unset_on_release"}
  MaxLate = 6
INVARIANTS
  ProcessorExclusive
  NoUnexpectedTransition
  StateTracksThread
  PriorityRespected
  DeadlinesMet
  ResumesAtDueTrigger
  OccupationExact
  MaxResponseExact
