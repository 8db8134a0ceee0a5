SPECIFICATION FairSpec
CONSTANTS
  hi = hi
  mid = mid
  lo = lo
  NoTask = NoTask
  Task <- Trio
  Assigned <- HiMidLo
  ByPriority <- HiMidLo
  StaticSchedule <- HiMidLo
  Policy = "STATIC_PRIORITIES"
  Triggering = "PREEMPTIVE"
  TickDelay = 0
  PenaltiesEnabled = TRUE
  SchedulingTime = 1
  Period <- SharedPeriod
  Deadline <- TrioNone
  Script <- SharedScript
  Endless <- TrioEndless
  SemSize = 0
  SemMax = 3
  EventKinds = {"memoryless", "unset_on_release"}
  MaxLate = 20
INVARIANTS
  PriorityRespected
  StateTracksThread
  TokenTaken
  EventReleases
PROPERTIES
  ConsumptionEnds
