SPECIFICATION FairSpec
CONSTANTS
  hi = hi
  mid = mid
  lo = lo
  NoTask = NoTask
  Task <- Trio
  Assigned <- HiMidLo
  ByPriority <- HiMidLo
  StaticSchedule <- HiMidLo
  Policy = "CYCLE_EXECUTIVE"
  Triggering = "PREEMPTIVE"
  TickDelay = 2
  PenaltiesEnabled = FALSE
  SchedulingTime = 0
  Period <- TrioNone
  Deadline <- TrioNone
  Script <- SlicedScript
  Endless <- TrioEndless
  SemSize = 0
  SemMax = 2
  EventKinds <- AllKinds
  MaxLate = 6
INVARIANTS
  TypeOK
  DispatchSeesPreemption
  ConsumeExact
PROPERTIES
  ReadyTaskActivated
