SPECIFICATION Spec
CONSTANTS
  LastTarget = 2
  Requests = {q1, q2}
  CatchupTask = CatchupTask
  Worker = Worker
  Nobody = Nobody
  DayHours = 3
  LastHour = 4
  Schedules <- SmallSchedules
  Window = 2
  DedupePerDay = TRUE
  TargetQuota = 1
  DailyQuota = 2
  MaxEvents = 2
INVARIANTS
  TypeInvariant
  TargetsWithinQuota
  DailyWithinQuota
  JobsFollowRows
  DeadlinesAreServed
CHECK_DEADLOCK FALSE
PROPERTIES
  LoopRunsAgain
