CONSTANTS
  Task = {watcher, regular}
  RegularTask = {regular}
  TriggerDelay = 2
  Interval = 3
  MaxRunTime = 1
  NotScheduled = NotScheduled
SPECIFICATION FairSpec
INVARIANTS
  TypeOK
  NoLostWakeup
  NothingIsLate
  WatchersAreScheduledSoon
PROPERTIES
  ScheduledTasksRun
  ChangesAreDiagnosed
  DestroyedTasksLeave
CHECK_DEADLOCK FALSE
