CONSTANTS
  Task = {watcher, regular}
  RegularTask = {regular}
  TriggerDelay = 1
  Interval = 2
  MaxRunTime = 1
  NotScheduled = NotScheduled
SPECIFICATION Spec
INVARIANT ChangesAreScheduledSoon
CHECK_DEADLOCK FALSE
