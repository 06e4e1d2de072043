CONSTANTS
  Job = {1}
  RepeatMissed = {}
  Task = {t1}
  NoTask = NoTask
  NoFile = NoFile
  MaxDisturbances = 2
SPECIFICATION Spec
INVARIANT RunsOnlyMarkedJobs
CHECK_DEADLOCK FALSE
