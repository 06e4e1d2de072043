CONSTANTS
  Job = {1}
  RepeatMissed = {}
  Task = {t1}
  NoTask = NoTask
  NoFile = NoFile
  MaxDisturbances = 3
SPECIFICATION Spec
INVARIANT MissedJobsWait
CHECK_DEADLOCK FALSE
