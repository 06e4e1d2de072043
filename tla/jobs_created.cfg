CONSTANTS
  Job = {1, 2}
  RepeatMissed = {}
  Task = {t1}
  NoTask = NoTask
  NoFile = NoFile
  MaxDisturbances = 3
SPECIFICATION Spec
PROPERTY NewJobsAreNotDue
CHECK_DEADLOCK FALSE
