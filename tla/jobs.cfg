CONSTANTS
  Job = {1, 2}
  RepeatMissed = {1}
  Task = {t1, t2}
  NoTask = NoTask
  NoFile = NoFile
  MaxDisturbances = 3
SPECIFICATION FairSpec
INVARIANTS
  TypeOK
  NoParallelRuns
  RunsOncePerEvent
  UnmarkedRunsWereDisturbed
PROPERTIES
  RunsFollowEvents
  DueJobsAreServed
  StatesFollowConfig
CHECK_DEADLOCK FALSE
