---------------------------- MODULE Jobs_proofs ----------------------------
(***************************************************************************)
(* Theorems about Jobs: for any jobs, tasks and number of disturbances the *)
(* variables stay in their domains, no job runs in parallel to itself, and *)
(* none runs twice for one event of its schedule; so they are what JobRuns *)
(* promises.                                                               *)
(***************************************************************************)
EXTENDS Jobs, TLAPS

\* Within a section, the worker knows the state file.  Only remove_job could have
\* changed it, and the job is then disturbed.
ReadIsCurrent ==
  /\ locked => pc \in Section
  /\ locked /\ cur \notin disturbed => read = file[cur]

\* What the worker handles, and what has a state file, is configured or was removed.
HandledJobsAreKnown ==
  /\ todo \subseteq configured \cup disturbed
  /\ cur \in configured \cup disturbed \cup {NoJob}
  /\ \A j \in Job : file[j] # NoFile => j \in configured \cup disturbed

\* What the checks without the lock have found still holds at the end of the section.
ChecksStillHold ==
  cur \notin disturbed =>
    /\ pc = "updateStopped" => \A k \in Task : running[k] # cur
    /\ pc = "starting" => CanStart(file[cur])
    /\ pc \in {"run", "started"} => file[cur] # NoFile /\ file[cur].state = "starting"

\* A running task is in its job's state file, or about to be written there.
RunningTasksAreRecorded ==
  \A k \in Task : running[k] \in Job \ disturbed =>
    /\ file[running[k]] # NoFile
    /\ \/ file[running[k]].state = "started" /\ file[running[k]].upid = k
       \/ /\ file[running[k]].state = "starting"
          /\ pc = "started" /\ cur = running[k] /\ upid = k

\* So is a run of the current event, and such a job is not started again.
RunsAreRecorded ==
  /\ \A j \in ran \ disturbed :
       /\ file[j] # NoFile
       /\ IF pc = "started" /\ cur = j THEN upid # NoTask => startTime = "new"
                                       ELSE LastRun(file[j]) = "new"
  /\ pc \in {"checkStarting", "starting", "run"} /\ cur \notin disturbed => cur \notin ran

IInv ==
  /\ ReadIsCurrent
  /\ HandledJobsAreKnown
  /\ ChecksStillHold
  /\ RunningTasksAreRecorded
  /\ RunsAreRecorded

USE DEF NoJob, Stamp, MaybeStamp, Section,
        apiVars, daemonVars, sectionVars, pluginVars, workerVars, historyVars

-----------------------------------------------------------------------------
(***************************************************************************)
(* Types.                                                                  *)
(***************************************************************************)

\* A state file as TypeOK has it: only a started job has a task.
File == {s \in State : s.state = "started" <=> s.upid # NoTask}

\* The parts of TypeOK that are about state files, in one: it is what the functions of
\* Jobs.pm preserve.
LEMMA FileTypes ==
  TypeOK => /\ \A j \in Job : file[j] # NoFile => file[j] \in File
            /\ read # NoFile => read \in File
BY DEF TypeOK, File

\* Whatever the functions of Jobs.pm write is a state file.
LEMMA WrittenTypes ==
  /\ \A s \in File \cup {NoFile} : Created(s) \in File /\ Updated(s) \in File
  /\ \A s \in File \cup {NoFile} : Aged(s) \in File \cup {NoFile}
  /\ \A s \in File : Stopped(s) \in File
  /\ Starting \in File
  /\ \A u \in MaybeStamp : Created([Default EXCEPT !.updated = u]) \in File
  /\ TypeOK => \A s \in File : Started(s) \in File
<1>1. Default \in File
  BY NoFileAssumption, JobAssumption DEF File, State, Default
<1>2. \A s \in File \cup {NoFile} : Created(s) \in File /\ Updated(s) \in File
  BY <1>1, NoFileAssumption DEF File, State, Created, Updated, OrDefault
<1>3. \A s \in File \cup {NoFile} : Aged(s) \in File \cup {NoFile}
  <2>1. ASSUME NEW s \in File
        PROVE  [s EXCEPT !.time = "old", !.updated = AgedStamp(s.updated)] \in File
    BY DEF File, State, Stamp, MaybeStamp, AgedStamp
  <2>2. QED
    BY <2>1 DEF Aged
<1>4. \A s \in File : Stopped(s) \in File
  BY JobAssumption DEF File, State, Stopped
<1>5. Starting \in File
  BY JobAssumption DEF File, State, Starting
<1>6. \A u \in MaybeStamp : Created([Default EXCEPT !.updated = u]) \in File
  <2> TAKE u \in MaybeStamp
  <2>1. [Default EXCEPT !.updated = u] \in File
    BY <1>1 DEF File, State
  <2>2. QED
    BY <1>2, <2>1
<1>7. TypeOK => \A s \in File : Started(s) \in File
  BY JobAssumption DEF TypeOK, File, State, Started
<1>8. QED
  BY <1>2, <1>3, <1>4, <1>5, <1>6, <1>7

\* So is what synchronize_job_states_with_config leaves behind.
LEMMA SynchronizedTypes ==
  TypeOK => \A j \in Job : Synchronized(j) \in File \cup {NoFile}
BY FileTypes, WrittenTypes, NoFileAssumption DEF TypeOK, Synchronized

\* What TypeOK says of the state files and of the one that was read.
FilesOK == file \in [Job -> File \cup {NoFile}] /\ read \in File \cup {NoFile}

\* TypeOK and File agree on what a state file is.
LEMMA TypeOKHasFilesOK == TypeOK => FilesOK
BY FileTypes DEF TypeOK, FilesOK

\* What TypeOK says of everything else.
RestOK ==
  /\ configured \subseteq Job
  /\ unsaved \subseteq configured
  /\ leaked \in [Job -> MaybeStamp]
  /\ running \in [Task -> Job \cup {NoJob}]
  /\ firstRun \in BOOLEAN
  /\ table \in {"empty", "late", "listed"}
  /\ table = "empty" => pc = "none"
  /\ pc \in PC
  /\ first \in BOOLEAN
  /\ todo \subseteq Job
  /\ cur \in Job \cup {NoJob}
  /\ pc \in Section \cup {"due", "checkStarting", "run"} => cur \in Job
  /\ locked \in BOOLEAN
  /\ upid \in Task \cup {NoTask}
  /\ upid # NoTask => pc = "started"
  /\ startTime \in Stamp
  /\ disturbed \subseteq Job
  /\ ran \subseteq Job
  /\ missed \subseteq Job
  /\ marked \in BOOLEAN
  /\ disturbances \in 0..MaxDisturbances

\* synchronize_job_states_with_config leaves only configured jobs to be compared again.
LEMMA UnsavedAreConfigured ==
  \A part : \A u \in Unsaved(part) : u \subseteq unsaved \cup configured
BY DEF Unsaved

\* The two parts make up TypeOK; the steps below prove them separately.
LEMMA TypeParts == TypeOK <=> FilesOK /\ RestOK
<1>1. TypeOK => RestOK
  BY DEF TypeOK, RestOK
<1>2. FilesOK /\ RestOK => TypeOK
  BY DEF TypeOK, FilesOK, RestOK, File
<1>3. QED
  BY <1>1, <1>2, TypeOKHasFilesOK

\* Every variable stays in its domain, and exactly the started jobs have a task, for any
\* jobs, tasks and number of disturbances.
THEOREM TypeCorrect == Spec => []TypeOK
<1>1. Init => TypeOK
  <2> SUFFICES ASSUME Init
               PROVE  FilesOK /\ RestOK
    BY TypeParts
  <2>1. FilesOK
    BY DEF Init, FilesOK
  <2>2. disturbances \in 0..MaxDisturbances
    BY JobAssumption DEF Init
  <2>3. RestOK
    BY <2>2 DEF Init, RestOK, PC
  <2>4. QED
    BY <2>1, <2>3
<1>2. TypeOK /\ [Next]_vars => TypeOK'
  <2> SUFFICES ASSUME TypeOK, [Next]_vars
               PROVE  FilesOK' /\ RestOK'
    <3>1. (FilesOK /\ RestOK)' => TypeOK'
      BY TypeParts, PTL
    <3>2. QED
      BY <3>1
  <2> USE TypeParts, JobAssumption, NoFileAssumption DEF PC
  <2>1. CASE Iterate
    <3>1. FilesOK'
      BY <2>1 DEF Iterate, FilesOK
    <3>2. RestOK'
      BY <2>1 DEF Iterate, RestOK
    <3>3. QED
      BY <3>1, <3>2
  <2>2. CASE Synchronize
    <3>1. FilesOK'
      BY <2>2, SynchronizedTypes DEF Synchronize, FilesOK
    <3>2. RestOK'
      BY <2>2, UnsavedAreConfigured DEF Synchronize, RestOK
    <3>3. QED
      BY <3>1, <3>2
  <2>3. CASE ReadConfig
    <3>1. FilesOK'
      BY <2>3 DEF ReadConfig, FilesOK
    <3>2. RestOK'
      BY <2>3 DEF ReadConfig, RestOK
    <3>3. QED
      BY <3>1, <3>2
  <2>4. CASE NextJob
    <3>1. FilesOK'
      BY <2>4 DEF NextJob, FilesOK
    <3>2. RestOK'
      BY <2>4 DEF NextJob, AfterStopped, RestOK
    <3>3. QED
      BY <3>1, <3>2
  <2>5. CASE AllJobsDone
    <3>1. FilesOK'
      BY <2>5 DEF AllJobsDone, Exit, FilesOK
    <3>2. RestOK'
      BY <2>5 DEF AllJobsDone, Exit, RestOK
    <3>3. QED
      BY <3>1, <3>2
  <2>6. CASE CheckDue
    <3>1. FilesOK'
      BY <2>6 DEF CheckDue, GoTo, FilesOK
    <3>2. RestOK'
      BY <2>6 DEF CheckDue, GoTo, RestOK
    <3>3. QED
      BY <3>1, <3>2
  <2>7. CASE CheckStarting
    <3>1. FilesOK'
      BY <2>7 DEF CheckStarting, GoTo, FilesOK
    <3>2. RestOK'
      BY <2>7 DEF CheckStarting, GoTo, RestOK
    <3>3. QED
      BY <3>1, <3>2
  <2>8. CASE LockAndRead
    <3>1. FilesOK'
      BY <2>8 DEF LockAndRead, FilesOK, RestOK
    <3>2. RestOK'
      BY <2>8 DEF LockAndRead, RestOK
    <3>3. QED
      BY <3>1, <3>2
  <2>9. CASE UpdateJobStopped
    <3>1. FilesOK'
      BY <2>9, WrittenTypes DEF UpdateJobStopped, Leave, FilesOK
    <3>2. RestOK'
      BY <2>9 DEF UpdateJobStopped, Leave, AfterStopped, RestOK
    <3>3. QED
      BY <3>1, <3>2
  <2>10. CASE UpdateLastRuntime
    <3>1. FilesOK'
      BY <2>10, WrittenTypes DEF UpdateLastRuntime, Leave, FilesOK
    <3>2. RestOK'
      BY <2>10 DEF UpdateLastRuntime, Leave, RestOK
    <3>3. QED
      BY <3>1, <3>2
  <2>11. CASE StartingJob
    <3>1. FilesOK'
      BY <2>11, WrittenTypes DEF StartingJob, Leave, FilesOK
    <3>2. RestOK'
      BY <2>11 DEF StartingJob, Leave, CanStart, RestOK
    <3>3. QED
      BY <3>1, <3>2
  <2>12. CASE RunPlugin
    <3>1. FilesOK'
      BY <2>12 DEF RunPlugin, FilesOK
    <3>2. RestOK'
      BY <2>12 DEF RunPlugin, RestOK
    <3>3. QED
      BY <3>1, <3>2
  <2>13. CASE StartedJob
    <3>1. FilesOK'
      BY <2>13, WrittenTypes DEF StartedJob, Leave, FilesOK
    <3>2. RestOK'
      BY <2>13 DEF StartedJob, Leave, RestOK
    <3>3. QED
      BY <3>1, <3>2
  <2>14. CASE StartedJobDies
    <3>1. FilesOK'
      BY <2>14 DEF StartedJobDies, Exit, FilesOK
    <3>2. RestOK'
      BY <2>14 DEF StartedJobDies, Exit, RestOK
    <3>3. QED
      BY <3>1, <3>2
  <2>15. CASE SynchronizeFails
    <3>1. FilesOK'
      BY <2>15, SynchronizedTypes DEF SynchronizeFails, Exit, FilesOK
    <3>2. disturbances' \in 0..MaxDisturbances
      BY <2>15 DEF SynchronizeFails, Disturb, RestOK
    <3>3. RestOK'
      BY <2>15, UnsavedAreConfigured, <3>2 DEF SynchronizeFails, Exit, RestOK
    <3>4. QED
      BY <3>1, <3>3
  <2>16. CASE SkipJob
    <3>1. FilesOK'
      BY <2>16 DEF SkipJob, FilesOK
    <3>2. RestOK'
      BY <2>16 DEF SkipJob, Disturb, RestOK
    <3>3. QED
      BY <3>1, <3>2
  <2>17. CASE WorkerDies
    <3>1. FilesOK'
      BY <2>17 DEF WorkerDies, Exit, FilesOK
    <3>2. disturbances' \in 0..MaxDisturbances
      BY <2>17 DEF WorkerDies, Disturb, RestOK
    <3>3. RestOK'
      BY <2>17, <3>2 DEF WorkerDies, Exit, RestOK
    <3>4. QED
      BY <3>1, <3>3
  <2>18. CASE DaemonStarts
    <3>1. FilesOK'
      BY <2>18 DEF DaemonStarts, FilesOK
    <3>2. RestOK'
      BY <2>18 DEF DaemonStarts, Disturb, RestOK
    <3>3. QED
      BY <3>1, <3>2
  <2>19. CASE DaemonReloads
    <3>1. FilesOK'
      BY <2>19 DEF DaemonReloads, FilesOK
    <3>2. RestOK'
      BY <2>19 DEF DaemonReloads, Disturb, RestOK
    <3>3. QED
      BY <3>1, <3>2
  <2>20. ASSUME NEW j \in Job, CreateJob(j)
        PROVE  FilesOK' /\ RestOK'
    <3>1. FilesOK'
      BY <2>20, WrittenTypes DEF CreateJob, FilesOK, RestOK
    <3>2. RestOK'
      BY <2>20 DEF CreateJob, Disturb, RestOK
    <3>3. QED
      BY <3>1, <3>2
  <2>21. ASSUME NEW j \in Job, UpdateJob(j)
        PROVE  FilesOK' /\ RestOK'
    <3>1. FilesOK'
      BY <2>21, WrittenTypes DEF UpdateJob, FilesOK
    <3>2. RestOK'
      BY <2>21 DEF UpdateJob, Disturb, RestOK
    <3>3. QED
      BY <3>1, <3>2
  <2>22. ASSUME NEW j \in Job, RemoveJob(j)
        PROVE  FilesOK' /\ RestOK'
    <3>1. FilesOK'
      BY <2>22 DEF RemoveJob, FilesOK
    <3>2. RestOK'
      BY <2>22 DEF RemoveJob, Disturb, RestOK
    <3>3. QED
      BY <3>1, <3>2
  <2>23. ASSUME NEW j \in Job, ChangedElsewhere(j)
        PROVE  FilesOK' /\ RestOK'
    <3>1. FilesOK'
      BY <2>23 DEF ChangedElsewhere, FilesOK
    <3>2. RestOK'
      BY <2>23 DEF ChangedElsewhere, Disturb, RestOK
    <3>3. QED
      BY <3>1, <3>2
  <2>24. ASSUME NEW j \in Job, ScheduledTime(j)
        PROVE  FilesOK' /\ RestOK'
    <3>1. FilesOK'
      BY <2>24, WrittenTypes DEF ScheduledTime, FilesOK
    <3>2. RestOK'
      BY <2>24 DEF ScheduledTime, AgedStamp, RestOK
    <3>3. QED
      BY <3>1, <3>2
  <2>25. ASSUME NEW k \in Task, TaskEnds(k)
        PROVE  FilesOK' /\ RestOK'
    BY <2>25 DEF TaskEnds, FilesOK, RestOK
  <2>26. CASE ListWorker \/ ReplicationEnds
    BY <2>26 DEF ListWorker, ReplicationEnds, FilesOK, RestOK
  <2>27. CASE UNCHANGED vars
    BY <2>27 DEF vars, FilesOK, RestOK
  <2>28. QED
    BY <2>1, <2>2, <2>3, <2>4, <2>5, <2>6, <2>7, <2>8, <2>9, <2>10, <2>11, <2>12,
       <2>13, <2>14, <2>15, <2>16, <2>17, <2>18, <2>19, <2>20, <2>21, <2>22, <2>23,
       <2>24, <2>25, <2>26, <2>27
       DEF Next, Worker
<1>3. QED
  BY <1>1, <1>2, PTL DEF Spec

-----------------------------------------------------------------------------
(***************************************************************************)
(* No parallel runs and one run per event.                              *)
(***************************************************************************)

\* A change of a state file that leaves the job where it is.
Keeps(s, t) == t # NoFile /\ t.state = s.state /\ t.upid = s.upid

\* update_last_runtime, and the time that passes, leave a job where it is.
LEMMA UpdatedKeeps ==
  \A s \in File : /\ Keeps(s, Updated(s)) /\ LastRun(Updated(s)) = "new"
                  /\ Keeps(s, Aged(s))
<1>1. \A s \in File : Updated(s) \in File /\ Aged(s) \in File \cup {NoFile}
  BY WrittenTypes
<1>2. \A s \in File : s # NoFile
  BY NoFileAssumption DEF File
<1> TAKE s \in File
<1>3. Updated(s) = [s EXCEPT !.updated = "new"]
  BY <1>2 DEF Updated, OrDefault
<1>4. Aged(s) = [s EXCEPT !.time = "old", !.updated = AgedStamp(@)]
  BY <1>2 DEF Aged
<1>5. Updated(s).updated = "new" /\ Keeps(s, Updated(s))
  BY <1>1, <1>2, <1>3 DEF Keeps
<1>6. Keeps(s, Aged(s))
  <2>1. Aged(s).state = s.state /\ Aged(s).upid = s.upid
    BY <1>4
  <2>2. Aged(s) \in State
    BY <1>4 DEF File, State, AgedStamp
  <2>3. QED
    BY <2>1, <2>2, NoFileAssumption DEF Keeps
<1>7. QED
  BY <1>5, <1>6 DEF LastRun

\* update_job_stopped does not count the schedule anew.
LEMMA StoppedKeepsLastRun ==
  \A s \in File : /\ Stopped(s) # NoFile /\ Stopped(s).state = "stopped"
                  /\ LastRun(Stopped(s)) = LastRun(s)
<1>1. \A s \in File : Stopped(s) # NoFile
  BY WrittenTypes, NoFileAssumption DEF File
<1>2. QED
  BY <1>1 DEF File, State, Stopped, LastRun

\* starting_job marks a job.
LEMMA StartingIsFile == Starting # NoFile /\ Starting.state = "starting"
BY WrittenTypes, NoFileAssumption DEF File, Starting

\* started_job records the task, and a last run that is not older than the plugin's.
LEMMA StartedRecordsRun ==
  ASSUME TypeOK, NEW s \in File
  PROVE  /\ Started(s) # NoFile
         /\ upid # NoTask => Started(s).state = "started" /\ Started(s).upid = upid
         /\ (upid # NoTask => startTime = "new") => LastRun(Started(s)) = "new"
<1>1. Started(s) \in File
  BY WrittenTypes
<1>2. QED
  BY <1>1, NoFileAssumption DEF File, Started, LastRun

\* synchronize_job_states_with_config leaves a configured job where it is.
LEMMA SynchronizedKeeps ==
  ASSUME TypeOK, HandledJobsAreKnown, NEW j \in Job \ disturbed
  PROVE  /\ Synchronized(j) # NoFile => j \in configured
         /\ file[j] # NoFile => /\ Keeps(file[j], Synchronized(j))
                                /\ LastRun(file[j]) = "new" => LastRun(Synchronized(j)) = "new"
BY TypeParts, UpdatedKeeps DEF HandledJobsAreKnown, FilesOK, Synchronized, Keeps


\* The parts of the invariant hold in every state; they are preserved only together.
THEOREM Invariant == Spec => []IInv
<1>1. Init => IInv
  <2> SUFFICES ASSUME Init
               PROVE  IInv
    OBVIOUS
  <2>1. ReadIsCurrent /\ HandledJobsAreKnown /\ ChecksStillHold
    BY DEF Init, ReadIsCurrent, HandledJobsAreKnown, ChecksStillHold
  <2>2. RunningTasksAreRecorded /\ RunsAreRecorded
    BY JobAssumption DEF Init, RunningTasksAreRecorded, RunsAreRecorded
  <2>3. QED
    BY <2>1, <2>2 DEF IInv
<1>2. TypeOK /\ IInv /\ [Next]_vars => IInv'
  <2> SUFFICES ASSUME TypeOK, IInv, [Next]_vars
               PROVE  ReadIsCurrent' /\ HandledJobsAreKnown' /\ ChecksStillHold' /\
                      RunningTasksAreRecorded' /\ RunsAreRecorded'
    BY DEF IInv
  <2> USE TypeParts, JobAssumption, NoFileAssumption DEF FilesOK, RestOK, IInv
  <2>1. CASE Iterate
    <3>1. ReadIsCurrent'
      BY <2>1 DEF Iterate, ReadIsCurrent
    <3>2. HandledJobsAreKnown'
      BY <2>1 DEF Iterate, HandledJobsAreKnown
    <3>3. ChecksStillHold'
      BY <2>1 DEF Iterate, ChecksStillHold
    <3>4. RunningTasksAreRecorded'
      BY <2>1 DEF Iterate, RunningTasksAreRecorded
    <3>5. RunsAreRecorded'
      BY <2>1 DEF Iterate, RunsAreRecorded
    <3>6. QED
      BY <3>1, <3>2, <3>3, <3>4, <3>5
  <2>2. CASE Synchronize
    <3>1. ReadIsCurrent'
      BY <2>2, SynchronizedKeeps DEF Synchronize, ReadIsCurrent
    <3>2. HandledJobsAreKnown'
      BY <2>2, SynchronizedKeeps DEF Synchronize, HandledJobsAreKnown
    <3>3. ChecksStillHold'
      BY <2>2, SynchronizedKeeps DEF Synchronize, ChecksStillHold
    <3>4. RunningTasksAreRecorded'
      BY <2>2, SynchronizedKeeps DEF Synchronize, RunningTasksAreRecorded, Keeps
    <3>5. RunsAreRecorded'
      BY <2>2, SynchronizedKeeps DEF Synchronize, RunsAreRecorded, Keeps
    <3>6. QED
      BY <3>1, <3>2, <3>3, <3>4, <3>5
  <2>3. CASE ReadConfig
    <3>1. ReadIsCurrent'
      BY <2>3 DEF ReadConfig, ReadIsCurrent
    <3>2. HandledJobsAreKnown'
      BY <2>3 DEF ReadConfig, HandledJobsAreKnown
    <3>3. ChecksStillHold'
      BY <2>3 DEF ReadConfig, ChecksStillHold
    <3>4. RunningTasksAreRecorded'
      BY <2>3 DEF ReadConfig, RunningTasksAreRecorded
    <3>5. RunsAreRecorded'
      BY <2>3 DEF ReadConfig, RunsAreRecorded
    <3>6. QED
      BY <3>1, <3>2, <3>3, <3>4, <3>5
  <2>4. CASE NextJob
    <3>1. ReadIsCurrent'
      BY <2>4 DEF NextJob, ReadIsCurrent
    <3>2. HandledJobsAreKnown'
      BY <2>4 DEF NextJob, HandledJobsAreKnown
    <3>3. ChecksStillHold'
      BY <2>4 DEF NextJob, AfterStopped, ChecksStillHold, RunningTasksAreRecorded
    <3>4. RunningTasksAreRecorded'
      BY <2>4 DEF NextJob, RunningTasksAreRecorded
    <3>5. RunsAreRecorded'
      BY <2>4 DEF NextJob, AfterStopped, RunsAreRecorded
    <3>6. QED
      BY <3>1, <3>2, <3>3, <3>4, <3>5
  <2>5. CASE AllJobsDone
    <3>1. ReadIsCurrent'
      BY <2>5 DEF AllJobsDone, Exit, ReadIsCurrent
    <3>2. HandledJobsAreKnown'
      BY <2>5 DEF AllJobsDone, Exit, HandledJobsAreKnown
    <3>3. ChecksStillHold'
      BY <2>5 DEF AllJobsDone, Exit, ChecksStillHold
    <3>4. RunningTasksAreRecorded'
      BY <2>5 DEF AllJobsDone, RunningTasksAreRecorded
    <3>5. RunsAreRecorded'
      BY <2>5 DEF AllJobsDone, Exit, RunsAreRecorded
    <3>6. QED
      BY <3>1, <3>2, <3>3, <3>4, <3>5
  <2>6. CASE CheckDue
    <3>1. ReadIsCurrent'
      BY <2>6 DEF CheckDue, GoTo, ReadIsCurrent
    <3>2. HandledJobsAreKnown'
      BY <2>6 DEF CheckDue, GoTo, HandledJobsAreKnown
    <3>3. ChecksStillHold'
      BY <2>6 DEF CheckDue, GoTo, ChecksStillHold
    <3>4. RunningTasksAreRecorded'
      BY <2>6 DEF CheckDue, GoTo, RunningTasksAreRecorded
    <3>5. RunsAreRecorded'
      BY <2>6 DEF CheckDue, GoTo, Due, RunsAreRecorded
    <3>6. QED
      BY <3>1, <3>2, <3>3, <3>4, <3>5
  <2>7. CASE CheckStarting
    <3>1. ReadIsCurrent'
      BY <2>7 DEF CheckStarting, GoTo, ReadIsCurrent
    <3>2. HandledJobsAreKnown'
      BY <2>7 DEF CheckStarting, GoTo, HandledJobsAreKnown
    <3>3. ChecksStillHold'
      BY <2>7 DEF CheckStarting, GoTo, ChecksStillHold
    <3>4. RunningTasksAreRecorded'
      BY <2>7 DEF CheckStarting, GoTo, RunningTasksAreRecorded
    <3>5. RunsAreRecorded'
      BY <2>7 DEF CheckStarting, GoTo, RunsAreRecorded
    <3>6. QED
      BY <3>1, <3>2, <3>3, <3>4, <3>5
  <2>8. CASE LockAndRead
    <3>1. ReadIsCurrent'
      BY <2>8 DEF LockAndRead, ReadIsCurrent
    <3>2. HandledJobsAreKnown'
      BY <2>8 DEF LockAndRead, HandledJobsAreKnown
    <3>3. ChecksStillHold'
      BY <2>8 DEF LockAndRead, ChecksStillHold
    <3>4. RunningTasksAreRecorded'
      BY <2>8 DEF LockAndRead, RunningTasksAreRecorded
    <3>5. RunsAreRecorded'
      BY <2>8 DEF LockAndRead, RunsAreRecorded
    <3>6. QED
      BY <3>1, <3>2, <3>3, <3>4, <3>5
  <2>9. CASE UpdateJobStopped
    <3>1. ReadIsCurrent'
      BY <2>9 DEF UpdateJobStopped, Leave, ReadIsCurrent
    <3>2. HandledJobsAreKnown'
      BY <2>9 DEF UpdateJobStopped, Leave, HandledJobsAreKnown
    <3>3. ChecksStillHold'
      BY <2>9 DEF UpdateJobStopped, Leave, AfterStopped, ChecksStillHold
    <3>4. RunningTasksAreRecorded'
      BY <2>9 DEF UpdateJobStopped, Leave, RunningTasksAreRecorded, ChecksStillHold
    <3>5. RunsAreRecorded'
      BY <2>9, StoppedKeepsLastRun
         DEF UpdateJobStopped, Leave, AfterStopped, RunsAreRecorded, ReadIsCurrent
    <3>6. QED
      BY <3>1, <3>2, <3>3, <3>4, <3>5
  <2>10. CASE UpdateLastRuntime
    <3>1. ReadIsCurrent'
      BY <2>10, UpdatedKeeps DEF UpdateLastRuntime, Leave, ReadIsCurrent
    <3>2. HandledJobsAreKnown'
      BY <2>10, UpdatedKeeps DEF UpdateLastRuntime, Leave, HandledJobsAreKnown
    <3>3. ChecksStillHold'
      BY <2>10, UpdatedKeeps DEF UpdateLastRuntime, Leave, ChecksStillHold
    <3>4. RunningTasksAreRecorded'
      BY <2>10, UpdatedKeeps
         DEF UpdateLastRuntime, Leave, RunningTasksAreRecorded, ReadIsCurrent, Keeps
    <3>5. RunsAreRecorded'
      BY <2>10, UpdatedKeeps
         DEF UpdateLastRuntime, Leave, RunsAreRecorded, ReadIsCurrent, Keeps
    <3>6. QED
      BY <3>1, <3>2, <3>3, <3>4, <3>5
  <2>11. CASE StartingJob
    <3>1. ReadIsCurrent'
      BY <2>11 DEF StartingJob, Leave, ReadIsCurrent
    <3>2. HandledJobsAreKnown'
      BY <2>11 DEF StartingJob, Leave, HandledJobsAreKnown
    <3>3. ChecksStillHold'
      BY <2>11, StartingIsFile DEF StartingJob, Leave, ChecksStillHold, ReadIsCurrent
    <3>4. RunningTasksAreRecorded'
      BY <2>11 DEF StartingJob, Leave, CanStart, RunningTasksAreRecorded, ReadIsCurrent
    <3>5. RunsAreRecorded'
      BY <2>11 DEF StartingJob, Leave, RunsAreRecorded
    <3>6. QED
      BY <3>1, <3>2, <3>3, <3>4, <3>5
  <2>12. CASE RunPlugin
    <3>1. ReadIsCurrent'
      BY <2>12 DEF RunPlugin, ReadIsCurrent
    <3>2. HandledJobsAreKnown'
      BY <2>12 DEF RunPlugin, HandledJobsAreKnown
    <3>3. ChecksStillHold'
      BY <2>12 DEF RunPlugin, ChecksStillHold
    <3>4. RunningTasksAreRecorded'
      BY <2>12 DEF RunPlugin, RunningTasksAreRecorded, ChecksStillHold
    <3>5. RunsAreRecorded'
      BY <2>12 DEF RunPlugin, RunsAreRecorded, ChecksStillHold
    <3>6. QED
      BY <3>1, <3>2, <3>3, <3>4, <3>5
  <2>13. CASE StartedJob
    <3>1. ReadIsCurrent'
      BY <2>13 DEF StartedJob, Leave, ReadIsCurrent
    <3>2. HandledJobsAreKnown'
      BY <2>13 DEF StartedJob, Leave, HandledJobsAreKnown
    <3>3. ChecksStillHold'
      BY <2>13 DEF StartedJob, Leave, ChecksStillHold
    <3>4. RunningTasksAreRecorded'
      BY <2>13, StartedRecordsRun
         DEF StartedJob, Leave, RunningTasksAreRecorded, ReadIsCurrent
    <3>5. RunsAreRecorded'
      <4>1. ASSUME NEW j \in ran' \ disturbed'
            PROVE  file'[j] # NoFile /\ LastRun(file'[j]) = "new"
        <5>1. CASE j = cur
          <6>1. read = file[j] /\ read \in File
            BY <2>13, <4>1, <5>1 DEF StartedJob, Leave, ReadIsCurrent, ChecksStillHold
          <6>2. upid # NoTask => startTime = "new"
            BY <2>13, <4>1, <5>1, <6>1 DEF StartedJob, RunsAreRecorded
          <6>3. file'[j] = Started(read)
            BY <2>13, <4>1, <5>1, <6>1 DEF StartedJob, Leave, File
          <6>4. QED
            BY <6>1, <6>2, <6>3, StartedRecordsRun
        <5>2. CASE j # cur
          BY <2>13, <4>1, <5>2 DEF StartedJob, Leave, RunsAreRecorded
        <5>3. QED
          BY <5>1, <5>2
      <4>2. QED
        BY <2>13, <4>1 DEF StartedJob, Leave, RunsAreRecorded
    <3>6. QED
      BY <3>1, <3>2, <3>3, <3>4, <3>5
  <2>14. CASE StartedJobDies
    <3>1. ReadIsCurrent'
      BY <2>14 DEF StartedJobDies, Exit, ReadIsCurrent
    <3>2. HandledJobsAreKnown'
      BY <2>14 DEF StartedJobDies, Exit, HandledJobsAreKnown
    <3>3. ChecksStillHold'
      BY <2>14 DEF StartedJobDies, Exit, ChecksStillHold
    <3>4. RunningTasksAreRecorded'
      BY <2>14 DEF StartedJobDies, RunningTasksAreRecorded, ReadIsCurrent
    <3>5. RunsAreRecorded'
      BY <2>14 DEF StartedJobDies, Exit, RunsAreRecorded, ReadIsCurrent, ChecksStillHold
    <3>6. QED
      BY <3>1, <3>2, <3>3, <3>4, <3>5
  <2>15. CASE SynchronizeFails
    <3>1. ReadIsCurrent'
      BY <2>15, SynchronizedKeeps DEF SynchronizeFails, Exit, ReadIsCurrent
    <3>2. HandledJobsAreKnown'
      BY <2>15, SynchronizedKeeps DEF SynchronizeFails, Exit, HandledJobsAreKnown
    <3>3. ChecksStillHold'
      BY <2>15, SynchronizedKeeps DEF SynchronizeFails, Exit, ChecksStillHold
    <3>4. RunningTasksAreRecorded'
      <4>1. \A j \in Job \ disturbed : file[j] # NoFile =>
              /\ Keeps(file[j], file'[j])
              /\ LastRun(file[j]) = "new" => LastRun(file'[j]) = "new"
        BY <2>15, SynchronizedKeeps, UpdatedKeeps DEF SynchronizeFails, Keeps
      <4>2. QED
        BY <2>15, <4>1 DEF SynchronizeFails, RunningTasksAreRecorded, Keeps
    <3>5. RunsAreRecorded'
      <4>1. \A j \in Job \ disturbed : file[j] # NoFile =>
              /\ Keeps(file[j], file'[j])
              /\ LastRun(file[j]) = "new" => LastRun(file'[j]) = "new"
        BY <2>15, SynchronizedKeeps, UpdatedKeeps DEF SynchronizeFails, Keeps
      <4>2. QED
        BY <2>15, <4>1 DEF SynchronizeFails, Exit, RunsAreRecorded, Keeps
    <3>6. QED
      BY <3>1, <3>2, <3>3, <3>4, <3>5
  <2>16. CASE SkipJob
    <3>1. ReadIsCurrent'
      BY <2>16 DEF SkipJob, ReadIsCurrent
    <3>2. HandledJobsAreKnown'
      BY <2>16 DEF SkipJob, HandledJobsAreKnown
    <3>3. ChecksStillHold'
      BY <2>16 DEF SkipJob, ChecksStillHold
    <3>4. RunningTasksAreRecorded'
      BY <2>16 DEF SkipJob, RunningTasksAreRecorded
    <3>5. RunsAreRecorded'
      BY <2>16 DEF SkipJob, RunsAreRecorded
    <3>6. QED
      BY <3>1, <3>2, <3>3, <3>4, <3>5
  <2>17. CASE WorkerDies
    <3>1. ReadIsCurrent'
      BY <2>17 DEF WorkerDies, Exit, ReadIsCurrent
    <3>2. HandledJobsAreKnown'
      BY <2>17 DEF WorkerDies, Exit, HandledJobsAreKnown
    <3>3. ChecksStillHold'
      BY <2>17 DEF WorkerDies, Exit, ChecksStillHold
    <3>4. RunningTasksAreRecorded'
      BY <2>17 DEF WorkerDies, RunningTasksAreRecorded
    <3>5. RunsAreRecorded'
      BY <2>17 DEF WorkerDies, Exit, RunsAreRecorded
    <3>6. QED
      BY <3>1, <3>2, <3>3, <3>4, <3>5
  <2>18. CASE DaemonStarts
    <3>1. ReadIsCurrent'
      BY <2>18 DEF DaemonStarts, ReadIsCurrent
    <3>2. HandledJobsAreKnown'
      BY <2>18 DEF DaemonStarts, HandledJobsAreKnown
    <3>3. ChecksStillHold'
      BY <2>18 DEF DaemonStarts, ChecksStillHold
    <3>4. RunningTasksAreRecorded'
      BY <2>18 DEF DaemonStarts, RunningTasksAreRecorded
    <3>5. RunsAreRecorded'
      BY <2>18 DEF DaemonStarts, RunsAreRecorded
    <3>6. QED
      BY <3>1, <3>2, <3>3, <3>4, <3>5
  <2>19. CASE DaemonReloads
    <3>1. ReadIsCurrent'
      BY <2>19 DEF DaemonReloads, ReadIsCurrent
    <3>2. HandledJobsAreKnown'
      BY <2>19 DEF DaemonReloads, HandledJobsAreKnown
    <3>3. ChecksStillHold'
      BY <2>19 DEF DaemonReloads, ChecksStillHold
    <3>4. RunningTasksAreRecorded'
      BY <2>19 DEF DaemonReloads, RunningTasksAreRecorded
    <3>5. RunsAreRecorded'
      BY <2>19 DEF DaemonReloads, RunsAreRecorded
    <3>6. QED
      BY <3>1, <3>2, <3>3, <3>4, <3>5
  <2>20. ASSUME NEW j \in Job, CreateJob(j)
        PROVE  ReadIsCurrent' /\ HandledJobsAreKnown' /\ ChecksStillHold' /\
               RunningTasksAreRecorded' /\ RunsAreRecorded'
    <3>1. ReadIsCurrent'
      BY <2>20 DEF CreateJob, Unlocked, ReadIsCurrent
    <3>2. HandledJobsAreKnown'
      BY <2>20 DEF CreateJob, HandledJobsAreKnown
    <3>3. ChecksStillHold'
      BY <2>20 DEF CreateJob, ChecksStillHold, HandledJobsAreKnown
    <3>4. RunningTasksAreRecorded'
      BY <2>20 DEF CreateJob, RunningTasksAreRecorded
    <3>5. RunsAreRecorded'
      BY <2>20 DEF CreateJob, RunsAreRecorded, HandledJobsAreKnown
    <3>6. QED
      BY <3>1, <3>2, <3>3, <3>4, <3>5
  <2>21. ASSUME NEW j \in Job, UpdateJob(j)
        PROVE  ReadIsCurrent' /\ HandledJobsAreKnown' /\ ChecksStillHold' /\
               RunningTasksAreRecorded' /\ RunsAreRecorded'
    <3>1. ReadIsCurrent'
      BY <2>21, UpdatedKeeps DEF UpdateJob, Unlocked, ReadIsCurrent
    <3>2. HandledJobsAreKnown'
      BY <2>21, UpdatedKeeps DEF UpdateJob, HandledJobsAreKnown
    <3>3. ChecksStillHold'
      BY <2>21, UpdatedKeeps DEF UpdateJob, Unlocked, ChecksStillHold, CanStart, Keeps
    <3>4. RunningTasksAreRecorded'
      BY <2>21, UpdatedKeeps DEF UpdateJob, RunningTasksAreRecorded, Keeps
    <3>5. RunsAreRecorded'
      BY <2>21, UpdatedKeeps DEF UpdateJob, RunsAreRecorded, Keeps
    <3>6. QED
      BY <3>1, <3>2, <3>3, <3>4, <3>5
  <2>22. ASSUME NEW j \in Job, RemoveJob(j)
        PROVE  ReadIsCurrent' /\ HandledJobsAreKnown' /\ ChecksStillHold' /\
               RunningTasksAreRecorded' /\ RunsAreRecorded'
    <3>1. ReadIsCurrent'
      BY <2>22 DEF RemoveJob, ReadIsCurrent
    <3>2. HandledJobsAreKnown'
      BY <2>22 DEF RemoveJob, HandledJobsAreKnown
    <3>3. ChecksStillHold'
      BY <2>22 DEF RemoveJob, ChecksStillHold
    <3>4. RunningTasksAreRecorded'
      BY <2>22 DEF RemoveJob, RunningTasksAreRecorded
    <3>5. RunsAreRecorded'
      BY <2>22 DEF RemoveJob, RunsAreRecorded
    <3>6. QED
      BY <3>1, <3>2, <3>3, <3>4, <3>5
  <2>23. ASSUME NEW j \in Job, ChangedElsewhere(j)
        PROVE  ReadIsCurrent' /\ HandledJobsAreKnown' /\ ChecksStillHold' /\
               RunningTasksAreRecorded' /\ RunsAreRecorded'
    <3>1. ReadIsCurrent'
      BY <2>23 DEF ChangedElsewhere, ReadIsCurrent
    <3>2. HandledJobsAreKnown'
      BY <2>23 DEF ChangedElsewhere, HandledJobsAreKnown
    <3>3. ChecksStillHold'
      BY <2>23 DEF ChangedElsewhere, ChecksStillHold
    <3>4. RunningTasksAreRecorded'
      BY <2>23 DEF ChangedElsewhere, RunningTasksAreRecorded
    <3>5. RunsAreRecorded'
      BY <2>23 DEF ChangedElsewhere, RunsAreRecorded
    <3>6. QED
      BY <3>1, <3>2, <3>3, <3>4, <3>5
  <2>24. ASSUME NEW j \in Job, ScheduledTime(j)
        PROVE  ReadIsCurrent' /\ HandledJobsAreKnown' /\ ChecksStillHold' /\
               RunningTasksAreRecorded' /\ RunsAreRecorded'
    <3>1. ReadIsCurrent'
      BY <2>24, UpdatedKeeps DEF ScheduledTime, ReadIsCurrent
    <3>2. HandledJobsAreKnown'
      BY <2>24, UpdatedKeeps DEF ScheduledTime, Aged, HandledJobsAreKnown
    <3>3. ChecksStillHold'
      BY <2>24, UpdatedKeeps DEF ScheduledTime, ChecksStillHold, CanStart, Keeps
    <3>4. RunningTasksAreRecorded'
      BY <2>24, UpdatedKeeps DEF ScheduledTime, RunningTasksAreRecorded, Keeps
    <3>5. RunsAreRecorded'
      BY <2>24, UpdatedKeeps DEF ScheduledTime, RunsAreRecorded
    <3>6. QED
      BY <3>1, <3>2, <3>3, <3>4, <3>5
  <2>25. ASSUME NEW k \in Task, TaskEnds(k)
        PROVE  ReadIsCurrent' /\ HandledJobsAreKnown' /\ ChecksStillHold' /\
               RunningTasksAreRecorded' /\ RunsAreRecorded'
    BY <2>25
       DEF TaskEnds, ReadIsCurrent, HandledJobsAreKnown, ChecksStillHold,
           RunningTasksAreRecorded, RunsAreRecorded
  <2>26. CASE ListWorker \/ ReplicationEnds
    BY <2>26
       DEF ListWorker, ReplicationEnds, ReadIsCurrent, HandledJobsAreKnown, ChecksStillHold,
           RunningTasksAreRecorded, RunsAreRecorded
  <2>27. CASE UNCHANGED vars
    BY <2>27
       DEF vars, ReadIsCurrent, HandledJobsAreKnown, ChecksStillHold,
           RunningTasksAreRecorded, RunsAreRecorded
  <2>28. QED
    BY <2>1, <2>2, <2>3, <2>4, <2>5, <2>6, <2>7, <2>8, <2>9, <2>10, <2>11, <2>12,
       <2>13, <2>14, <2>15, <2>16, <2>17, <2>18, <2>19, <2>20, <2>21, <2>22, <2>23,
       <2>24, <2>25, <2>26, <2>27
       DEF Next, Worker
<1>3. QED
  BY <1>1, <1>2, TypeCorrect, PTL DEF Spec

\* A job that was not removed, and whose worker was not lost just when it ran, never has
\* two tasks at a time, for any jobs, tasks and disturbances.
THEOREM NeverTwoTasks == Spec => []NoParallelRuns
<1>1. TypeOK /\ IInv => NoParallelRuns
  BY DEF IInv, RunningTasksAreRecorded, NoParallelRuns
<1>2. QED
  BY <1>1, TypeCorrect, Invariant, PTL

\* Such a job is not started again before its schedule has another event.
THEOREM OncePerEvent == Spec => []RunsOncePerEvent
<1>1. IInv => RunsOncePerEvent
  BY DEF IInv, RunsAreRecorded, RunsOncePerEvent
<1>2. QED
  BY <1>1, Invariant, PTL
\* A job that runs without the mark of starting_job was removed, or lost its worker just
\* when it ran: what the check without the lock has found of any other job still holds
\* under the lock.
THEOREM OnlyDisturbedRunUnmarked == Spec => []UnmarkedRunsWereDisturbed
<1>1. Init => UnmarkedRunsWereDisturbed
  BY DEF Init, UnmarkedRunsWereDisturbed
<1>2. IInv /\ UnmarkedRunsWereDisturbed /\ [Next]_vars => UnmarkedRunsWereDisturbed'
  <2> SUFFICES ASSUME IInv, UnmarkedRunsWereDisturbed, [Next]_vars,
                      pc' = "run", cur' \notin disturbed'
               PROVE  marked'
    BY DEF UnmarkedRunsWereDisturbed
  <2>1. CASE StartingJob
    <3>1. cur \notin disturbed /\ locked
      BY <2>1 DEF StartingJob, Leave
    <3>2. read = file[cur] /\ CanStart(file[cur])
      BY <2>1, <3>1 DEF StartingJob, IInv, ReadIsCurrent, ChecksStillHold
    <3>3. QED
      BY <2>1, <3>2 DEF StartingJob
  <2>2. CASE Worker /\ ~StartingJob
    BY <2>2 DEF Worker, Synchronize, ReadConfig, NextJob, AfterStopped, AllJobsDone, Exit,
       CheckDue, CheckStarting, GoTo, LockAndRead, Leave, UpdateJobStopped, UpdateLastRuntime,
       RunPlugin, StartedJob, StartedJobDies, UnmarkedRunsWereDisturbed
  <2>3. CASE Iterate \/ ListWorker \/ ReplicationEnds \/ SynchronizeFails \/ SkipJob \/
             WorkerDies \/ DaemonStarts \/ DaemonReloads
    BY <2>3 DEF Iterate, ListWorker, ReplicationEnds, SynchronizeFails, SkipJob, WorkerDies,
       Exit, DaemonStarts, DaemonReloads, UnmarkedRunsWereDisturbed
  <2>4. ASSUME NEW j \in Job, CreateJob(j) \/ UpdateJob(j) \/ RemoveJob(j) \/
                              ChangedElsewhere(j) \/ ScheduledTime(j)
        PROVE  marked'
    BY <2>4 DEF CreateJob, UpdateJob, RemoveJob, ChangedElsewhere, ScheduledTime,
       UnmarkedRunsWereDisturbed
  <2>5. ASSUME NEW k \in Task, TaskEnds(k)
        PROVE  marked'
    BY <2>5 DEF TaskEnds, UnmarkedRunsWereDisturbed
  <2>6. CASE UNCHANGED vars
    BY <2>6 DEF vars, UnmarkedRunsWereDisturbed
  <2>7. QED
    BY <2>1, <2>2, <2>3, <2>4, <2>5, <2>6 DEF Next
<1>3. QED
  BY <1>1, <1>2, Invariant, PTL DEF Spec

-----------------------------------------------------------------------------
(***************************************************************************)
(* Jobs implements JobRuns.                                                *)
(***************************************************************************)

\* When the worker comes to run a job that is not disturbed, its file says "starting": so
\* none of its tasks runs, for that would be recorded there, and no run of the current
\* event has been.
LEMMA WorkerMayRun ==
  ASSUME TypeOK, IInv, pc = "run"
  PROVE  cur \in Job /\ Runs!MayRun(cur)
<1>1. cur \in Job
  BY DEF TypeOK
<1>2. ASSUME cur \notin disturbed PROVE cur \notin ran
  BY <1>2 DEF IInv, RunsAreRecorded
<1>3. ASSUME cur \notin disturbed, NEW k \in Task PROVE running[k] # cur
  <2>1. file[cur].state = "starting"
    BY <1>3 DEF IInv, ChecksStillHold
  <2>2. QED
    BY <1>1, <1>3, <2>1 DEF IInv, RunningTasksAreRecorded
<1>4. QED
  BY <1>1, <1>2, <1>3 DEF Runs!MayRun

\* The plugin's call is a run, with a task or without.
LEMMA RunPluginRefines ==
  ASSUME TypeOK, IInv, RunPlugin
  PROVE  Runs!Next
<1>1. cur \in Job /\ Runs!MayRun(cur)
  BY WorkerMayRun DEF RunPlugin
<1>2. ran' = ran \cup {cur} /\ UNCHANGED disturbed
  BY DEF RunPlugin
<1>3. ASSUME NEW k \in Task, running[k] = NoJob,
             running' = [running EXCEPT ![k] = cur]
      PROVE  Runs!Next
  BY <1>1, <1>2, <1>3 DEF Runs!Start, Runs!Next
<1>4. CASE UNCHANGED running
  BY <1>1, <1>2, <1>4 DEF Runs!RunWithoutTask, Runs!Next
<1>5. QED
  BY <1>3, <1>4 DEF RunPlugin

\* The other steps of the worker are not seen.
LEMMA WorkerStutters ==
  ASSUME Worker, ~RunPlugin
  PROVE  UNCHANGED Runs!vars
BY DEF Worker, Synchronize, ReadConfig, NextJob, AllJobsDone, CheckDue, CheckStarting, GoTo,
       LockAndRead, UpdateJobStopped, UpdateLastRuntime, StartingJob, StartedJob, Leave,
       StartedJobDies, Runs!vars

\* The scheduler keeps its promise for any jobs, tasks and disturbances: a job runs at
\* most once for an event of its schedule and never next to a task of its own, unless it
\* was removed or lost its worker just when it ran.
THEOREM ImplementsJobRuns == Spec => RunsFollowEvents
<1>1. Init => Runs!Init
  BY DEF Init, Runs!Init
<1>2. TypeOK /\ IInv /\ [Next]_vars => [Runs!Next]_(Runs!vars)
  <2> SUFFICES ASSUME TypeOK, IInv, [Next]_vars
               PROVE  [Runs!Next]_(Runs!vars)
    OBVIOUS
  <2>1. CASE RunPlugin
    BY <2>1, RunPluginRefines
  <2>2. CASE Worker /\ ~RunPlugin
    BY <2>2, WorkerStutters
  <2>3. CASE Iterate \/ ListWorker \/ ReplicationEnds \/ SynchronizeFails \/ SkipJob \/
             DaemonReloads
    BY <2>3 DEF Iterate, ListWorker, ReplicationEnds, SynchronizeFails, SkipJob,
                DaemonReloads, Runs!vars
  <2>4. CASE WorkerDies
    <3>1. CASE pc = "started"
      <4>1. cur \in Job
        BY <3>1 DEF TypeOK
      <4>2. Runs!Excuse(cur)
        BY <2>4, <3>1 DEF WorkerDies, Runs!Excuse
      <4>3. QED
        BY <4>1, <4>2 DEF Runs!Next
    <3>2. CASE pc # "started"
      BY <2>4, <3>2 DEF WorkerDies, Runs!vars
    <3>3. QED
      BY <3>1, <3>2
  <2>5. CASE DaemonStarts
    <3>1. CASE running' = running
      BY <2>5, <3>1 DEF DaemonStarts, Runs!vars
    <3>2. CASE running' = [k \in Task |-> NoJob]
      BY <2>5, <3>2 DEF DaemonStarts, Runs!Reboot, Runs!Next
    <3>3. QED
      BY <2>5, <3>1, <3>2 DEF DaemonStarts
  <2>6. ASSUME NEW j \in Job, CreateJob(j) \/ UpdateJob(j)
        PROVE  [Runs!Next]_(Runs!vars)
    BY <2>6 DEF CreateJob, UpdateJob, Runs!vars
  <2>7. ASSUME NEW j \in Job, RemoveJob(j) \/ ChangedElsewhere(j)
        PROVE  [Runs!Next]_(Runs!vars)
    <3>1. Runs!Excuse(j) \/ UNCHANGED Runs!vars
      BY <2>7 DEF RemoveJob, ChangedElsewhere, Runs!Excuse, Runs!vars
    <3>2. QED
      BY <3>1 DEF Runs!Next
  <2>8. ASSUME NEW j \in Job, ScheduledTime(j)
        PROVE  [Runs!Next]_(Runs!vars)
    BY <2>8 DEF ScheduledTime, Runs!Event, Runs!Next
  <2>9. ASSUME NEW k \in Task, TaskEnds(k)
        PROVE  [Runs!Next]_(Runs!vars)
    BY <2>9 DEF TaskEnds, Runs!End, Runs!Next
  <2>10. CASE UNCHANGED vars
    BY <2>10 DEF vars, Runs!vars
  <2>11. QED
    BY <2>1, <2>2, <2>3, <2>4, <2>5, <2>6, <2>7, <2>8, <2>9, <2>10 DEF Next
<1>3. QED
  BY <1>1, <1>2, TypeCorrect, Invariant, PTL DEF Spec, RunsFollowEvents, Runs!Spec
=============================================================================
